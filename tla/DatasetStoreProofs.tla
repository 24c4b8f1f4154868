-------------------------- MODULE DatasetStoreProofs --------------------------
(* Theorems about DatasetStore, for every set of users, processes, records   *)
(* and keys, and any number of crashes and failures.                         *)
EXTENDS DatasetStore, FiniteSetTheorems, FunctionTheorems, TLAPS

-----------------------------------------------------------------------------
(* Rows.                                                                     *)

FiniteInv == IsFiniteSet(table) /\ \A u \in User : IsFiniteSet(batch[u])

TypeInv == TypeOK /\ FiniteInv

LEMMA NewRowsType ==
  ASSUME NEW u \in User, NEW records \in Seq(Record), NEW i \in Nat
  PROVE  /\ NewRows(u, records, i) \subseteq Row
         /\ \A r \in NewRows(u, records, i) : r.by = u
         /\ IsFiniteSet(NewRows(u, records, i))
  <1> DEFINE RowOf(n) == [key |-> <<Home[u], i + n, records[n]>>, content |-> {records[n]}, by |-> u]
             f == [n \in DOMAIN records |-> RowOf(n)]
  <1>1. DOMAIN records = 1..Len(records) /\ Len(records) \in Nat
    OBVIOUS
  <1>2. ASSUME NEW n \in DOMAIN records
        PROVE  RowOf(n) \in Row
    <2>1. records[n] \in Record /\ i + n \in Nat \ {0} /\ Home[u] \in Process
      BY <1>1, <1>2, StoreAssumption
    <2> QED
      BY <2>1 DEF Row, Key, GeneratedKey, Content
  <1>3. NewRows(u, records, i) = {RowOf(n) : n \in DOMAIN records}
    BY DEF NewRows
  <1>4. f \in Surjection(DOMAIN records, NewRows(u, records, i))
    BY <1>3, Fun_IsSurj
  <1>5. IsFiniteSet(DOMAIN records)
    BY <1>1, FS_Interval
  <1>6. IsFiniteSet(NewRows(u, records, i))
    BY <1>4, <1>5, FS_Surjection
  <1> QED
    BY <1>2, <1>3, <1>6

LEMMA MergedType ==
  ASSUME NEW u \in User, NEW T \in SUBSET Row, IsFiniteSet(T), NEW fetched \in Seq(Record)
  PROVE  /\ Merged(u, T, fetched) \subseteq Row
         /\ \A r \in Merged(u, T, fetched) : r.by = u
         /\ IsFiniteSet(Merged(u, T, fetched))
  <1> DEFINE kept == {r \in T : Today \notin r.content}
             mine == {[r EXCEPT !.by = u] : r \in kept}
             f == [r \in kept |-> [r EXCEPT !.by = u]]
  <1>1. IsFiniteSet(kept) /\ Cardinality(kept) \in Nat
    BY FS_Subset, FS_CardinalityType
  <1>2. mine \subseteq Row /\ \A r \in mine : r.by = u
    BY DEF Row
  <1>3. f \in Surjection(kept, mine)
    BY Fun_IsSurj
  <1>4. IsFiniteSet(mine)
    BY <1>1, <1>3, FS_Surjection
  <1>5. Merged(u, T, fetched) = mine \cup NewRows(u, fetched, Cardinality(kept))
    BY DEF Merged
  <1>6. /\ NewRows(u, fetched, Cardinality(kept)) \subseteq Row
        /\ \A r \in NewRows(u, fetched, Cardinality(kept)) : r.by = u
        /\ IsFiniteSet(NewRows(u, fetched, Cardinality(kept)))
    BY <1>1, NewRowsType
  <1>7. IsFiniteSet(mine \cup NewRows(u, fetched, Cardinality(kept)))
    BY <1>4, <1>6, FS_Union
  <1> HIDE DEF kept, mine, f
  <1> QED
    BY <1>2, <1>5, <1>6, <1>7

LEMMA UpdatedType ==
  ASSUME TypeInv, NEW u \in User, NEW r \in Row
  PROVE  /\ Updated(u, r) \in Row
         /\ Updated(u, r).key = r.key
         /\ Updated(u, r).by = r.by
  <1>1. UNION {s.content : s \in seen[u]} \subseteq Record \cup User
    BY DEF TypeInv, TypeOK, Row, Content
  <1>2. {u} \cup UNION {s.content : s \in seen[u]} \in Content
    BY <1>1 DEF Content
  <1> QED
    BY <1>2 DEF Updated, Row

\* The table after the statement of an update.
UpdatedTable(u) ==
  LET found == {r \in table : r.key = key[u]} IN
    (table \ found) \cup {Updated(u, r) : r \in found}

LEMMA UpdatedTableType ==
  ASSUME TypeInv, NEW u \in User
  PROVE  /\ UpdatedTable(u) \subseteq Row
         /\ \A r, s \in UpdatedTable(u) : r.key = s.key => r = s
         /\ IsFiniteSet(UpdatedTable(u))
         /\ \A r \in UpdatedTable(u) : \E s \in table : r.key = s.key /\ r.by = s.by
         /\ \A s \in table : \E r \in UpdatedTable(u) : r.key = s.key /\ r.by = s.by
  <1> DEFINE new(r) == IF r.key = key[u] THEN Updated(u, r) ELSE r
             f == [r \in table |-> new(r)]
  <1>1. \A r \in table : new(r) \in Row /\ new(r).key = r.key /\ new(r).by = r.by
    BY UpdatedType DEF TypeInv, TypeOK
  <1>2. UpdatedTable(u) = {new(r) : r \in table}
    BY DEF UpdatedTable
  <1>3. f \in Surjection(table, UpdatedTable(u))
    BY <1>2, Fun_IsSurj
  <1>4. IsFiniteSet(UpdatedTable(u))
    BY <1>3, FS_Surjection DEF TypeInv, FiniteInv
  <1> HIDE DEF new
  <1> QED
    BY <1>1, <1>2, <1>4 DEF TypeInv, TypeOK

-----------------------------------------------------------------------------
(* Type correctness.                                                         *)

LEMMA BeginType ==
  ASSUME TypeInv, NEW u \in User, NEW kind \in Ops, NEW label \in PC, Begin(u, kind, label),
         key' \in [User -> Key \cup {NoKey}], batch' \in [User -> SUBSET Row],
         \A v \in User : IsFiniteSet(batch'[v])
  PROVE  TypeInv'
  <1> USE DEF Begin, Goto, TypeInv, TypeOK, FiniteInv
  <1>1. overlapped' \in BOOLEAN
    OBVIOUS
  <1>2. last' \in User \cup {NoUser} /\ before' \subseteq Row
    OBVIOUS
  <1>3. op' \in [User -> Ops] /\ pc' \in [User -> PC]
    OBVIOUS
  <1> QED
    BY <1>1, <1>2, <1>3

LEMMA RequestType ==
  ASSUME TypeInv, NEW u \in User, Request(u)
  PROVE  TypeInv'
  <1> DEFINE Batch(rows) == batch' = [batch EXCEPT ![u] = rows]
  <1>0. /\ {"none", "replace", "append", "merge", "read", "create", "update", "delete"} \subseteq Ops
        /\ {"clear", "insert", "read", "get", "delete"} \subseteq PC
    BY DEF Ops, PC
  <1>1. ASSUME NEW rows \in SUBSET Row, IsFiniteSet(rows), Batch(rows)
        PROVE  batch' \in [User -> SUBSET Row] /\ \A v \in User : IsFiniteSet(batch'[v])
    BY <1>1 DEF TypeInv, TypeOK, FiniteInv
  <1>2. ASSUME UNCHANGED batch
        PROVE  batch' \in [User -> SUBSET Row] /\ \A v \in User : IsFiniteSet(batch'[v])
    BY <1>2 DEF TypeInv, TypeOK, FiniteInv
  <1>3. ASSUME UNCHANGED key
        PROVE  key' \in [User -> Key \cup {NoKey}]
    BY <1>3 DEF TypeInv, TypeOK
  <1>4. ASSUME NEW c \in Record
        PROVE  NewRows(u, <<c>>, 0) \in SUBSET Row /\ IsFiniteSet(NewRows(u, <<c>>, 0))
    <2>1. <<c>> \in Seq(Record) /\ 0 \in Nat
      BY <1>4
    <2> QED
      BY <2>1, NewRowsType
  <1> HIDE DEF Batch
  <1>a. CASE ReplaceTable(u)
    <2>1. PICK records \in Batches : Batch(NewRows(u, records, 0))
      BY <1>a DEF ReplaceTable, Batch
    <2>2. records \in Seq(Record)
      BY StoreAssumption
    <2>3. NewRows(u, records, 0) \in SUBSET Row /\ IsFiniteSet(NewRows(u, records, 0))
      BY <2>2, NewRowsType
    <2>4. batch' \in [User -> SUBSET Row] /\ \A v \in User : IsFiniteSet(batch'[v])
      BY <2>1, <2>3, <1>1
    <2> QED
      BY <1>0, <1>3, <1>a, <2>4, BeginType DEF ReplaceTable
  <1>b. CASE AppendRow(u)
    <2>1. PICK c \in Record : Batch(NewRows(u, <<c>>, 0))
      BY <1>b DEF AppendRow, Batch
    <2>2. batch' \in [User -> SUBSET Row] /\ \A v \in User : IsFiniteSet(batch'[v])
      BY <2>1, <1>1, <1>4
    <2> QED
      BY <1>0, <1>3, <1>b, <2>2, BeginType DEF AppendRow
  <1>c. CASE MergeToday(u)
    BY <1>0, <1>2, <1>3, <1>c, BeginType DEF MergeToday
  <1>d. CASE ReadTable(u)
    BY <1>0, <1>2, <1>3, <1>d, BeginType DEF ReadTable
  <1>e. CASE CreateRow(u)
    <2>1. ASSUME NEW c \in Record, NEW k \in RecordId
          PROVE  /\ {[key |-> k, content |-> {c}, by |-> u]} \in SUBSET Row
                 /\ IsFiniteSet({[key |-> k, content |-> {c}, by |-> u]})
      <3>1. [key |-> k, content |-> {c}, by |-> u] \in Row
        BY <2>1 DEF Row, Key, Content
      <3>2. IsFiniteSet({[key |-> k, content |-> {c}, by |-> u]})
        BY FS_Singleton
      <3> QED
        BY <3>1, <3>2
    <2>2. PICK c \in Record : \/ Batch(NewRows(u, <<c>>, 0))
                             \/ \E k \in RecordId : Batch({[key |-> k, content |-> {c}, by |-> u]})
      BY <1>e DEF CreateRow, Batch
    <2>3. batch' \in [User -> SUBSET Row] /\ \A v \in User : IsFiniteSet(batch'[v])
      BY <2>1, <2>2, <1>1, <1>4
    <2> QED
      BY <1>0, <1>3, <1>e, <2>3, BeginType DEF CreateRow
  <1>5. ASSUME Named(u)
        PROVE  key' \in [User -> Key \cup {NoKey}]
    <2>1. Active(table) \subseteq Key /\ RecordId \subseteq Key
      BY DEF TypeInv, TypeOK, Active, Row, Key
    <2> QED
      BY <1>5, <2>1 DEF Named, TypeInv, TypeOK
  <1>f. CASE UpdateRow(u)
    BY <1>0, <1>2, <1>5, <1>f, BeginType DEF UpdateRow
  <1>g. CASE DeleteRow(u)
    BY <1>0, <1>2, <1>5, <1>g, BeginType DEF DeleteRow
  <1> QED
    BY <1>a, <1>b, <1>c, <1>d, <1>e, <1>f, <1>g DEF Request

\* What every transaction leaves well formed, once its table, seen and batch are.
LEMMA AfterType ==
  ASSUME TypeInv, NEW u \in User, NEW label \in PC, Goto(u, label),
         UNCHANGED <<op, key, last, before, overlapped>>,
         filled' \in BOOLEAN, removed' \in BOOLEAN,
         crashes' \in 0..MaxCrashes, faults' \in 0..MaxFaults,
         table' \subseteq Row, \A r, s \in table' : r.key = s.key => r = s, IsFiniteSet(table'),
         seen' \in [User -> SUBSET Row], batch' \in [User -> SUBSET Row],
         \A v \in User : IsFiniteSet(batch'[v])
  PROVE  TypeInv'
  BY DEF TypeInv, TypeOK, FiniteInv, Goto

LEMMA StepType ==
  ASSUME TypeInv, NEW u \in User, Step(u)
  PROVE  TypeInv'
  <1>0. {"read", "get", "clear", "insert", "update", "delete", "done", "missing", "failed"} \subseteq PC
    BY DEF PC
  <1>1. /\ table \subseteq Row /\ IsFiniteSet(table) /\ \A r, s \in table : r.key = s.key => r = s
        /\ seen \in [User -> SUBSET Row] /\ batch \in [User -> SUBSET Row]
        /\ \A v \in User : IsFiniteSet(batch[v])
        /\ filled \in BOOLEAN /\ removed \in BOOLEAN
        /\ crashes \in 0..MaxCrashes /\ faults \in 0..MaxFaults
    BY DEF TypeInv, TypeOK, FiniteInv
  <1>2. ASSUME Fault
        PROVE  faults' \in 0..MaxFaults
    BY <1>1, <1>2, StoreAssumption DEF Fault
  <1>3. ASSUME NEW T \in SUBSET Row, IsFiniteSet(T), ReadGives(u, T), faults' \in 0..MaxFaults
        PROVE  TypeInv'
    <2>1. seen' \in [User -> SUBSET Row]
      BY <1>1, <1>3 DEF ReadGives
    <2>2. ASSUME NEW fetched \in {<<>>, <<Today>>}
          PROVE  Merged(u, T, fetched) \in SUBSET Row /\ IsFiniteSet(Merged(u, T, fetched))
      <3>1. fetched \in Seq(Record)
        <4>1. <<>> \in Seq(Record)
          OBVIOUS
        <4>2. <<Today>> \in Seq(Record)
          BY StoreAssumption
        <4> QED
          BY <2>2, <4>1, <4>2
      <3>2. IsFiniteSet(T) /\ T \in SUBSET Row
        BY <1>3
      <3>3. Merged(u, T, fetched) \subseteq Row /\ IsFiniteSet(Merged(u, T, fetched))
        BY <3>1, <3>2, MergedType
      <3> QED
        BY <3>3
    <2>3. batch' \in [User -> SUBSET Row] /\ \A v \in User : IsFiniteSet(batch'[v])
      BY <1>1, <1>3, <2>2 DEF ReadGives
    <2> QED
      BY <1>0, <1>1, <1>3, <2>1, <2>3, AfterType DEF ReadGives, Done, past
  <1>a. CASE Read(u)
    BY <1>1, <1>3, <1>a DEF Read
  <1>b. CASE Get(u)
    <2>1. seen' \in [User -> SUBSET Row]
      BY <1>1, <1>b DEF Get
    <2> QED
      BY <1>0, <1>1, <1>b, <2>1, AfterType DEF Get, Done, past
  <1>c. CASE Clear(u)
    BY <1>0, <1>1, <1>c, AfterType, FS_EmptySet DEF Clear, Done, past
  <1>d. CASE Insert(u)
    <2>1. IsFiniteSet(table')
      BY <1>1, <1>d, FS_Union DEF Insert
    <2>2. batch[u] \subseteq Row /\ table' = table \cup batch[u] /\ ~Collides(u)
      BY <1>1, <1>d DEF Insert
    <2>3. \A r, s \in table' : r.key = s.key => r = s
      BY <1>1, <2>2 DEF Collides, Active
    <2> QED
      BY <1>0, <1>1, <1>d, <2>1, <2>2, <2>3, AfterType DEF Insert
  <1>e. CASE InsertCollides(u)
    BY <1>0, <1>1, <1>e, AfterType DEF InsertCollides, Done, past
  <1>f. CASE Update(u)
    <2>1. table' = UpdatedTable(u)
      BY <1>f DEF Update, UpdatedTable
    <2> QED
      BY <1>0, <1>1, <1>f, <2>1, UpdatedTableType, AfterType DEF Update, Done, past
  <1>g. CASE Delete(u)
    <2>1. table' \subseteq table
      BY <1>g DEF Delete
    <2>2. IsFiniteSet(table')
      BY <1>1, <2>1, FS_Subset
    <2>3. removed' \in BOOLEAN
      BY <1>1, <1>g DEF Delete
    <2> QED
      BY <1>0, <1>1, <1>g, <2>1, <2>2, <2>3, AfterType DEF Delete
  <1>h. CASE StatementFails(u)
    BY <1>0, <1>1, <1>2, <1>h, AfterType DEF StatementFails, Done, past
  <1>i. CASE ReadCut(u)
    BY <1>1, <1>2, <1>3, <1>i, FS_EmptySet DEF ReadCut
  <1>j. CASE CommitLost(u)
    BY <1>0, <1>1, <1>2, <1>j, AfterType DEF CommitLost, Done, past
  <1> QED
    BY <1>a, <1>b, <1>c, <1>d, <1>e, <1>f, <1>g, <1>h, <1>i, <1>j DEF Step

LEMMA TypeInduction ==
  /\ Init => TypeInv
  /\ TypeInv /\ [Next]_vars => TypeInv'
  <1>1. ASSUME Init
        PROVE  TypeInv
    <2>1. ASSUME NEW k \in RecordId, NEW c \in Record
          PROVE  [key |-> k, content |-> {c}, by |-> "before"] \in Row
      BY <2>1 DEF Row, Key, Content
    <2>2. table = {} \/ \E r \in Row : table = {r}
      <3> DEFINE rowOf(k, c) == [key |-> k, content |-> {c}, by |-> "before"]
      <3>1. \A k \in RecordId, c \in Record : rowOf(k, c) \in Row
        BY <2>1
      <3>2. table \in {{}} \cup {{rowOf(k, c)} : k \in RecordId, c \in Record \ {Today}}
        BY <1>1 DEF Init, InitialTables
      <3> HIDE DEF rowOf
      <3> QED
        BY <3>1, <3>2
    <2>3. IsFiniteSet(table)
      BY <2>2, FS_EmptySet, FS_Singleton
    <2>4. table \subseteq Row /\ \A r, s \in table : r = s
      BY <2>2
    <2>5. FiniteInv
      BY <1>1, <2>3, FS_EmptySet DEF Init, FiniteInv
    <2>6. TypeOK
      <3>1. filled \in BOOLEAN
        BY <1>1 DEF Init
      <3>2. before \subseteq Row /\ last \in User \cup {NoUser}
        BY <1>1, <2>4 DEF Init
      <3>3. op \in [User -> Ops] /\ pc \in [User -> PC]
        BY <1>1 DEF Init, Ops, PC
      <3>4. key \in [User -> Key \cup {NoKey}]
        BY <1>1 DEF Init
      <3>5. seen \in [User -> SUBSET Row] /\ batch \in [User -> SUBSET Row]
        BY <1>1 DEF Init
      <3>6. crashes \in 0..MaxCrashes /\ faults \in 0..MaxFaults
        BY <1>1, StoreAssumption DEF Init
      <3>7. overlapped \in BOOLEAN /\ removed \in BOOLEAN
        BY <1>1 DEF Init
      <3> QED
        BY <2>4, <3>1, <3>2, <3>3, <3>4, <3>5, <3>6, <3>7 DEF TypeOK
    <2> QED
      BY <2>5, <2>6 DEF TypeInv
  <1>2. ASSUME TypeInv, [Next]_vars
        PROVE  TypeInv'
    <2>1. CASE UNCHANGED vars
      BY <1>2, <2>1 DEF vars, local, past, TypeInv, TypeOK, FiniteInv
    <2>2. ASSUME NEW p \in Process, Crash(p)
          PROVE  TypeInv'
      <3>1. pc' \in [User -> PC]
        BY <1>2, <2>2 DEF Crash, TypeInv, TypeOK, PC
      <3>2. crashes' \in 0..MaxCrashes
        BY <1>2, <2>2, StoreAssumption DEF Crash, TypeInv, TypeOK
      <3> QED
        BY <1>2, <2>2, <3>1, <3>2 DEF Crash, past, TypeInv, TypeOK, FiniteInv
    <2> QED
      BY <1>2, <2>1, <2>2, RequestType, StepType DEF Next
  <1> QED
    BY <1>1, <1>2

\* The table holds rows, at most one of a key: whatever overlaps, the unique index
\* rejects what would make a second one, and no step of the store relies on more.
THEOREM TypeCorrect == Spec => []TypeOK
  <1>1. TypeInv => TypeOK
    BY DEF TypeInv
  <1> QED
    BY <1>1, TypeInduction, PTL DEF Spec

-----------------------------------------------------------------------------
(* Keys: the rows of one insert never collide with one another.              *)

\* A generated key has the hash of the record that its row still contains.
Stamped(r) == r.key \in GeneratedKey => r.key[3] \in r.content

KeyInv ==
  /\ \A r \in table : Stamped(r)
  /\ \A u \in User : /\ \A r \in seen[u] \cup batch[u] : Stamped(r)
                     /\ \A r, s \in batch[u] : r.key = s.key => r = s
                     /\ pc[u] = "update" => seen[u] # {} /\ \A r \in seen[u] : r.key = key[u]

LEMMA NewRowsKeys ==
  ASSUME NEW u \in User, NEW records \in Seq(Record), NEW i \in Nat
  PROVE  /\ \A r \in NewRows(u, records, i) : Stamped(r)
         /\ \A r, s \in NewRows(u, records, i) : r.key = s.key => r = s
         /\ \A r \in NewRows(u, records, i) : r.key \in GeneratedKey
         /\ \A r \in NewRows(u, records, i) : \E n \in DOMAIN records : r.key[3] = records[n]
  <1> DEFINE RowOf(n) == [key |-> <<Home[u], i + n, records[n]>>, content |-> {records[n]}, by |-> u]
  <1>1. NewRows(u, records, i) = {RowOf(n) : n \in DOMAIN records}
    BY DEF NewRows
  <1>2. ASSUME NEW n \in DOMAIN records
        PROVE  n \in Nat \ {0} /\ records[n] \in Record
    BY <1>2
  <1>3. ASSUME NEW n \in DOMAIN records
        PROVE  RowOf(n).key \in GeneratedKey /\ RowOf(n).key[3] = records[n] /\ Stamped(RowOf(n))
    BY <1>2, <1>3, StoreAssumption DEF GeneratedKey, Stamped
  <1>4. ASSUME NEW n \in DOMAIN records, NEW m \in DOMAIN records, RowOf(n).key = RowOf(m).key
        PROVE  RowOf(n) = RowOf(m)
    <2>1. i + n = i + m
      BY <1>4
    <2>2. n = m
      BY <1>2, <2>1
    <2> QED
      BY <2>2
  <1> HIDE DEF RowOf
  <1> QED
    BY <1>1, <1>3, <1>4

LEMMA MergedKeys ==
  ASSUME NEW u \in User, NEW T \in SUBSET Row, IsFiniteSet(T), NEW fetched \in {<<>>, <<Today>>},
         \A r \in T : Stamped(r), \A r, s \in T : r.key = s.key => r = s
  PROVE  /\ \A r \in Merged(u, T, fetched) : Stamped(r)
         /\ \A r, s \in Merged(u, T, fetched) : r.key = s.key => r = s
  <1> DEFINE kept == {r \in T : Today \notin r.content}
             mine == {[r EXCEPT !.by = u] : r \in kept}
             new  == NewRows(u, fetched, Cardinality(kept))
  <1>1. Cardinality(kept) \in Nat
    BY FS_Subset, FS_CardinalityType
  <1>2. fetched \in Seq(Record) /\ \A n \in DOMAIN fetched : fetched[n] = Today
    <2>1. <<>> \in Seq(Record) /\ DOMAIN <<>> = {}
      OBVIOUS
    <2>2. <<Today>> \in Seq(Record) /\ \A n \in DOMAIN <<Today>> : <<Today>>[n] = Today
      BY StoreAssumption
    <2> QED
      BY <2>1, <2>2
  <1>3. /\ \A r \in new : Stamped(r)
        /\ \A r, s \in new : r.key = s.key => r = s
        /\ \A r \in new : r.key \in GeneratedKey /\ r.key[3] = Today
    BY <1>1, <1>2, NewRowsKeys
  <1>4. /\ \A r \in mine : Stamped(r)
        /\ \A r, s \in mine : r.key = s.key => r = s
        /\ \A r \in mine : Today \notin r.content
    BY DEF Stamped, Row
  <1>5. \A r \in mine, s \in new : r.key # s.key
    BY <1>3, <1>4 DEF Stamped
  <1>6. Merged(u, T, fetched) = mine \cup new
    BY DEF Merged
  <1> HIDE DEF mine, new
  <1> QED
    BY <1>3, <1>4, <1>5, <1>6

LEMMA RequestKeys ==
  ASSUME TypeInv, KeyInv, NEW u \in User, Request(u)
  PROVE  KeyInv'
  <1> DEFINE Fine(rows) == (\A r \in rows : Stamped(r)) /\ \A r, s \in rows : r.key = s.key => r = s
             Batch(rows) == batch' = [batch EXCEPT ![u] = rows]
  <1>1. /\ UNCHANGED <<table, seen>> /\ pc[u] = "idle" /\ pc'[u] # "update"
        /\ \A v \in User \ {u} : pc'[v] = pc[v] /\ key'[v] = key[v]
    BY DEF Request, ReplaceTable, AppendRow, MergeToday, ReadTable, CreateRow, UpdateRow, DeleteRow,
       Named, Begin, Goto, TypeInv, TypeOK
  <1>2. ASSUME NEW c \in Record
        PROVE  Fine(NewRows(u, <<c>>, 0))
    <2>1. <<c>> \in Seq(Record) /\ 0 \in Nat
      BY <1>2
    <2> QED
      BY <2>1, NewRowsKeys
  <1>3. ASSUME NEW records \in Batches
        PROVE  Fine(NewRows(u, records, 0))
    <2>1. records \in Seq(Record) /\ 0 \in Nat
      BY <1>3, StoreAssumption
    <2> QED
      BY <2>1, NewRowsKeys
  <1>4. ASSUME NEW c \in Record, NEW k \in RecordId
        PROVE  Fine({[key |-> k, content |-> {c}, by |-> u]})
    BY <1>4, StoreAssumption DEF Stamped
  <1> HIDE DEF Fine
  <1>5. UNCHANGED batch \/ \E rows : Batch(rows) /\ Fine(rows)
    BY <1>2, <1>3, <1>4 DEF Request, ReplaceTable, AppendRow, MergeToday, ReadTable, CreateRow,
       UpdateRow, DeleteRow
  <1>6. /\ batch \in [User -> SUBSET Row]
        /\ \A v \in User : Fine(batch[v])
    BY DEF TypeInv, TypeOK, KeyInv, Fine
  <1>7. \A v \in User : Fine(batch'[v])
    BY <1>5, <1>6
  <1> QED
    BY <1>1, <1>7 DEF KeyInv, Fine

LEMMA StepKeys ==
  ASSUME TypeInv, KeyInv, NEW u \in User, Step(u)
  PROVE  KeyInv'
  <1> USE DEF Goto, Done
  <1>1. pc \in [User -> PC] /\ seen \in [User -> SUBSET Row] /\ batch \in [User -> SUBSET Row]
        /\ IsFiniteSet(table) /\ table \subseteq Row /\ \A r, s \in table : r.key = s.key => r = s
    BY DEF TypeInv, TypeOK, FiniteInv
  <1>2. ASSUME NEW T \in SUBSET Row, IsFiniteSet(T), ReadGives(u, T),
               \A r \in T : Stamped(r), \A r, s \in T : r.key = s.key => r = s
        PROVE  KeyInv'
    <2>1. ASSUME NEW fetched \in {<<>>, <<Today>>}
          PROVE  /\ \A r \in Merged(u, T, fetched) : Stamped(r)
                 /\ \A r, s \in Merged(u, T, fetched) : r.key = s.key => r = s
      BY <1>2, <2>1, MergedKeys
    <2>2. \/ UNCHANGED batch
          \/ \E fetched \in {<<>>, <<Today>>} : batch' = [batch EXCEPT ![u] = Merged(u, T, fetched)]
      BY <1>2 DEF ReadGives
    <2>3. \A v \in User : /\ \A r \in batch'[v] : Stamped(r)
                          /\ \A r, s \in batch'[v] : r.key = s.key => r = s
      BY <1>1, <2>1, <2>2 DEF KeyInv
    <2>4. /\ UNCHANGED <<table, key>> /\ seen' = [seen EXCEPT ![u] = T]
          /\ pc'[u] # "update" /\ \A v \in User \ {u} : pc'[v] = pc[v]
      BY <1>1, <1>2 DEF ReadGives
    <2> QED
      BY <1>1, <1>2, <2>3, <2>4 DEF KeyInv
  <1>a. CASE Read(u)
    BY <1>1, <1>2, <1>a DEF Read, KeyInv
  <1>b. CASE Get(u)
    BY <1>1, <1>b DEF Get, KeyInv
  <1>c. CASE Clear(u)
    BY <1>1, <1>c DEF Clear, KeyInv
  <1>d. CASE Insert(u)
    BY <1>1, <1>d DEF Insert, KeyInv
  <1>e. CASE InsertCollides(u)
    BY <1>1, <1>e DEF InsertCollides, KeyInv
  <1>f. CASE Update(u)
    <2>1. PICK s \in seen[u] : s.key = key[u]
      BY <1>f DEF Update, KeyInv
    <2>2. ASSUME NEW r \in table, r.key = key[u]
          PROVE  Stamped(Updated(u, r))
      <3>1. s.content \subseteq Updated(u, r).content /\ Updated(u, r).key = s.key
        BY <1>1, <2>1, <2>2 DEF Updated, Row
      <3> QED
        BY <2>1, <3>1 DEF KeyInv, Stamped
    <2>3. \A r \in table' : Stamped(r)
      BY <1>f, <2>2 DEF Update, KeyInv
    <2> QED
      BY <1>1, <1>f, <2>3 DEF Update, KeyInv
  <1>g. CASE Delete(u)
    BY <1>1, <1>g DEF Delete, KeyInv
  <1>h. CASE StatementFails(u)
    BY <1>1, <1>h DEF StatementFails, KeyInv
  <1>i. CASE ReadCut(u)
    BY <1>2, <1>i, FS_EmptySet DEF ReadCut
  <1>j. CASE CommitLost(u)
    BY <1>1, <1>j DEF CommitLost, KeyInv
  <1> QED
    BY <1>a, <1>b, <1>c, <1>d, <1>e, <1>f, <1>g, <1>h, <1>i, <1>j DEF Step

LEMMA KeyInduction ==
  /\ Init => KeyInv
  /\ TypeInv /\ KeyInv /\ [Next]_vars => KeyInv'
  <1>1. ASSUME Init
        PROVE  KeyInv
    BY <1>1, StoreAssumption DEF Init, InitialTables, KeyInv, Stamped
  <1>2. ASSUME TypeInv, KeyInv, [Next]_vars
        PROVE  KeyInv'
    <2>1. CASE UNCHANGED vars
      BY <1>2, <2>1 DEF vars, local, past, KeyInv
    <2>2. ASSUME NEW p \in Process, Crash(p)
          PROVE  KeyInv'
      BY <1>2, <2>2 DEF Crash, TypeInv, TypeOK, KeyInv
    <2> QED
      BY <1>2, <2>1, <2>2, RequestKeys, StepKeys DEF Next
  <1> QED
    BY <1>1, <1>2

-----------------------------------------------------------------------------
(* Where an operation is.                                                    *)

PlaceInv ==
  \A u \in User : /\ pc[u] = "idle" => seen[u] = {}
                  /\ pc[u] = "get" => op[u] = "update"
                  /\ pc[u] = "clear" => op[u] \in {"replace", "merge"}
                  /\ pc[u] = "insert" => op[u] \in {"replace", "merge", "append", "create"}
                  /\ pc[u] = "update" => op[u] = "update"
                  /\ pc[u] = "delete" => op[u] = "delete"

LEMMA PlaceInduction ==
  /\ Init => PlaceInv
  /\ TypeInv /\ PlaceInv /\ [Next]_vars => PlaceInv'
  <1>1. Init => PlaceInv
    BY DEF Init, PlaceInv
  <1>2. ASSUME TypeInv, PlaceInv, [Next]_vars
        PROVE  PlaceInv'
    <2> USE <1>2 DEF TypeInv, TypeOK, PlaceInv, Goto, Done
    <2>1. CASE UNCHANGED vars
      BY <2>1 DEF vars, local
    <2>2. ASSUME NEW p \in Process, Crash(p)
          PROVE  PlaceInv'
      BY <2>2 DEF Crash
    <2>3. ASSUME NEW u \in User, Request(u)
          PROVE  PlaceInv'
      BY <2>3 DEF Request, ReplaceTable, AppendRow, MergeToday, ReadTable, CreateRow, UpdateRow,
         DeleteRow, Begin
    <2>4. ASSUME NEW u \in User, Step(u)
          PROVE  PlaceInv'
      <3>1. CASE Read(u) \/ ReadCut(u)
        BY <2>4, <3>1 DEF Read, ReadCut, ReadGives
      <3>2. CASE Get(u) \/ Clear(u) \/ Insert(u) \/ InsertCollides(u)
        BY <2>4, <3>2 DEF Get, Clear, Insert, InsertCollides
      <3>3. CASE Update(u) \/ Delete(u) \/ StatementFails(u) \/ CommitLost(u)
        BY <2>4, <3>3 DEF Update, Delete, StatementFails, CommitLost
      <3> QED
        BY <2>4, <3>1, <3>2, <3>3 DEF Step
    <2> QED
      BY <2>1, <2>2, <2>3, <2>4 DEF Next
  <1> QED
    BY <1>1, <1>2

-----------------------------------------------------------------------------
(* A table that was filled.                                                  *)

LEMMA FilledStep ==
  ASSUME TypeInv, KeyInv, PlaceInv, NeverLeftEmpty, [Next]_vars
  PROVE  NeverLeftEmpty'
  <1> DEFINE Replacing(u) == op[u] \in {"replace", "merge"} /\ pc[u] = "insert"
  <1> USE DEF NeverLeftEmpty, Smooth, Goto, Done
  <1>1. /\ op \in [User -> Ops] /\ pc \in [User -> PC] /\ batch \in [User -> SUBSET Row]
        /\ crashes \in Nat /\ faults \in Nat
    BY DEF TypeInv, TypeOK
  <1>2. CASE UNCHANGED vars
    BY <1>2 DEF vars, local, past
  <1>3. ASSUME NEW p \in Process, Crash(p)
        PROVE  NeverLeftEmpty'
    BY <1>1, <1>3 DEF Crash
  <1>4. ASSUME NEW u \in User, Request(u)
        PROVE  NeverLeftEmpty'
    <2>1. /\ UNCHANGED <<table, filled, removed, crashes, faults>> /\ pc[u] = "idle"
          /\ \A v \in User \ {u} : op'[v] = op[v] /\ pc'[v] = pc[v]
      BY <1>1, <1>4 DEF Request, ReplaceTable, AppendRow, MergeToday, ReadTable, CreateRow, UpdateRow,
         DeleteRow, Begin
    <2> QED
      BY <2>1
  <1>5. ASSUME NEW u \in User, Step(u)
        PROVE  NeverLeftEmpty'
    <2>1. CASE Read(u)
      BY <1>1, <2>1 DEF Read, ReadGives, past
    <2>2. CASE Get(u)
      BY <1>1, <2>2 DEF Get, past
    <2>3. CASE Clear(u)
      BY <1>1, <2>3 DEF Clear, PlaceInv
    <2>4. CASE Insert(u)
      <3>1. filled' => table' # {}
        BY <2>4 DEF Insert
      <3> QED
        BY <3>1
    <2>5. CASE InsertCollides(u)
      <3>1. \A r, s \in batch[u] : r.key = s.key => r = s
        BY DEF KeyInv
      <3>2. Active(table) # {}
        BY <2>5, <3>1 DEF InsertCollides, Collides
      <3>3. table # {} /\ UNCHANGED table
        BY <2>5, <3>2 DEF InsertCollides, Active
      <3> QED
        BY <3>3
    <2>6. CASE Update(u)
      <3>1. table' = {} => table = {}
        BY <2>6 DEF Update
      <3>2. /\ UNCHANGED <<op, filled, removed, crashes, faults>> /\ pc[u] = "update"
            /\ \A v \in User \ {u} : pc'[v] = pc[v]
        BY <1>1, <2>6 DEF Update, past
      <3> QED
        BY <3>1, <3>2
    <2>7. CASE Delete(u)
      <3> DEFINE found == {r \in table : r.key = key[u]}
      <3>1. ~removed' => ~removed /\ found = {}
        BY <2>7 DEF Delete
      <3>2. found = {} => table' = table
        BY <2>7 DEF Delete
      <3>3. /\ UNCHANGED <<op, filled, crashes, faults>> /\ pc[u] = "delete"
            /\ \A v \in User \ {u} : pc'[v] = pc[v]
        BY <1>1, <2>7 DEF Delete
      <3> HIDE DEF found
      <3> QED
        BY <3>1, <3>2, <3>3
    <2>8. CASE StatementFails(u) \/ ReadCut(u) \/ CommitLost(u)
      BY <1>1, <2>8 DEF StatementFails, ReadCut, CommitLost, Fault
    <2> QED
      BY <1>5, <2>1, <2>2, <2>3, <2>4, <2>5, <2>6, <2>7, <2>8 DEF Step
  <1> QED
    BY <1>2, <1>3, <1>4, <1>5 DEF Next

\* Without crashes and failures, a table that was filled is empty only between
\* the two transactions of a replacement: of any number that overlap, the last
\* to clear it still inserts, and it collides only with rows that are there.
THEOREM NobodyEmpties == Spec => []NeverLeftEmpty
  <1>1. Init => NeverLeftEmpty
    BY DEF Init, NeverLeftEmpty
  <1> QED
    BY <1>1, TypeInduction, KeyInduction, PlaceInduction, FilledStep, PTL DEF Spec

-----------------------------------------------------------------------------
(* What was written together is seen together.                               *)

\* Of an operation that has yet to insert, nothing is there.
Unwritten == {"idle", "read", "get", "clear", "insert", "update", "delete"}

WholeIn(T, b, p) ==
  \A u \in User : /\ Written(T, u) \in {{}, Active(b[u])}
                  /\ p[u] \in Unwritten => Written(T, u) = {}

OwnRows == \A u \in User : \A r \in batch[u] : r.by = u

WholeInv == OwnRows /\ (~removed => \A T \in Snapshots : WholeIn(T, batch, pc))

\* Of every operation: what it is to insert changes only while nothing is there of
\* it, and it does not return to that.
Onward ==
  \A v \in User : /\ batch'[v] = batch[v] \/ pc[v] \in Unwritten
                  /\ pc'[v] \in Unwritten => pc[v] \in Unwritten

LEMMA StaysWhole ==
  ASSUME NEW T, WholeIn(T, batch, pc), Onward
  PROVE  WholeIn(T, batch', pc')
  BY DEF WholeIn, Onward

LEMMA NothingIsWhole == WholeIn({}, batch', pc')
  BY DEF WholeIn, Written

LEMMA RequestOnward ==
  ASSUME TypeInv, PlaceInv, NEW u \in User, Request(u)
  PROVE  Onward /\ Snapshots' \subseteq Snapshots \cup {{}}
  <1>1. /\ UNCHANGED <<table, seen>> /\ pc[u] = "idle" /\ seen[u] = {}
        /\ \A v \in User \ {u} : pc'[v] = pc[v] /\ op'[v] = op[v] /\ batch'[v] = batch[v]
    BY DEF Request, ReplaceTable, AppendRow, MergeToday, ReadTable, CreateRow, UpdateRow, DeleteRow,
       Begin, Goto, PlaceInv, TypeInv, TypeOK
  <1>2. Snapshots' \subseteq Snapshots \cup {{}}
    BY <1>1 DEF Snapshots
  <1> QED
    BY <1>1, <1>2 DEF Onward, Unwritten

LEMMA RequestOwn ==
  ASSUME TypeInv, OwnRows, NEW u \in User, Request(u)
  PROVE  OwnRows'
  <1> DEFINE Batch(rows) == batch' = [batch EXCEPT ![u] = rows]
             Own(rows) == \A r \in rows : r.by = u
  <1>1. ASSUME NEW records, NEW r \in NewRows(u, records, 0)
        PROVE  r.by = u
    BY <1>1 DEF NewRows
  <1>2. \A records : Own(NewRows(u, records, 0))
    BY <1>1
  <1>3. \A k, c : Own({[key |-> k, content |-> {c}, by |-> u]})
    OBVIOUS
  <1> HIDE DEF Own, Batch
  <1>4. UNCHANGED batch \/ \E rows : Batch(rows) /\ Own(rows)
    <2>1. CASE \E rows : (\E records : rows = NewRows(u, records, 0)) /\ Batch(rows)
      BY <1>2, <2>1
    <2>2. CASE \E k, c : Batch({[key |-> k, content |-> {c}, by |-> u]})
      BY <1>3, <2>2
    <2>3. CASE UNCHANGED batch
      BY <2>3
    <2> QED
      BY <2>1, <2>2, <2>3 DEF Batch, Request, ReplaceTable, AppendRow, MergeToday, ReadTable, CreateRow,
         UpdateRow, DeleteRow
  <1> QED
    BY <1>4 DEF Own, Batch, OwnRows, TypeInv, TypeOK

LEMMA StepOwn ==
  ASSUME TypeInv, OwnRows, NEW u \in User, Step(u)
  PROVE  OwnRows'
  <1>1. UNCHANGED batch \/ \E T \in SUBSET Row : ReadGives(u, T)
    <2>1. {} \in SUBSET Row /\ table \in SUBSET Row
      BY DEF TypeInv, TypeOK
    <2> QED
      BY <2>1 DEF Step, Read, Get, Clear, Insert, InsertCollides, Update, Delete, StatementFails, ReadCut,
       CommitLost
  <1>2. ASSUME NEW T \in SUBSET Row, ReadGives(u, T)
        PROVE  OwnRows'
    <2>1. ASSUME NEW fetched, NEW r \in Merged(u, T, fetched)
          PROVE  r.by = u
      <3>1. CASE \E i : r \in NewRows(u, fetched, i)
        BY <3>1 DEF NewRows
      <3>2. CASE \E s \in T : r = [s EXCEPT !.by = u]
        BY <3>2 DEF Row
      <3> QED
        BY <2>1, <3>1, <3>2 DEF Merged
    <2>2. UNCHANGED batch \/ \E fetched : batch' = [batch EXCEPT ![u] = Merged(u, T, fetched)]
      BY <1>2 DEF ReadGives
    <2> QED
      BY <2>1, <2>2 DEF OwnRows, TypeInv, TypeOK
  <1> QED
    BY <1>1, <1>2 DEF OwnRows

LEMMA StepOnward ==
  ASSUME TypeInv, NEW u \in User, Step(u)
  PROVE  Onward
  <1> USE DEF Goto, Done, Onward, Unwritten
  <1>1. pc \in [User -> PC] /\ batch \in [User -> SUBSET Row]
    BY DEF TypeInv, TypeOK
  <1>2. CASE Read(u) \/ ReadCut(u)
    BY <1>1, <1>2 DEF Read, ReadCut, ReadGives
  <1>3. CASE Get(u) \/ Clear(u) \/ Insert(u) \/ InsertCollides(u)
    BY <1>1, <1>3 DEF Get, Clear, Insert, InsertCollides
  <1>4. CASE Update(u) \/ Delete(u) \/ StatementFails(u) \/ CommitLost(u)
    BY <1>1, <1>4 DEF Update, Delete, StatementFails, CommitLost, Live
  <1> QED
    BY <1>2, <1>3, <1>4 DEF Step

\* Who reads gets the table or, cut off, nothing; the rest is as it was read.
LEMMA StepSnapshots ==
  ASSUME TypeInv, PlaceInv, NEW u \in User, Step(u)
  PROVE  Snapshots' \subseteq Snapshots \cup {{}, table'}
  <1>1. op' = op /\ seen \in [User -> SUBSET Row]
    BY DEF Step, Read, Get, Clear, Insert, InsertCollides, Update, Delete, StatementFails, ReadCut,
       CommitLost, ReadGives, Done, TypeInv, TypeOK
  <1>2. CASE UNCHANGED seen
    BY <1>1, <1>2 DEF Snapshots
  <1>3. CASE Read(u) \/ ReadCut(u)
    <2>1. seen' = [seen EXCEPT ![u] = table] \/ seen' = [seen EXCEPT ![u] = {}]
      BY <1>3 DEF Read, ReadCut, ReadGives
    <2>2. \A v \in User : seen'[v] = seen[v] \/ seen'[v] = {} \/ seen'[v] = table
      BY <1>1, <2>1
    <2> QED
      BY <1>1, <2>2 DEF Snapshots
  <1>4. CASE Get(u)
    <2>1. op[u] = "update" /\ \A v \in User \ {u} : seen'[v] = seen[v]
      BY <1>1, <1>4 DEF Get, PlaceInv
    <2> QED
      BY <1>1, <2>1 DEF Snapshots
  <1> QED
    BY <1>2, <1>3, <1>4 DEF Step, Clear, Insert, InsertCollides, Update, Delete, StatementFails,
       CommitLost

LEMMA StepTable ==
  ASSUME TypeInv, WholeInv, NEW u \in User, Step(u), ~removed'
  PROVE  ~removed /\ WholeIn(table', batch', pc')
  <1>0. Onward
    BY StepOnward
  <1>1. ~removed
    BY DEF Step, Read, Get, Clear, Insert, InsertCollides, Update, Delete, StatementFails, ReadCut,
       CommitLost, ReadGives, Done, past
  <1> SUFFICES WholeIn(table', batch', pc')
    BY <1>1
  <1>2. WholeIn(table, batch, pc)
    BY <1>1 DEF WholeInv, Snapshots
  <1>3. CASE UNCHANGED table
    BY <1>0, <1>2, <1>3, StaysWhole
  <1>4. CASE Clear(u)
    BY <1>4, NothingIsWhole DEF Clear
  <1>5. CASE Insert(u)
    <2>1. table' = table \cup batch[u] /\ batch' = batch /\ pc'[u] = "done" /\ pc[u] = "insert"
          /\ \A v \in User \ {u} : pc'[v] = pc[v]
      BY <1>5 DEF Insert, Goto, TypeInv, TypeOK
    <2>2. Written(table, u) = {} /\ Written(table', u) = Active(batch[u])
      BY <1>2, <2>1 DEF WholeIn, Unwritten, Written, Active, WholeInv, OwnRows
    <2>3. ASSUME NEW v \in User \ {u}
          PROVE  Written(table', v) = Written(table, v)
      BY <2>1, <2>3 DEF Written, WholeInv, OwnRows
    <2>4. WholeIn(table, batch', pc')
      BY <1>0, <1>2, StaysWhole
    <2> QED
      BY <2>1, <2>2, <2>3, <2>4 DEF WholeIn, Unwritten
  <1>6. CASE Update(u)
    <2>1. table' = UpdatedTable(u)
      BY <1>6 DEF Update, UpdatedTable
    <2>2. \A v \in User : Written(table', v) = Written(table, v)
      BY <2>1, UpdatedTableType DEF Written
    <2>3. WholeIn(table, batch', pc')
      BY <1>0, <1>2, StaysWhole
    <2> QED
      BY <2>2, <2>3 DEF WholeIn
  <1>7. CASE Delete(u)
    <2> DEFINE found == {r \in table : r.key = key[u]}
    <2>1. found = {} /\ table' = table \ found
      BY <1>7 DEF Delete
    <2> QED
      BY <1>3, <2>1
  <1> QED
    BY <1>3, <1>4, <1>5, <1>6, <1>7 DEF Step, Read, ReadCut, ReadGives, Get, InsertCollides,
       StatementFails, CommitLost

LEMMA WholeStep ==
  ASSUME TypeInv, PlaceInv, WholeInv, [Next]_vars
  PROVE  WholeInv'
  <1>1. CASE UNCHANGED vars
    <2>1. UNCHANGED <<batch, pc, removed, Snapshots>>
      BY <1>1 DEF vars, local, past, Snapshots
    <2> QED
      BY <2>1 DEF WholeInv, OwnRows
  <1>2. ASSUME NEW p \in Process, Crash(p)
        PROVE  WholeInv'
    <2>1. UNCHANGED <<batch, removed, Snapshots>>
      BY <1>2 DEF Crash, past, Snapshots
    <2>2. Onward
      BY <1>2, <2>1 DEF Crash, Onward, Unwritten, TypeInv, TypeOK
    <2>3. ~removed' => \A T \in Snapshots' : WholeIn(T, batch', pc')
      BY <2>1, <2>2, StaysWhole DEF WholeInv
    <2> QED
      BY <2>1, <2>3 DEF WholeInv, OwnRows
  <1>3. ASSUME NEW u \in User, Request(u)
        PROVE  WholeInv'
    <2>1. Onward /\ Snapshots' \subseteq Snapshots \cup {{}}
      BY <1>3, RequestOnward
    <2>2. UNCHANGED removed
      BY <1>3 DEF Request, ReplaceTable, AppendRow, MergeToday, ReadTable, CreateRow, UpdateRow,
         DeleteRow, Begin
    <2>3. ~removed' => \A T \in Snapshots' : WholeIn(T, batch', pc')
      BY <2>1, <2>2, StaysWhole, NothingIsWhole DEF WholeInv
    <2>4. OwnRows'
      BY <1>3, RequestOwn DEF WholeInv
    <2> QED
      BY <2>3, <2>4 DEF WholeInv
  <1>4. ASSUME NEW u \in User, Step(u)
        PROVE  WholeInv'
    <2>1. Onward /\ Snapshots' \subseteq Snapshots \cup {{}, table'}
      BY <1>4, StepOnward, StepSnapshots
    <2>2. ~removed' => ~removed /\ WholeIn(table', batch', pc')
      BY <1>4, StepTable
    <2>3. ~removed' => \A T \in Snapshots' : WholeIn(T, batch', pc')
      BY <2>1, <2>2, StaysWhole, NothingIsWhole DEF WholeInv
    <2>4. OwnRows'
      BY <1>4, StepOwn DEF WholeInv
    <2> QED
      BY <2>3, <2>4 DEF WholeInv
  <1> QED
    BY <1>1, <1>2, <1>3, <1>4 DEF Next

\* Every reader sees all rows of an insert or none, whatever overlaps, fails or
\* crashes: rows are inserted by one transaction, whose operation had none before,
\* and only a request for a single row takes one away.
THEOREM ReadersSeeWholeBatches == Spec => []WholeBatches
  <1>1. Init => WholeInv
    <2>1. ASSUME Init
          PROVE  \A T \in Snapshots : T = table /\ \A u \in User : Written(T, u) = {}
      BY <2>1, StoreAssumption DEF Init, InitialTables, Snapshots, Written
    <2> QED
      BY <2>1 DEF Init, WholeInv, WholeIn, OwnRows
  <1>2. WholeInv => WholeBatches
    BY DEF WholeInv, WholeIn, WholeBatches
  <1> QED
    BY <1>1, <1>2, TypeInduction, PlaceInduction, WholeStep, PTL DEF Spec

-----------------------------------------------------------------------------
(* An operation that nothing overlaps.                                       *)

\* What is kept of the table is in what a merge inserts.
KeepsTheRest(u) == Plain(batch[u]) = Plain({r \in before : Today \notin r.content} \cup batch[u])

\* How far operation u, alone, has come.
Reached(u) ==
  /\ pc[u] \in {"read", "get", "clear", "update", "delete", "missing", "failed"} => table = before
  /\ pc[u] = "insert" => table = IF op[u] \in {"replace", "merge"} THEN {} ELSE before
  /\ pc[u] = "update" => seen[u] = {r \in before : r.key = key[u]}
  /\ pc[u] \in {"clear", "insert"} /\ op[u] = "merge" => KeepsTheRest(u)
  /\ pc[u] = "done" => Plain(table) = Promised(u, before)

OneAtATime ==
  /\ ~overlapped => \A v \in User : Live(v) => v = last
  /\ last # NoUser => ~overlapped /\ last \in User
  /\ Smooth /\ last # NoUser => pc[last] \notin {"idle", "dead"}

AloneInv == OneAtATime /\ (Smooth /\ last # NoUser => Reached(last))

LEMMA RequestAlone ==
  ASSUME TypeInv, AloneInv, NEW u \in User, Request(u)
  PROVE  AloneInv'
  <1>1. PICK kind \in Ops, label \in {"clear", "insert", "read", "get", "delete"} :
          /\ Begin(u, kind, label)
          /\ label = "insert" => kind \notin {"replace", "merge"}
          /\ label = "clear" => kind # "merge"
    BY DEF Request, ReplaceTable, AppendRow, MergeToday, ReadTable, CreateRow, UpdateRow, DeleteRow, Ops
  <1>2. /\ pc' = [pc EXCEPT ![u] = label] /\ op' = [op EXCEPT ![u] = kind]
        /\ UNCHANGED <<table, crashes, faults>>
        /\ overlapped' = (overlapped \/ \E v \in User : Live(v))
        /\ last' = IF overlapped' THEN NoUser ELSE u
        /\ before' = IF overlapped' THEN {} ELSE table
    BY <1>1 DEF Begin, Goto
  <1>3. pc'[u] = label /\ op'[u] = kind /\ \A v \in User \ {u} : pc'[v] = pc[v]
    BY <1>2 DEF TypeInv, TypeOK
  <1>4. OneAtATime'
    BY <1>2, <1>3 DEF OneAtATime, Live
  <1>5. ASSUME last' # NoUser
        PROVE  Reached(last)'
    <2>1. last' = u /\ before' = table' /\ table' = table
      BY <1>2, <1>5
    <2> QED
      BY <1>1, <1>3, <2>1 DEF Reached
  <1> QED
    BY <1>4, <1>5 DEF AloneInv

LEMMA UpdateKeepsPromise ==
  ASSUME TypeInv, KeyInv, NEW u \in User, op[u] = "update",
         seen[u] = {r \in table : r.key = key[u]}
  PROVE  Plain(UpdatedTable(u)) = Promised(u, table)
  <1> DEFINE found == {r \in table : r.key = key[u]}
             new(r) == IF r.key = key[u] THEN Updated(u, r) ELSE r
             Then(r) == [key |-> r.key, content |-> IF r.key = key[u] THEN r.content \cup {u} ELSE r.content]
  <1>1. ASSUME NEW r \in table
        PROVE  [key |-> new(r).key, content |-> new(r).content] = Then(r)
    <2>1. CASE r.key = key[u]
      <3>1. seen[u] = {r}
        BY <2>1 DEF TypeInv, TypeOK
      <3>2. UNION {s.content : s \in seen[u]} = r.content
        BY <3>1
      <3>3. Updated(u, r).key = r.key /\ Updated(u, r).content = r.content \cup {u}
        BY <3>2 DEF Updated, TypeInv, TypeOK, Row
      <3> QED
        BY <2>1, <3>3
    <2>2. CASE r.key # key[u]
      BY <2>2
    <2> QED
      BY <2>1, <2>2
  <1>2. UpdatedTable(u) = {new(r) : r \in table}
    BY DEF UpdatedTable
  <1>3. Promised(u, table) = {Then(r) : r \in table}
    BY DEF Promised
  <1> HIDE DEF new, Then
  <1> QED
    BY <1>1, <1>2, <1>3 DEF Plain

LEMMA MergeKeepsTheRest ==
  ASSUME TypeInv, NEW u \in User, NEW fetched
  PROVE  LET rows == Merged(u, table, fetched) IN
           Plain(rows) = Plain({r \in table : Today \notin r.content} \cup rows)
  <1> DEFINE kept == {r \in table : Today \notin r.content}
             rows == Merged(u, table, fetched)
  <1>1. ASSUME NEW r \in kept
        PROVE  \E s \in rows : s.key = r.key /\ s.content = r.content
    <2>1. [r EXCEPT !.by = u] \in rows
      BY DEF Merged
    <2>2. r \in Row
      BY DEF TypeInv, TypeOK
    <2> QED
      BY <2>1, <2>2 DEF Row
  <1> HIDE DEF kept, rows
  <1>2. Plain(rows) = Plain(kept \cup rows)
    BY <1>1 DEF Plain
  <1> QED
    BY <1>2 DEF kept, rows

LEMMA StepReaches ==
  ASSUME TypeInv, KeyInv, PlaceInv, NEW u \in User, Step(u), Reached(u), faults = 0, faults' = 0
  PROVE  Reached(u)'
  <1> USE DEF Goto, Done, past
  <1>1. /\ pc \in [User -> PC] /\ seen \in [User -> SUBSET Row] /\ batch \in [User -> SUBSET Row]
        /\ table \subseteq Row
    BY DEF TypeInv, TypeOK
  <1>2. ~Fault
    BY DEF Fault
  <1>a. CASE Read(u)
    <2>1. UNCHANGED <<table, op, before, key>> /\ table = before
          /\ \/ pc'[u] = "done" /\ op[u] = "read"
             \/ pc'[u] = "clear" /\ op[u] = "merge"
      <3>1. UNCHANGED <<table, op, before, key>> /\ pc[u] = "read"
        BY <1>a DEF Read, ReadGives
      <3>2. \/ op[u] = "read" /\ pc' = [pc EXCEPT ![u] = "done"]
            \/ op[u] = "merge" /\ pc' = [pc EXCEPT ![u] = "clear"]
        BY <1>a DEF Read, ReadGives
      <3> QED
        BY <1>1, <3>1, <3>2 DEF Reached
    <2>2. CASE op[u] = "read"
      BY <2>1, <2>2 DEF Reached, Promised
    <2>3. CASE op[u] = "merge"
      <3>1. PICK fetched \in {<<>>, <<Today>>} : batch'[u] = Merged(u, table, fetched)
        BY <1>1, <1>a, <2>3 DEF Read, ReadGives
      <3>2. KeepsTheRest(u)'
        BY <2>1, <3>1, MergeKeepsTheRest DEF KeepsTheRest
      <3> QED
        BY <2>1, <2>3, <3>2 DEF Reached
    <2> QED
      BY <2>1, <2>2, <2>3
  <1>b. CASE Get(u)
    BY <1>1, <1>b DEF Get, Reached
  <1>c. CASE Clear(u)
    <2>1. UNCHANGED <<op, batch, before>> /\ pc'[u] = "insert" /\ pc[u] = "clear" /\ table' = {}
      BY <1>1, <1>c DEF Clear
    <2> QED
      BY <2>1 DEF Reached, PlaceInv, KeepsTheRest
  <1>d. CASE Insert(u)
    <2>1. /\ UNCHANGED <<op, batch, before, key>> /\ pc'[u] = "done" /\ pc[u] = "insert"
          /\ table' = table \cup batch[u]
      BY <1>1, <1>d DEF Insert
    <2>2. CASE op[u] \in {"append", "create"}
      BY <2>1, <2>2 DEF Reached, Promised
    <2>3. CASE op[u] \in {"replace", "merge"}
      <3>1. table' = batch[u]
        BY <2>1, <2>3 DEF Reached
      <3> QED
        BY <2>1, <2>3, <3>1 DEF Reached, Promised, KeepsTheRest
    <2> QED
      BY <2>1, <2>2, <2>3 DEF PlaceInv
  <1>e. CASE InsertCollides(u)
    <2>1. table # {}
      BY <1>e DEF InsertCollides, Collides, KeyInv, Active
    <2>2. pc[u] = "insert" /\ pc'[u] = "failed" /\ UNCHANGED <<table, before>>
      BY <1>1, <1>e DEF InsertCollides
    <2> QED
      BY <2>1, <2>2 DEF Reached
  <1>f. CASE Update(u)
    <2> DEFINE found == {r \in table : r.key = key[u]}
    <2>1. /\ UNCHANGED <<op, before, key>> /\ pc[u] = "update" /\ op[u] = "update"
          /\ table = before /\ seen[u] = found /\ table' = UpdatedTable(u)
          /\ pc'[u] = IF found = {} THEN "missing" ELSE "done"
      BY <1>1, <1>f DEF Update, UpdatedTable, Reached, PlaceInv
    <2>2. found # {}
      BY <2>1 DEF KeyInv
    <2>3. Plain(table') = Promised(u, before)
      BY <2>1, UpdateKeepsPromise
    <2>4. Promised(u, before)' = Promised(u, before)
      BY <2>1 DEF Promised
    <2> QED
      BY <2>1, <2>2, <2>3, <2>4 DEF Reached
  <1>g. CASE Delete(u)
    <2> DEFINE found == {r \in table : r.key = key[u]}
    <2>1. /\ UNCHANGED <<op, before, key>> /\ pc[u] = "delete" /\ op[u] = "delete"
          /\ table = before /\ table' = table \ found
          /\ pc'[u] = IF found = {} THEN "missing" ELSE "done"
      BY <1>1, <1>g DEF Delete, Reached, PlaceInv
    <2>2. table' = {r \in before : r.key # key[u]}
      BY <2>1
    <2>3. Plain(table)' = Promised(u, before)'
      BY <2>1, <2>2 DEF Promised, Plain
    <2> QED
      BY <2>1, <2>3 DEF Reached
  <1>h. ~StatementFails(u) /\ ~ReadCut(u) /\ ~CommitLost(u)
    BY <1>2 DEF StatementFails, ReadCut, CommitLost
  <1> QED
    BY <1>a, <1>b, <1>c, <1>d, <1>e, <1>f, <1>g, <1>h DEF Step

LEMMA AloneStep ==
  ASSUME TypeInv, KeyInv, PlaceInv, AloneInv, [Next]_vars
  PROVE  AloneInv'
  <1>1. CASE UNCHANGED vars
    <2>1. UNCHANGED <<table, op, pc, key, seen, batch, last, before, overlapped, crashes, faults>>
      BY <1>1 DEF vars, local, past
    <2> QED
      BY <2>1 DEF AloneInv, OneAtATime, Reached, Smooth, Live, KeepsTheRest, Promised
  <1>2. ASSUME NEW p \in Process, Crash(p)
        PROVE  AloneInv'
    <2>1. crashes' # 0 /\ UNCHANGED <<last, overlapped>>
      BY <1>2 DEF Crash, past, TypeInv, TypeOK
    <2>2. \A v \in User : Live(v)' => Live(v)
      BY <1>2 DEF Crash, Live, TypeInv, TypeOK
    <2> QED
      BY <2>1, <2>2 DEF AloneInv, OneAtATime, Smooth
  <1>3. ASSUME NEW u \in User, Step(u)
        PROVE  AloneInv'
    <2>1. /\ UNCHANGED <<last, overlapped, crashes>> /\ Live(u)
          /\ pc'[u] \notin {"idle", "dead"} /\ \A v \in User \ {u} : pc'[v] = pc[v]
          /\ faults' = 0 => faults = 0
      <3> USE <1>3 DEF Goto, Done, past, Live, TypeInv, TypeOK
      <3>1. CASE Read(u) \/ ReadCut(u)
        BY <3>1 DEF Read, ReadCut, ReadGives, Fault
      <3>2. CASE Get(u) \/ Clear(u) \/ Insert(u) \/ InsertCollides(u)
        BY <3>2 DEF Get, Clear, Insert, InsertCollides
      <3>3. CASE Update(u) \/ Delete(u) \/ StatementFails(u) \/ CommitLost(u)
        BY <3>3 DEF Update, Delete, StatementFails, CommitLost, Fault
      <3> QED
        BY <3>1, <3>2, <3>3 DEF Step
    <2>2. OneAtATime'
      BY <2>1 DEF AloneInv, OneAtATime, Live, Smooth
    <2>3. ASSUME Smooth', last' # NoUser
          PROVE  Reached(last)'
      <3>1. Smooth /\ last = u /\ last' = u
        BY <2>1, <2>3 DEF AloneInv, OneAtATime, Smooth
      <3>2. Reached(u)'
        BY <1>3, <2>3, <3>1, StepReaches DEF AloneInv, Smooth
      <3> QED
        BY <3>1, <3>2
    <2> QED
      BY <2>2, <2>3 DEF AloneInv
  <1> QED
    BY <1>1, <1>2, <1>3, RequestAlone DEF Next

\* Of one request or node call at a time, each is atomic: its transactions leave
\* the table as it promises, or as it was.
THEOREM AloneIsAtomic == Spec => []AtomicWhenAlone
  <1>1. Init => AloneInv
    BY DEF Init, AloneInv, OneAtATime, Live
  <1>2. TypeInv /\ AloneInv => AtomicWhenAlone
    <2>1. ASSUME TypeInv, AloneInv, Smooth, last # NoUser, ~Live(last)
          PROVE  Plain(table) = IF pc[last] = "done" THEN Promised(last, before) ELSE Plain(before)
      <3>1. last \in User /\ pc[last] \in {"done", "missing", "failed"} /\ Reached(last)
        BY <2>1 DEF AloneInv, OneAtATime, Live, TypeInv, TypeOK, PC
      <3> QED
        BY <3>1 DEF Reached
    <2> QED
      BY <2>1 DEF AtomicWhenAlone
  <1> QED
    BY <1>1, <1>2, TypeInduction, KeyInduction, PlaceInduction, AloneStep, PTL DEF Spec
=============================================================================
