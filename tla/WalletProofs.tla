----------------------------- MODULE WalletProofs -----------------------------
(* Theorems about Wallet, for every number of processes, callers, demo       *)
(* entries and calls and every bound, overlapping requests included.         *)
EXTENDS Wallet, SequenceTheorems, TLAPS

-----------------------------------------------------------------------------
(* The tables.  A statement that has read the ledger holds a part of it, and *)
(* the ledger only grows, so what it then writes to another table is still   *)
(* of the ledger.                                                            *)

TablesInv ==
  /\ UsageHasEntry
  /\ TotalsAreOfEntries
  /\ \A c \in Caller : seen[c] \subseteq ledger
  /\ seen \in [Caller -> SUBSET Event]

LEMMA StatementSeen ==
  ASSUME seen \in [Caller -> SUBSET Event], NEW c \in Caller, seen' = [seen EXCEPT ![c] = {}]
  PROVE  /\ seen' \in [Caller -> SUBSET Event]
         /\ \A d \in Caller : seen'[d] \subseteq seen[d]
  OBVIOUS

LEMMA StepTables ==
  ASSUME TablesInv, ledger \subseteq Event, NEW c \in Caller, Step(c)
  PROVE  TablesInv'
  <1> USE DEF TablesInv, UsageHasEntry, TotalsAreOfEntries
  <1>1. CASE FoundSeeded(c) \/ FetchGuard(c) \/ AcquireGuard(c) \/ CheckAgain(c) \/ MarkSeeded(c)
    BY <1>1 DEF FoundSeeded, FetchGuard, AcquireGuard, CheckAgain, MarkSeeded, tables
  <1>2. CASE EnsureWallet(c)
    BY <1>2, StatementSeen DEF EnsureWallet, Statement
  <1>3. CASE FindMissing(c)
    BY <1>3 DEF FindMissing, tables
  <1>4. CASE Hydrate(c)
    BY <1>4, StatementSeen DEF Hydrate, Statement
  <1>5. CASE HydrateConflicts(c) \/ NoSuchEntry(c) \/ StatementFails(c)
    BY <1>5, StatementSeen DEF HydrateConflicts, NoSuchEntry, StatementFails, Raise, tables
  <1>6. CASE CountEntries(c) \/ Answer(c)
    BY <1>6 DEF CountEntries, Answer, tables
  <1>7. CASE InsertEntry(c)
    BY <1>7, StatementSeen DEF InsertEntry, Statement
  <1>8. CASE ScanLedger(c)
    BY <1>8 DEF ScanLedger, tables
  <1>9. CASE UpdateTotals(c)
    BY <1>9, StatementSeen DEF UpdateTotals, Statement
  <1>10. CASE InsertUsage(c)
    BY <1>10, StatementSeen DEF InsertUsage, Statement
  <1>11. CASE CommitLost(c)
    BY <1>11, StatementSeen DEF CommitLost, tables
  <1> QED
    BY <1>1, <1>2, <1>3, <1>4, <1>5, <1>6, <1>7, <1>8, <1>9, <1>10, <1>11 DEF Step

-----------------------------------------------------------------------------
(* Type correctness.                                                         *)

LEMMA SeedOrderType == SeedOrder \in Seq(Event)
  BY WalletAssumption, SeqMonotonic DEF Event

LEMMA AdvanceType ==
  ASSUME TypeOK, NEW c \in Caller, Advance(c)
  PROVE  /\ pc' \in [Caller -> PC] /\ todo' \in [Caller -> Seq(Event)]
         /\ \A d \in Caller : pc'[d] \in {"insert", "use"} => todo'[d] # <<>>
  <1> USE DEF TypeOK
  <1> DEFINE Taken == /\ todo' = [todo EXCEPT ![c] = Tail(todo[c])]
                      /\ Goto(c, AfterEntry(c))
  <1>1. CASE UNCHANGED todo
    <2>1. \E label \in PC : pc' = [pc EXCEPT ![c] = label] /\ (label \in {"insert", "use"} => todo[c] # <<>>)
      <3>1. CASE Taken
        <4>1. AfterEntry(c) \in {"insert", "done", "scan"}
          BY DEF AfterEntry
        <4>2. todo[c] # <<>> \/ AfterEntry(c) # "insert"
          BY <1>1, <3>1 DEF AfterEntry
        <4> QED
          BY <3>1, <4>1, <4>2 DEF Goto, PC, SeedPC
      <3>2. CASE ~Taken
        <4> HIDE DEF Taken
        <4> QED
          BY <3>2, <1>1 DEF Advance, Goto, PC, SeedPC
      <3> QED
        BY <3>1, <3>2
    <2> QED
      BY <1>1, <2>1
  <1>2. CASE Taken /\ todo[c] # <<>>
    <2>1. todo[c] \in Seq(Event) /\ Tail(todo[c]) \in Seq(Event)
      BY <1>2, HeadTailProperties
    <2>2. AfterEntry(c) \in {"insert", "done", "scan"}
      BY DEF AfterEntry
    <2>3. AfterEntry(c) = "insert" => Tail(todo[c]) # <<>>
      BY DEF AfterEntry
    <2>4. pc' \in [Caller -> PC] /\ pc' = [pc EXCEPT ![c] = AfterEntry(c)]
      BY <1>2, <2>2 DEF Goto, PC, SeedPC
    <2>5. todo' \in [Caller -> Seq(Event)]
      BY <1>2, <2>1
    <2> QED
      BY <1>2, <2>2, <2>3, <2>4, <2>5
  <1>3. UNCHANGED todo \/ (Taken /\ todo[c] # <<>>)
    BY DEF Advance
  <1> QED
    BY <1>1, <1>2, <1>3

LEMMA ReleaseType ==
  ASSUME TypeOK, NEW c \in Caller, Release(c)
  PROVE  owner' \in [Caller -> Caller \cup {NoCaller}] /\ mine' \in [Caller -> Caller \cup {NoCaller}]
  BY DEF TypeOK, Release

LEMMA StatementType ==
  ASSUME TypeOK, NEW c \in Caller, Statement(c),
         ledger' \subseteq Event, usage' \subseteq Event, wallet' \in {Absent} \cup SUBSET Event
  PROVE  TypeOK'
  <1>1. UNCHANGED <<seeded, guard, owner, job, mine, overlapped, crashes, faults>>
    BY DEF Statement, cache
  <1>2. seen' \in [Caller -> SUBSET Event]
    BY StatementSeen DEF Statement, TypeOK
  <1> QED
    BY <1>1, <1>2, AdvanceType DEF Statement, TypeOK

LEMMA RaiseType ==
  ASSUME TypeOK, NEW c \in Caller, Raise(c),
         overlapped' = overlapped, crashes' \in 0..MaxCrashes, faults' \in 0..MaxFaults
  PROVE  TypeOK'
  <1>1. seen' \in [Caller -> SUBSET Event]
    BY StatementSeen DEF Raise, TypeOK
  <1>2. UNCHANGED <<ledger, usage, wallet, seeded, guard, job>>
    BY DEF Raise, tables
  <1>3. pc' = [pc EXCEPT ![c] = "done"] /\ todo' = [todo EXCEPT ![c] = <<>>]
    BY DEF Raise, Goto
  <1>4. todo' \in [Caller -> Seq(Event)]
    BY <1>3, EmptySeq DEF TypeOK
  <1>5. pc' \in [Caller -> PC]
    BY <1>3 DEF TypeOK, PC
  <1>6. \A d \in Caller : pc'[d] \in {"insert", "use"} => todo'[d] # <<>>
    BY <1>3 DEF TypeOK
  <1> QED
    BY <1>1, <1>2, <1>4, <1>5, <1>6, ReleaseType DEF Raise, TypeOK

LEMMA GuardType ==
  ASSUME TypeOK, NEW c \in Caller,
         FoundSeeded(c) \/ FetchGuard(c) \/ AcquireGuard(c) \/ CheckAgain(c) \/ MarkSeeded(c)
  PROVE  TypeOK'
  <1> USE DEF TypeOK
  <1>1. ASSUME AfterSeeding(c)
        PROVE  /\ pc' \in [Caller -> PC]
               /\ UNCHANGED todo => \A d \in Caller : pc'[d] \in {"insert", "use"} => todo'[d] # <<>>
    BY <1>1 DEF AfterSeeding, Goto, PC, SeedPC
  <1>2. Home[c] \in Process
    BY WalletAssumption
  <1>3. CASE FoundSeeded(c)
    BY <1>1, <1>3 DEF FoundSeeded, tables, cache
  <1>4. CASE FetchGuard(c)
    <2>1. guard' \in [Process -> Caller \cup {NoCaller}]
      BY <1>2, <1>4 DEF FetchGuard
    <2>2. mine' \in [Caller -> Caller \cup {NoCaller}]
      BY <1>2, <1>4, <2>1 DEF FetchGuard
    <2>3. pc' = [pc EXCEPT ![c] = "acquire"]
      BY <1>4 DEF FetchGuard, Goto
    <2> QED
      BY <1>4, <2>1, <2>2, <2>3 DEF FetchGuard, tables, PC
  <1>5. CASE AcquireGuard(c)
    BY <1>5 DEF AcquireGuard, Goto, tables, PC
  <1>6. CASE CheckAgain(c)
    <2>1. CASE Release(c) /\ AfterSeeding(c)
      BY <1>1, <1>6, <2>1, ReleaseType DEF CheckAgain, tables
    <2>2. CASE Goto(c, "ensure") /\ UNCHANGED <<owner, mine>>
      BY <1>6, <2>2 DEF CheckAgain, Goto, tables, PC, SeedPC
    <2> QED
      BY <1>6, <2>1, <2>2 DEF CheckAgain
  <1>7. CASE MarkSeeded(c)
    <2>1. seeded' \in [Process -> BOOLEAN] /\ guard' \in [Process -> Caller \cup {NoCaller}]
      BY <1>2, <1>7 DEF MarkSeeded
    <2> QED
      BY <1>1, <1>7, <2>1, ReleaseType DEF MarkSeeded, tables
  <1> QED
    BY <1>3, <1>4, <1>5, <1>6, <1>7

LEMMA StatementsType ==
  ASSUME TypeOK, TablesInv, NEW c \in Caller,
         EnsureWallet(c) \/ Hydrate(c) \/ InsertEntry(c) \/ UpdateTotals(c) \/ InsertUsage(c)
  PROVE  TypeOK'
  <1>1. CASE EnsureWallet(c)
    BY <1>1, StatementType DEF EnsureWallet, TypeOK
  <1>2. CASE Hydrate(c)
    BY <1>2, StatementType DEF Hydrate, TypeOK
  <1>3. CASE InsertEntry(c)
    <2>1. Head(todo[c]) \in Event
      BY <1>3, HeadTailProperties DEF InsertEntry, TypeOK
    <2> QED
      BY <1>3, <2>1, StatementType DEF InsertEntry, TypeOK
  <1>4. CASE UpdateTotals(c)
    BY <1>4, StatementType DEF UpdateTotals, TypeOK
  <1>5. CASE InsertUsage(c)
    BY <1>5, StatementType DEF InsertUsage, TypeOK
  <1> QED
    BY <1>1, <1>2, <1>3, <1>4, <1>5

LEMMA StepType ==
  ASSUME TypeOK, TablesInv, NEW c \in Caller, Step(c)
  PROVE  TypeOK'
  <1>1. CASE HydrateConflicts(c) \/ NoSuchEntry(c) \/ StatementFails(c)
    <2>1. overlapped' = overlapped /\ crashes' \in 0..MaxCrashes /\ faults' \in 0..MaxFaults
      BY <1>1, WalletAssumption DEF HydrateConflicts, NoSuchEntry, StatementFails, TypeOK
    <2> QED
      BY <1>1, <2>1, RaiseType DEF HydrateConflicts, NoSuchEntry, StatementFails
  <1>2. CASE CommitLost(c)
    <2>1. faults' \in 0..MaxFaults
      BY <1>2, WalletAssumption DEF CommitLost, TypeOK
    <2>2. seen' \in [Caller -> SUBSET Event]
      BY <1>2, StatementSeen DEF CommitLost, TypeOK
    <2> QED
      BY <1>2, <2>1, <2>2, AdvanceType DEF CommitLost, TypeOK, tables, cache
  <1>3. CASE FindMissing(c) \/ ScanLedger(c)
    <2>1. seen' \in [Caller -> SUBSET Event]
      BY <1>3 DEF FindMissing, ScanLedger, TypeOK
    <2>2. \E label \in PC \ {"insert", "use"} : pc' = [pc EXCEPT ![c] = label]
      BY <1>3 DEF FindMissing, ScanLedger, Goto, PC, SeedPC
    <2>3. UNCHANGED <<tables, cache, job, mine, todo, overlapped, crashes, faults>>
      BY <1>3 DEF FindMissing, ScanLedger
    <2> QED
      BY <2>1, <2>2, <2>3 DEF TypeOK, tables, cache
  <1>4. CASE CountEntries(c)
    <2>1. \/ pc' = [pc EXCEPT ![c] = "mark"] /\ UNCHANGED todo
          \/ pc' = [pc EXCEPT ![c] = "insert"] /\ todo' = [todo EXCEPT ![c] = SeedOrder]
      BY <1>4 DEF CountEntries, Goto
    <2>2. /\ pc' \in [Caller -> PC] /\ todo' \in [Caller -> Seq(Event)]
          /\ \A d \in Caller : pc'[d] \in {"insert", "use"} => todo'[d] # <<>>
      <3>1. CASE pc' = [pc EXCEPT ![c] = "mark"] /\ UNCHANGED todo
        <4>1. pc' \in [Caller -> PC]
          BY <3>1 DEF TypeOK, PC, SeedPC
        <4> QED
          BY <3>1, <4>1 DEF TypeOK
      <3>2. CASE pc' = [pc EXCEPT ![c] = "insert"] /\ todo' = [todo EXCEPT ![c] = SeedOrder]
        <4>1. pc' \in [Caller -> PC]
          BY <3>2 DEF TypeOK, PC, SeedPC
        <4>2. SeedOrder \in Seq(Event) /\ SeedOrder # <<>>
          BY SeedOrderType, WalletAssumption
        <4>3. todo' \in [Caller -> Seq(Event)]
          BY <3>2, <4>2 DEF TypeOK
        <4> QED
          BY <3>2, <4>1, <4>2, <4>3 DEF TypeOK
      <3> QED
        BY <2>1, <3>1, <3>2
    <2> QED
      BY <1>4, <2>2 DEF CountEntries, TypeOK, tables, cache
  <1>5. CASE Answer(c)
    BY <1>5 DEF Answer, Goto, TypeOK, PC, tables, cache
  <1> QED
    BY <1>1, <1>2, <1>3, <1>4, <1>5, GuardType, StatementsType DEF Step

LEMMA CrashType ==
  ASSUME TypeOK, TablesInv, NEW p \in Process, Crash(p)
  PROVE  TypeOK' /\ TablesInv'
  <1>1. UNCHANGED <<ledger, usage, wallet, job, overlapped, faults>> /\ crashes' \in 0..MaxCrashes
    BY WalletAssumption DEF Crash, TypeOK, tables
  <1>2. /\ seeded' \in [Process -> BOOLEAN]
        /\ guard' \in [Process -> Caller \cup {NoCaller}]
        /\ mine' \in [Caller -> Caller \cup {NoCaller}]
        /\ owner' \in [Caller -> Caller \cup {NoCaller}]
    BY DEF Crash, TypeOK
  <1>3. seen' \in [Caller -> SUBSET Event] /\ \A c \in Caller : seen'[c] \subseteq ledger
    BY DEF Crash, TypeOK, TablesInv
  <1>4. todo' \in [Caller -> Seq(Event)]
    <2>1. todo' = [c \in Caller |-> IF Home[c] = p THEN <<>> ELSE todo[c]]
      BY DEF Crash
    <2> QED
      BY <2>1, EmptySeq DEF TypeOK
  <1>5. pc' \in [Caller -> PC]
    BY DEF Crash, TypeOK, PC
  <1>6. ASSUME NEW c \in Caller, pc'[c] \in {"insert", "use"}
        PROVE  todo'[c] # <<>>
    <2>1. Home[c] # p /\ pc'[c] = pc[c]
      BY <1>6 DEF Crash, Live
    <2> QED
      BY <1>6, <2>1 DEF Crash, TypeOK
  <1>7. TypeOK'
    BY <1>1, <1>2, <1>3, <1>4, <1>5, <1>6 DEF TypeOK
  <1> QED
    BY <1>1, <1>3, <1>7 DEF TablesInv, UsageHasEntry, TotalsAreOfEntries

-----------------------------------------------------------------------------
(* Both invariants together.                                                 *)

LEMMA InitTables == Init => TypeOK /\ TablesInv
  <1> SUFFICES ASSUME Init PROVE TypeOK /\ TablesInv
    OBVIOUS
  <1>1. todo \in [Caller -> Seq(Event)]
    BY EmptySeq DEF Init
  <1>2. seeded \in [Process -> BOOLEAN] /\ overlapped \in BOOLEAN
    BY DEF Init
  <1>3. /\ job \in [Caller -> {"none", "account", "monitor", "usage"}] /\ pc \in [Caller -> PC]
        /\ \A c \in Caller : pc[c] \in {"insert", "use"} => todo[c] # <<>>
    BY DEF Init, PC
  <1>4. TypeOK
    BY <1>1, <1>2, <1>3, WalletAssumption DEF Init, TypeOK
  <1> QED
    BY <1>4 DEF Init, TablesInv, UsageHasEntry, TotalsAreOfEntries

LEMMA NextTables == TypeOK /\ TablesInv /\ [Next]_vars => TypeOK' /\ TablesInv'
  <1> SUFFICES ASSUME TypeOK, TablesInv, [Next]_vars PROVE TypeOK' /\ TablesInv'
    OBVIOUS
  <1>1. CASE UNCHANGED vars
    BY <1>1 DEF vars, tables, cache, local, TypeOK, TablesInv, UsageHasEntry, TotalsAreOfEntries
  <1>2. ASSUME NEW c \in Caller, GetAccount(c)
        PROVE  TypeOK' /\ TablesInv'
    <2>1. /\ job' \in [Caller -> {"none", "account", "monitor", "usage"}]
          /\ pc' = [pc EXCEPT ![c] = "fetch"]
      BY <1>2 DEF GetAccount, Request, Goto, TypeOK
    <2>2. UNCHANGED <<ledger, usage, wallet, seeded, guard, owner, mine, todo, seen, crashes, faults>>
      BY <1>2 DEF GetAccount, tables, cache
    <2>3. overlapped' \in BOOLEAN
      BY <1>2 DEF GetAccount, Request, TypeOK
    <2> QED
      BY <2>1, <2>2, <2>3 DEF TypeOK, PC, TablesInv, UsageHasEntry, TotalsAreOfEntries
  <1>3. ASSUME NEW c \in Caller, RecordUsage(c)
        PROVE  TypeOK' /\ TablesInv'
    <2>1. PICK e \in Call : todo' = [todo EXCEPT ![c] = <<e>>]
      BY <1>3 DEF RecordUsage
    <2>2. <<e>> \in Seq(Event)
      BY DEF Event
    <2>3. todo' \in [Caller -> Seq(Event)]
      BY <2>1, <2>2 DEF TypeOK
    <2>4. /\ job' \in [Caller -> {"none", "account", "monitor", "usage"}]
          /\ pc' = [pc EXCEPT ![c] = "ensure"]
      BY <1>3 DEF RecordUsage, Request, Goto, TypeOK
    <2>7. overlapped' \in BOOLEAN
      BY <1>3 DEF RecordUsage, Request, TypeOK
    <2>5. UNCHANGED <<ledger, usage, wallet, seeded, guard, owner, mine, seen, crashes, faults>>
      BY <1>3 DEF RecordUsage, tables, cache
    <2>6. \A d \in Caller : pc'[d] \in {"insert", "use"} => todo'[d] # <<>>
      BY <2>1, <2>4 DEF TypeOK
    <2> QED
      BY <2>3, <2>4, <2>5, <2>6, <2>7 DEF TypeOK, PC, SeedPC, TablesInv, UsageHasEntry, TotalsAreOfEntries
  <1>4. ASSUME NEW c \in Caller, Step(c)
        PROVE  TypeOK' /\ TablesInv'
    BY <1>4, StepType, StepTables DEF TypeOK
  <1>5. ASSUME NEW p \in Process, Crash(p)
        PROVE  TypeOK' /\ TablesInv'
    BY <1>5, CrashType
  <1> QED
    BY <1>1, <1>2, <1>3, <1>4, <1>5 DEF Next

LEMMA TablesHold == Spec => [](TypeOK /\ TablesInv)
  BY InitTables, NextTables, PTL DEF Spec

\* Every record, thread and counter of the wallet keeps its type.
THEOREM TypeCorrect == Spec => []TypeOK
  BY TablesHold, PTL

\* However requests, billed calls, crashes, failed statements and lost commits
\* interleave, no usage event is without its ledger entry, and the totals of the
\* wallet count nothing the ledger does not have.
THEOREM BooksOnlyOfEntries == Spec => []BooksAreOfEntries
  <1>1. TablesInv => BooksAreOfEntries
    BY DEF TablesInv, BooksAreOfEntries
  <1> QED
    BY <1>1, TablesHold, PTL

-----------------------------------------------------------------------------
(* The seed guard.  A process may have gone through several locks of the      *)
(* tenant, since MarkSeeded and FetchGuard replace the one in the dictionary. *)
(* What makes them exclude is that a caller inside the guard found the cache  *)
(* unset after it had the lock, and that while the cache is unset every lock  *)
(* a caller has fetched is still the one in the dictionary.                   *)

Place(c) ==
  /\ Live(c) /\ job[c] = "usage" =>
       /\ pc[c] \in {"ensure", "insert", "scan", "update", "use"}
       /\ todo[c] # <<>> /\ mine[c] = NoCaller
  /\ Live(c) /\ job[c] # "usage" /\ mine[c] = NoCaller =>
       pc[c] \in {"fetch", "missing", "hydrate", "answer"}
  /\ mine[c] # NoCaller => pc[c] \in {"acquire", "check"} \cup SeedPC

HasLock(c) == mine[c] # NoCaller /\ pc[c] # "acquire" => owner[mine[c]] = c
LockIsCurrent(c) == mine[c] # NoCaller => seeded[Home[c]] \/ mine[c] = guard[Home[c]]
SeedsUnseeded(c) == Seeding(c) => ~seeded[Home[c]]

GuardInv == \A c \in Caller : Place(c) /\ HasLock(c) /\ LockIsCurrent(c) /\ SeedsUnseeded(c)

LEMMA GuardExcludes == GuardInv => SeedingIsExclusive
  <1> SUFFICES ASSUME GuardInv, NEW c \in Caller, NEW d \in Caller,
                      Seeding(c), Seeding(d), Home[c] = Home[d]
               PROVE  c = d
    BY DEF SeedingIsExclusive
  <1>1. mine[c] = guard[Home[c]] /\ mine[d] = guard[Home[c]]
    BY DEF GuardInv, LockIsCurrent, SeedsUnseeded, Seeding
  <1>2. owner[mine[c]] = c /\ owner[mine[d]] = d
    BY DEF GuardInv, HasLock, Seeding, SeedPC
  <1> QED
    BY <1>1, <1>2

\* A step of a caller that leaves the guard alone.
LEMMA LocalStep ==
  ASSUME TypeOK, GuardInv, NEW c \in Caller, UNCHANGED <<seeded, guard, owner, mine, job>>,
         NEW label, pc' = [pc EXCEPT ![c] = label],
         \A d \in Caller \ {c} : todo'[d] = todo[d],
         Place(c)', pc[c] # "acquire", Seeding(c)' => Seeding(c)
  PROVE  GuardInv'
  <1>1. pc'[c] = label /\ \A d \in Caller \ {c} : pc'[d] = pc[d]
    BY DEF TypeOK
  <1>2. \A d \in Caller : HasLock(d)' /\ LockIsCurrent(d)'
    BY <1>1 DEF GuardInv, HasLock, LockIsCurrent
  <1>3. \A d \in Caller \ {c} : Place(d)' /\ SeedsUnseeded(d)'
    BY <1>1 DEF GuardInv, Place, SeedsUnseeded, Seeding, Live
  <1>4. SeedsUnseeded(c)'
    BY DEF GuardInv, SeedsUnseeded
  <1> QED
    BY <1>2, <1>3, <1>4 DEF GuardInv

LEMMA AdvanceGuard ==
  ASSUME TypeOK, GuardInv, NEW c \in Caller, Advance(c),
         UNCHANGED <<seeded, guard, owner, mine, job>>
  PROVE  GuardInv'
  <1>1. Place(c) /\ pc[c] \in {"ensure", "hydrate", "insert", "update", "use"}
    BY DEF GuardInv, Advance
  <1>2. PICK label : pc' = [pc EXCEPT ![c] = label]
    BY DEF Advance, Goto
  <1>3. pc'[c] = label
    BY <1>2 DEF TypeOK
  <1>4. todo[c] \in Seq(Event)
    BY DEF TypeOK
  <1>5. \A d \in Caller \ {c} : todo'[d] = todo[d]
    BY DEF Advance, TypeOK
  <1>6. CASE job[c] = "usage"
    <2>1. /\ pc[c] \in {"ensure", "insert", "update", "use"}
          /\ todo[c] # <<>> /\ mine[c] = NoCaller
      BY <1>1, <1>6 DEF Place, Live
    <2>2. \/ todo'[c] = todo[c] /\ label \in {"insert", "scan", "use"}
          \/ todo'[c] = Tail(todo[c]) /\ label = AfterEntry(c)
      BY <1>2, <2>1, <1>3 DEF Advance, Goto, TypeOK
    <2>3. label = "done" \/ (label \in {"insert", "scan", "use"} /\ todo'[c] # <<>>)
      BY <2>1, <2>2, <1>6 DEF AfterEntry
    <2>4. Place(c)'
      BY <1>3, <1>6, <2>1, <2>3 DEF Place, Live
    <2> QED
      BY <1>1, <1>2, <1>5, <1>6, <2>4, LocalStep DEF Seeding
  <1>7. CASE job[c] # "usage" /\ mine[c] = NoCaller
    <2>1. pc[c] = "hydrate" /\ label = "answer"
      BY <1>1, <1>2, <1>3, <1>7 DEF Advance, Place, Live, Seeding, Goto, TypeOK
    <2>2. Place(c)'
      BY <1>3, <1>7, <2>1 DEF Place, Live
    <2> QED
      BY <1>1, <1>2, <1>5, <1>7, <2>2, LocalStep DEF Seeding
  <1>8. CASE job[c] # "usage" /\ mine[c] # NoCaller
    <2>1. Seeding(c)
      BY <1>1, <1>8 DEF Seeding, SeedPC
    <2>2. AfterEntry(c) \in {"insert", "scan"}
      BY <1>8 DEF AfterEntry
    <2>3. label \in SeedPC
      BY <1>2, <1>3, <2>1, <2>2 DEF Advance, Goto, TypeOK, SeedPC
    <2>4. Place(c)'
      BY <1>3, <1>8, <2>3 DEF Place
    <2> QED
      BY <1>1, <1>2, <1>5, <2>1, <2>4, LocalStep
  <1> QED
    BY <1>6, <1>7, <1>8

LEMMA RaiseGuard ==
  ASSUME TypeOK, GuardInv, NEW c \in Caller, Raise(c)
  PROVE  GuardInv'
  <1>1. /\ pc' = [pc EXCEPT ![c] = "done"] /\ mine' = [mine EXCEPT ![c] = NoCaller]
        /\ owner' = [g \in Caller |-> IF owner[g] = c THEN NoCaller ELSE owner[g]]
        /\ \A d \in Caller \ {c} : todo'[d] = todo[d]
        /\ UNCHANGED <<seeded, guard, job>>
    BY DEF Raise, Release, Goto, TypeOK
  <1>2. Place(c)' /\ HasLock(c)' /\ LockIsCurrent(c)' /\ SeedsUnseeded(c)'
    BY <1>1 DEF TypeOK, Place, HasLock, LockIsCurrent, SeedsUnseeded, Seeding, Live
  <1>3. ASSUME NEW d \in Caller \ {c}
        PROVE  Place(d)' /\ HasLock(d)' /\ LockIsCurrent(d)' /\ SeedsUnseeded(d)'
    <2>1. pc'[d] = pc[d] /\ mine'[d] = mine[d]
      BY <1>1 DEF TypeOK
    <2>2. Place(d)' /\ LockIsCurrent(d)' /\ SeedsUnseeded(d)'
      BY <1>1, <2>1 DEF GuardInv, Place, LockIsCurrent, SeedsUnseeded, Seeding, Live
    <2>3. HasLock(d)'
      BY <1>1, <2>1 DEF GuardInv, HasLock, TypeOK
    <2> QED
      BY <2>2, <2>3
  <1> QED
    BY <1>2, <1>3 DEF GuardInv

\* AcquireGuard, CheckAgain and MarkSeeded, and what they share with FetchGuard.
LEMMA OthersStay ==
  ASSUME TypeOK, GuardInv, NEW c \in Caller, NEW d \in Caller \ {c}, NEW label,
         pc' = [pc EXCEPT ![c] = label], mine'[d] = mine[d], UNCHANGED <<job, todo>>
  PROVE  Place(d)' /\ pc'[d] = pc[d] /\ (Seeding(d)' <=> Seeding(d))
  BY DEF TypeOK, GuardInv, Place, Live, Seeding

LEMMA FetchGuardStep ==
  ASSUME TypeOK, GuardInv, NEW c \in Caller, FetchGuard(c)
  PROVE  GuardInv'
  <1>1. /\ pc[c] = "fetch" /\ ~seeded[Home[c]]
        /\ guard' = [guard EXCEPT ![Home[c]] = IF guard[Home[c]] = NoCaller THEN c ELSE guard[Home[c]]]
        /\ mine' = [mine EXCEPT ![c] = guard'[Home[c]]]
        /\ pc' = [pc EXCEPT ![c] = "acquire"]
        /\ UNCHANGED <<seeded, owner, job, todo>>
    BY DEF FetchGuard, Goto
  <1>2. mine'[c] = guard'[Home[c]] /\ guard'[Home[c]] \in Caller
    BY <1>1, WalletAssumption DEF TypeOK
  <1>3. job[c] # "usage"
    BY <1>1 DEF GuardInv, Place, Live
  <1>4. Place(c)' /\ HasLock(c)' /\ LockIsCurrent(c)' /\ SeedsUnseeded(c)'
    BY <1>1, <1>2, <1>3, WalletAssumption
    DEF TypeOK, Place, HasLock, LockIsCurrent, SeedsUnseeded, Seeding, Live, SeedPC
  <1>5. ASSUME NEW d \in Caller \ {c}
        PROVE  Place(d)' /\ HasLock(d)' /\ LockIsCurrent(d)' /\ SeedsUnseeded(d)'
    <2>1. mine'[d] = mine[d]
      BY <1>1 DEF TypeOK
    <2>2. Place(d)' /\ pc'[d] = pc[d] /\ (Seeding(d)' <=> Seeding(d))
      BY <1>1, <2>1, OthersStay
    <2>3. HasLock(d)' /\ SeedsUnseeded(d)'
      BY <1>1, <2>1, <2>2 DEF GuardInv, HasLock, SeedsUnseeded
    <2>4. mine[d] # NoCaller /\ ~seeded[Home[d]] => guard'[Home[d]] = guard[Home[d]]
      BY <1>1, WalletAssumption DEF GuardInv, LockIsCurrent, TypeOK
    <2>5. LockIsCurrent(d)'
      BY <1>1, <2>1, <2>4 DEF GuardInv, LockIsCurrent
    <2> QED
      BY <2>2, <2>3, <2>5
  <1> QED
    BY <1>4, <1>5 DEF GuardInv

LEMMA AcquireGuardStep ==
  ASSUME TypeOK, GuardInv, NEW c \in Caller, AcquireGuard(c)
  PROVE  GuardInv'
  <1>1. /\ pc[c] = "acquire" /\ owner[mine[c]] = NoCaller
        /\ owner' = [owner EXCEPT ![mine[c]] = c]
        /\ pc' = [pc EXCEPT ![c] = "check"]
        /\ UNCHANGED <<seeded, guard, job, mine, todo>>
    BY DEF AcquireGuard, Goto
  <1>2. mine[c] \in Caller /\ job[c] # "usage"
    BY <1>1 DEF GuardInv, Place, Live, TypeOK
  <1>3. Place(c)' /\ HasLock(c)' /\ LockIsCurrent(c)' /\ SeedsUnseeded(c)'
    BY <1>1, <1>2 DEF GuardInv, TypeOK, Place, HasLock, LockIsCurrent, SeedsUnseeded, Seeding, Live, SeedPC
  <1>4. ASSUME NEW d \in Caller \ {c}
        PROVE  Place(d)' /\ HasLock(d)' /\ LockIsCurrent(d)' /\ SeedsUnseeded(d)'
    <2>1. Place(d)' /\ pc'[d] = pc[d] /\ (Seeding(d)' <=> Seeding(d))
      BY <1>1, OthersStay
    <2>2. LockIsCurrent(d)' /\ SeedsUnseeded(d)'
      BY <1>1, <2>1 DEF GuardInv, LockIsCurrent, SeedsUnseeded
    <2>3. mine[d] # NoCaller /\ pc[d] # "acquire" => owner[mine[d]] = d /\ mine[d] # mine[c]
      BY <1>1, WalletAssumption DEF GuardInv, HasLock
    <2>4. HasLock(d)'
      BY <1>1, <2>1, <2>3 DEF HasLock, TypeOK
    <2> QED
      BY <2>1, <2>2, <2>4
  <1> QED
    BY <1>3, <1>4 DEF GuardInv

LEMMA LeaveGuard ==
  ASSUME TypeOK, GuardInv, NEW c \in Caller, Release(c), AfterSeeding(c),
         job[c] # "usage", UNCHANGED <<job, todo>>,
         \/ UNCHANGED <<seeded, guard>>
         \/ /\ Seeding(c)
            /\ seeded' = [seeded EXCEPT ![Home[c]] = TRUE]
            /\ guard' = [guard EXCEPT ![Home[c]] = NoCaller]
  PROVE  GuardInv'
  <1>1. /\ mine' = [mine EXCEPT ![c] = NoCaller]
        /\ owner' = [g \in Caller |-> IF owner[g] = c THEN NoCaller ELSE owner[g]]
    BY DEF Release
  <1>2. PICK label \in {"missing", "answer"} : pc' = [pc EXCEPT ![c] = label]
    BY DEF AfterSeeding, Goto
  <1>3. Place(c)' /\ HasLock(c)' /\ LockIsCurrent(c)' /\ SeedsUnseeded(c)'
    BY <1>1, <1>2 DEF TypeOK, Place, HasLock, LockIsCurrent, SeedsUnseeded, Seeding, Live
  <1>4. ASSUME NEW d \in Caller \ {c}
        PROVE  Place(d)' /\ HasLock(d)' /\ LockIsCurrent(d)' /\ SeedsUnseeded(d)'
    <2>1. mine'[d] = mine[d]
      BY <1>1 DEF TypeOK
    <2>2. Place(d)' /\ pc'[d] = pc[d] /\ (Seeding(d)' <=> Seeding(d))
      BY <1>2, <2>1, OthersStay
    <2>3. HasLock(d)'
      BY <1>1, <2>1, <2>2 DEF GuardInv, HasLock, TypeOK
    <2>4. LockIsCurrent(d)'
      BY <2>1, WalletAssumption DEF GuardInv, LockIsCurrent, TypeOK
    <2>5. Seeding(d) => \/ UNCHANGED <<seeded, guard>>
                        \/ Home[c] # Home[d]
      BY GuardExcludes DEF SeedingIsExclusive
    <2>6. SeedsUnseeded(d)'
      BY <2>2, <2>5, WalletAssumption DEF GuardInv, SeedsUnseeded, TypeOK
    <2> QED
      BY <2>2, <2>3, <2>4, <2>6
  <1> QED
    BY <1>3, <1>4 DEF GuardInv

LEMMA CrashGuard ==
  ASSUME TypeOK, GuardInv, NEW p \in Process, Crash(p)
  PROVE  GuardInv'
  <1> SUFFICES ASSUME NEW c \in Caller
               PROVE  Place(c)' /\ HasLock(c)' /\ LockIsCurrent(c)' /\ SeedsUnseeded(c)'
    BY DEF GuardInv
  <1>1. /\ seeded' = [seeded EXCEPT ![p] = FALSE] /\ guard' = [guard EXCEPT ![p] = NoCaller]
        /\ pc'[c] = IF Home[c] = p /\ Live(c) THEN "done" ELSE pc[c]
        /\ mine'[c] = IF Home[c] = p THEN NoCaller ELSE mine[c]
        /\ todo'[c] = IF Home[c] = p THEN <<>> ELSE todo[c]
        /\ owner' = [g \in Caller |-> IF owner[g] # NoCaller /\ Home[owner[g]] = p THEN NoCaller ELSE owner[g]]
        /\ UNCHANGED job
    BY DEF Crash
  <1>2. CASE Home[c] = p
    BY <1>1, <1>2 DEF Place, HasLock, LockIsCurrent, SeedsUnseeded, Seeding, Live
  <1>3. CASE Home[c] # p
    <2>1. pc'[c] = pc[c] /\ mine'[c] = mine[c] /\ todo'[c] = todo[c]
      BY <1>1, <1>3
    <2>2. seeded'[Home[c]] = seeded[Home[c]] /\ guard'[Home[c]] = guard[Home[c]]
      BY <1>1, <1>3, WalletAssumption DEF TypeOK
    <2>3. Place(c)' /\ LockIsCurrent(c)' /\ SeedsUnseeded(c)'
      BY <1>1, <2>1, <2>2 DEF GuardInv, Place, LockIsCurrent, SeedsUnseeded, Seeding, Live
    <2>4. HasLock(c)'
      BY <1>1, <1>3, <2>1, WalletAssumption DEF GuardInv, HasLock, TypeOK
    <2> QED
      BY <2>3, <2>4
  <1> QED
    BY <1>2, <1>3

LEMMA StepGuard ==
  ASSUME TypeOK, GuardInv, NEW c \in Caller, Step(c)
  PROVE  GuardInv'
  <1>1. Place(c) /\ Home[c] \in Process
    BY WalletAssumption DEF GuardInv
  <1>2. CASE FoundSeeded(c)
    <2>1. PICK label \in {"missing", "answer"} : pc' = [pc EXCEPT ![c] = label]
      BY <1>2 DEF FoundSeeded, AfterSeeding, Goto
    <2>2. pc[c] = "fetch" /\ UNCHANGED <<seeded, guard, owner, mine, job, todo>>
      BY <1>2 DEF FoundSeeded, cache
    <2>3. mine[c] = NoCaller /\ job[c] # "usage"
      BY <1>1, <2>2 DEF Place, Live, SeedPC
    <2>4. Place(c)' /\ ~Seeding(c)'
      BY <2>1, <2>2, <2>3 DEF Place, Live, Seeding, TypeOK
    <2> QED
      BY <2>1, <2>2, <2>4, LocalStep
  <1>3. CASE FetchGuard(c) \/ AcquireGuard(c)
    BY <1>3, FetchGuardStep, AcquireGuardStep
  <1>4. CASE CheckAgain(c)
    <2>1. pc[c] = "check" /\ job[c] # "usage" /\ mine[c] # NoCaller
      BY <1>1, <1>4 DEF CheckAgain, Place, Live
    <2>2. CASE Release(c) /\ AfterSeeding(c)
      BY <1>4, <2>1, <2>2, LeaveGuard DEF CheckAgain
    <2>3. CASE ~seeded[Home[c]] /\ Goto(c, "ensure") /\ UNCHANGED <<owner, mine>>
      <3>1. pc' = [pc EXCEPT ![c] = "ensure"] /\ UNCHANGED <<seeded, guard, owner, mine, job, todo>>
        BY <1>4, <2>3 DEF CheckAgain, Goto
      <3>2. ASSUME NEW d \in Caller
            PROVE  Place(d)' /\ HasLock(d)' /\ LockIsCurrent(d)' /\ SeedsUnseeded(d)'
        <4>1. CASE d = c
          BY <2>1, <2>3, <3>1, <4>1
          DEF GuardInv, TypeOK, Place, HasLock, LockIsCurrent, SeedsUnseeded, Live, SeedPC
        <4>2. CASE d # c
          <5>1. Place(d)' /\ pc'[d] = pc[d] /\ (Seeding(d)' <=> Seeding(d))
            BY <3>1, <4>2, OthersStay
          <5> QED
            BY <3>1, <5>1 DEF GuardInv, HasLock, LockIsCurrent, SeedsUnseeded
        <4> QED
          BY <4>1, <4>2
      <3> QED
        BY <3>2 DEF GuardInv
    <2> QED
      BY <1>4, <2>2, <2>3 DEF CheckAgain
  <1>5. CASE MarkSeeded(c)
    <2>1. job[c] # "usage" /\ Seeding(c)
      BY <1>1, <1>5 DEF MarkSeeded, Place, Live, Seeding, SeedPC
    <2> QED
      BY <1>5, <2>1, LeaveGuard DEF MarkSeeded
  <1>6. CASE EnsureWallet(c) \/ Hydrate(c) \/ InsertEntry(c) \/ UpdateTotals(c) \/ InsertUsage(c) \/ CommitLost(c)
    <2>1. Advance(c) /\ UNCHANGED <<seeded, guard, owner, mine, job>>
      BY <1>6 DEF EnsureWallet, Hydrate, InsertEntry, UpdateTotals, InsertUsage, CommitLost, Statement, cache
    <2> QED
      BY <2>1, AdvanceGuard
  <1>7. CASE HydrateConflicts(c) \/ NoSuchEntry(c) \/ StatementFails(c)
    BY <1>7, RaiseGuard DEF HydrateConflicts, NoSuchEntry, StatementFails
  <1>8. CASE FindMissing(c) \/ ScanLedger(c) \/ Answer(c)
    <2>1. PICK label : /\ pc' = [pc EXCEPT ![c] = label]
                       /\ <<pc[c], label>> \in {<<"missing", "hydrate">>, <<"scan", "update">>, <<"answer", "done">>}
      BY <1>8 DEF FindMissing, ScanLedger, Answer, Goto
    <2>2. UNCHANGED <<seeded, guard, owner, mine, job, todo>>
      BY <1>8 DEF FindMissing, ScanLedger, Answer, cache
    <2>3. pc'[c] = label
      BY <2>1 DEF TypeOK
    <2>4. Place(c)' /\ (Seeding(c)' => Seeding(c))
      BY <1>1, <2>1, <2>2, <2>3 DEF Place, Live, Seeding, SeedPC
    <2> QED
      BY <2>1, <2>2, <2>4, LocalStep
  <1>9. CASE CountEntries(c)
    <2>1. PICK label \in {"mark", "insert"} : pc' = [pc EXCEPT ![c] = label]
      BY <1>9 DEF CountEntries, Goto
    <2>2. /\ UNCHANGED <<seeded, guard, owner, mine, job>> /\ pc[c] = "count"
          /\ \A d \in Caller \ {c} : todo'[d] = todo[d]
      BY <1>9 DEF CountEntries, cache, TypeOK
    <2>3. job[c] # "usage" /\ mine[c] # NoCaller
      BY <1>1, <2>2 DEF Place, Live
    <2>4. Place(c)' /\ Seeding(c)
      BY <2>1, <2>2, <2>3 DEF Place, Live, Seeding, SeedPC, TypeOK
    <2> QED
      BY <2>1, <2>2, <2>4, LocalStep
  <1> QED
    BY <1>2, <1>3, <1>4, <1>5, <1>6, <1>7, <1>8, <1>9 DEF Step

LEMMA InitGuard == Init => GuardInv
  BY DEF Init, GuardInv, Place, HasLock, LockIsCurrent, SeedsUnseeded, Seeding, Live

LEMMA NextGuard == TypeOK /\ GuardInv /\ [Next]_vars => GuardInv'
  <1> SUFFICES ASSUME TypeOK, GuardInv, [Next]_vars PROVE GuardInv'
    OBVIOUS
  <1>1. CASE UNCHANGED vars
    BY <1>1 DEF vars, tables, cache, local, GuardInv, Place, HasLock, LockIsCurrent, SeedsUnseeded, Seeding, Live
  <1>2. ASSUME NEW c \in Caller, GetAccount(c) \/ RecordUsage(c)
        PROVE  GuardInv'
    <2>1. pc[c] = "idle" /\ mine[c] = NoCaller
      BY <1>2 DEF GetAccount, RecordUsage, Request, GuardInv, Place, SeedPC
    <2>2. /\ UNCHANGED <<seeded, guard, owner, mine>>
          /\ \A d \in Caller \ {c} : pc'[d] = pc[d] /\ todo'[d] = todo[d] /\ job'[d] = job[d]
      BY <1>2 DEF GetAccount, RecordUsage, Request, Goto, cache, TypeOK
    <2>3. \/ pc'[c] = "fetch" /\ job'[c] \in {"account", "monitor"}
          \/ pc'[c] = "ensure" /\ job'[c] = "usage" /\ todo'[c] # <<>>
      <3>1. CASE GetAccount(c)
        BY <3>1 DEF GetAccount, Request, Goto, TypeOK
      <3>2. CASE RecordUsage(c)
        <4>1. PICK e \in Call : todo' = [todo EXCEPT ![c] = <<e>>]
          BY <3>2 DEF RecordUsage
        <4>2. todo'[c] # <<>>
          BY <4>1 DEF TypeOK
        <4> QED
          BY <3>2, <4>2 DEF RecordUsage, Request, Goto, TypeOK
      <3> QED
        BY <1>2, <3>1, <3>2
    <2>4. Place(c)' /\ HasLock(c)' /\ LockIsCurrent(c)' /\ SeedsUnseeded(c)'
      BY <2>1, <2>2, <2>3 DEF Place, HasLock, LockIsCurrent, SeedsUnseeded, Seeding, Live
    <2>5. \A d \in Caller \ {c} : Place(d)' /\ HasLock(d)' /\ LockIsCurrent(d)' /\ SeedsUnseeded(d)'
      BY <2>2 DEF GuardInv, Place, HasLock, LockIsCurrent, SeedsUnseeded, Seeding, Live
    <2> QED
      BY <2>4, <2>5 DEF GuardInv
  <1>3. ASSUME NEW c \in Caller, Step(c)
        PROVE  GuardInv'
    BY <1>3, StepGuard
  <1>4. ASSUME NEW p \in Process, Crash(p)
        PROVE  GuardInv'
    BY <1>4, CrashGuard
  <1> QED
    BY <1>1, <1>2, <1>3, <1>4 DEF Next

\* In each process one caller at a time is past the second look at the cache and
\* at work on the demo data, although _WALLET_SEED_GUARDS forgets the lock while
\* others hold or wait for it, and whatever raises or crashes.
THEOREM OneSeederPerProcess == Spec => []SeedingIsExclusive
  <1>1. Init => TypeOK /\ GuardInv
    BY InitTables, InitGuard
  <1>2. [](TypeOK /\ TablesInv) /\ GuardInv /\ [][Next]_vars => []GuardInv
    BY NextGuard, PTL
  <1> QED
    BY <1>1, <1>2, TablesHold, GuardExcludes, PTL DEF Spec

-----------------------------------------------------------------------------
(* The books catch up.  What a caller has yet to do is in its todo: an entry *)
(* without a usage event is at the head of one, and a demo entry that is not *)
(* in the ledger yet further down.  When requests come one at a time, nobody *)
(* writes the ledger between the sum over it and the totals.                 *)

Entries(s) == {s[k] : k \in DOMAIN s}

CreatingPC == {"insert", "scan", "update", "use"}

Creating(c) == pc[c] \in CreatingPC /\ todo[c] # <<>>
Created(c) == Creating(c) /\ pc[c] # "insert"
SeedsNow(c) == Creating(c) /\ job[c] # "usage"
Syncing(c) == pc[c] \in {"scan", "update"}

Plan(c) ==
  /\ Entries(todo[c]) \subseteq (IF job[c] = "usage" THEN Call ELSE Seed)
  /\ (job[c] # "usage" /\ pc[c] \notin CreatingPC => todo[c] = <<>>)
  /\ (pc[c] = "idle" => job[c] = "none")

PlanInv == \A c \in Caller : Plan(c)

AloneInv ==
  ~overlapped =>
    /\ \A c, d \in Caller : Live(c) /\ Live(d) => c = d
    /\ \A c \in Caller : SeedsNow(c) => ledger \subseteq Seed

CatchInv ==
  Smooth =>
    /\ \A c \in Caller : Created(c) => Head(todo[c]) \in ledger
    /\ \A e \in ledger \ usage : e \in Recharge \/ \E c \in Caller : Created(c) /\ Head(todo[c]) = e
    /\ \A c \in Caller : SeedsNow(c) => Seed \subseteq ledger \cup Entries(todo[c])
    /\ Seed \cap ledger = {} \/ Seed \subseteq ledger \/ \E c \in Caller : SeedsNow(c)

TotalsInv ==
  Smooth /\ ~overlapped =>
    /\ \A c \in Caller : pc[c] = "update" => seen[c] = ledger
    /\ \/ \E c \in Caller : Syncing(c)
       \/ IF wallet = Absent THEN ledger = {} ELSE wallet = ledger

BooksInv == PlanInv /\ AloneInv /\ CatchInv /\ TotalsInv

LEMMA HeadAndTail ==
  ASSUME NEW S, NEW s \in Seq(S), s # <<>>
  PROVE  /\ Entries(s) = {Head(s)} \cup Entries(Tail(s))
         /\ Head(s) \in Entries(s)
         /\ Tail(s) \in Seq(S)
  <1>1. Len(s) \in Nat /\ Len(s) >= 1 /\ DOMAIN s = 1..Len(s)
    OBVIOUS
  <1>2. Tail(s) \in Seq(S) /\ Len(Tail(s)) = Len(s) - 1 /\ DOMAIN Tail(s) = 1..(Len(s) - 1)
    BY <1>1, HeadTailProperties
  <1>3. \A k \in 1..(Len(s) - 1) : Tail(s)[k] = s[k + 1]
    BY <1>1, HeadTailProperties
  <1>4. Head(s) = s[1] /\ 1 \in DOMAIN s
    BY <1>1
  <1>5. Entries(Tail(s)) \subseteq Entries(s)
    BY <1>1, <1>2, <1>3 DEF Entries
  <1>6. ASSUME NEW k \in DOMAIN s, k # 1
        PROVE  s[k] \in Entries(Tail(s))
    <2>1. k - 1 \in 1..(Len(s) - 1) /\ Tail(s)[k - 1] = s[k]
      BY <1>1, <1>3, <1>6
    <2> QED
      BY <1>2, <2>1 DEF Entries
  <1> QED
    BY <1>2, <1>4, <1>5, <1>6 DEF Entries

\* The kinds of step a caller takes.

Mine(c) ==
  \A d \in Caller \ {c} :
    pc'[d] = pc[d] /\ todo'[d] = todo[d] /\ job'[d] = job[d] /\ seen'[d] = seen[d]

Drops(c) ==
  todo[c] # <<>> /\ todo'[c] = Tail(todo[c]) /\ pc'[c] = AfterEntry(c)

Aside(c) ==
  /\ ledger' = ledger /\ usage \subseteq usage'
  /\ wallet' = wallet \/ (wallet = Absent /\ wallet' = {})
  /\ pc[c] \notin CreatingPC /\ ~SeedsNow(c)' /\ pc'[c] \notin {"scan", "update", "use"}

Begins(c) ==
  /\ pc[c] = "count" /\ ledger = {} /\ UNCHANGED <<ledger, usage, wallet>>
  /\ pc'[c] = "insert" /\ todo'[c] = SeedOrder /\ job[c] # "usage"

Inserts(c) ==
  /\ pc[c] = "insert" /\ todo[c] # <<>> /\ UNCHANGED <<usage, wallet>>
  /\ ledger' = ledger \cup {Head(todo[c])}
  /\ pc'[c] = "scan" /\ todo'[c] = todo[c]

Scans(c) ==
  /\ pc[c] = "scan" /\ UNCHANGED <<ledger, usage, wallet>>
  /\ pc'[c] = "update" /\ todo'[c] = todo[c] /\ seen'[c] = ledger

Updates(c) ==
  /\ pc[c] = "update" /\ UNCHANGED <<ledger, usage>> /\ wallet' = seen[c]
  /\ \/ todo[c] = <<>> /\ pc'[c] = "mark" /\ todo'[c] = todo[c]
     \/ todo[c] # <<>> /\ pc'[c] = "use" /\ todo'[c] = todo[c]
     \/ Head(todo[c]) \in Recharge /\ Drops(c)

Uses(c) ==
  /\ pc[c] = "use" /\ UNCHANGED <<ledger, wallet>>
  /\ usage' = usage \cup {Head(todo[c])} /\ Drops(c)

Misses(c) ==
  /\ pc[c] = "use" /\ Head(todo[c]) \notin ledger /\ ledger' = ledger
  /\ pc'[c] = "done"

Falters(c) ==
  /\ ~Smooth' /\ ledger' = ledger
  /\ SeedsNow(c)' => SeedsNow(c)

Kinds(c) ==
  \/ Aside(c) \/ Begins(c) \/ Inserts(c) \/ Scans(c) \/ Updates(c) \/ Uses(c)
  \/ Misses(c) \/ Falters(c)

LEMMA AdvanceMine ==
  ASSUME TypeOK, NEW c \in Caller, Advance(c)
  PROVE  /\ pc[c] \in {"ensure", "hydrate", "insert", "update", "use"}
         /\ \A d \in Caller \ {c} : pc'[d] = pc[d] /\ todo'[d] = todo[d]
         /\ \/ pc[c] = "ensure" /\ todo'[c] = todo[c] /\ pc'[c] = IF todo[c] # <<>> THEN "insert" ELSE "missing"
            \/ pc[c] = "hydrate" /\ todo'[c] = todo[c] /\ pc'[c] \in {"count", "answer"}
            \/ pc[c] = "insert" /\ todo'[c] = todo[c] /\ pc'[c] = "scan"
            \/ pc[c] = "update" /\ todo[c] = <<>> /\ todo'[c] = todo[c] /\ pc'[c] = "mark"
            \/ pc[c] = "update" /\ todo[c] # <<>> /\ todo'[c] = todo[c] /\ pc'[c] = "use"
            \/ /\ pc[c] \in {"update", "use"} /\ Drops(c)
               /\ pc[c] = "update" => Head(todo[c]) \in Recharge
  BY DEF TypeOK, Advance, Goto, Drops

LEMMA AfterEntryIs ==
  ASSUME NEW c \in Caller
  PROVE  /\ AfterEntry(c) \in {"insert", "done", "scan"}
         /\ AfterEntry(c) = "insert" <=> Tail(todo[c]) # <<>>
         /\ Tail(todo[c]) = <<>> => AfterEntry(c) = IF job[c] = "usage" THEN "done" ELSE "scan"
  BY DEF AfterEntry

LEMMA RaiseMine ==
  ASSUME TypeOK, NEW c \in Caller, Raise(c)
  PROVE  /\ UNCHANGED <<ledger, usage, wallet, job>> /\ Mine(c)
         /\ pc'[c] = "done" /\ todo'[c] = <<>>
  BY DEF TypeOK, Raise, Goto, Mine, tables

LEMMA StepMine ==
  ASSUME TypeOK, NEW c \in Caller, Step(c)
  PROVE  /\ Mine(c) /\ UNCHANGED <<job, overlapped>> /\ pc[c] \notin {"idle", "done"}
         /\ crashes' = crashes /\ faults' >= faults
  <1> USE DEF Mine, TypeOK
  <1>0. faults \in Nat /\ crashes \in Nat
    BY WalletAssumption
  <1>1. CASE FoundSeeded(c) \/ FetchGuard(c) \/ AcquireGuard(c) \/ CheckAgain(c) \/ MarkSeeded(c)
    BY <1>0, <1>1 DEF FoundSeeded, FetchGuard, AcquireGuard, CheckAgain, MarkSeeded, AfterSeeding, Goto
  <1>2. CASE EnsureWallet(c) \/ Hydrate(c) \/ InsertEntry(c) \/ UpdateTotals(c) \/ InsertUsage(c)
    <2>1. Statement(c)
      BY <1>2 DEF EnsureWallet, Hydrate, InsertEntry, UpdateTotals, InsertUsage
    <2> QED
      <3>1. /\ Advance(c) /\ seen' = [seen EXCEPT ![c] = {}]
            /\ UNCHANGED <<job, overlapped, crashes, faults>>
        BY <2>1 DEF Statement
      <3>2. /\ pc[c] \in {"ensure", "hydrate", "insert", "update", "use"}
            /\ \A d \in Caller \ {c} : pc'[d] = pc[d] /\ todo'[d] = todo[d]
        BY <3>1, AdvanceMine
      <3> QED
        BY <1>0, <3>1, <3>2
  <1>3. CASE HydrateConflicts(c) \/ NoSuchEntry(c)
    BY <1>0, <1>3, RaiseMine DEF HydrateConflicts, NoSuchEntry
  <1>4. CASE FindMissing(c) \/ CountEntries(c) \/ ScanLedger(c) \/ Answer(c)
    BY <1>0, <1>4 DEF FindMissing, CountEntries, ScanLedger, Answer, Goto
  <1>5. CASE StatementFails(c)
    BY <1>0, <1>5, RaiseMine DEF StatementFails, AtStatement, SeedPC
  <1>6. CASE CommitLost(c)
    BY <1>0, <1>6, AdvanceMine DEF CommitLost
  <1> QED
    BY <1>1, <1>2, <1>3, <1>4, <1>5, <1>6 DEF Step

LEMMA AdvancePlan ==
  ASSUME TypeOK, PlanInv, NEW c \in Caller, Advance(c), job' = job
  PROVE  Plan(c)'
  <1>1. Plan(c) /\ todo[c] \in Seq(Event)
    BY DEF PlanInv, TypeOK
  <1>2. CASE todo'[c] = todo[c] /\ pc[c] \in {"ensure", "hydrate", "insert", "update", "use"}
             /\ pc'[c] # "idle" /\ (pc'[c] \in CreatingPC \/ todo[c] = <<>> \/ job[c] = "usage")
    BY <1>1, <1>2 DEF Plan
  <1>3. CASE Drops(c)
    <2>1. Entries(todo'[c]) \subseteq Entries(todo[c])
      BY <1>1, <1>3, HeadAndTail DEF Drops
    <2>2. pc'[c] # "idle" /\ (pc'[c] \in CreatingPC \/ todo'[c] = <<>>)
      BY <1>3, AfterEntryIs DEF Drops, CreatingPC
    <2> QED
      BY <1>1, <2>1, <2>2 DEF Plan
  <1>4. CASE ~Drops(c)
    <2>1. pc[c] \in {"ensure", "hydrate"} => todo[c] = <<>> \/ job[c] = "usage"
      BY <1>1 DEF Plan, CreatingPC
    <2>2. /\ todo'[c] = todo[c] /\ pc[c] \in {"ensure", "hydrate", "insert", "update", "use"}
          /\ pc'[c] # "idle" /\ (pc'[c] \in CreatingPC \/ todo[c] = <<>> \/ job[c] = "usage")
      BY <1>4, <2>1, AdvanceMine DEF CreatingPC
    <2> QED
      BY <1>2, <2>2
  <1> QED
    BY <1>3, <1>4

LEMMA SeedOrderHasAll == Entries(SeedOrder) = Seed
  BY DEF Entries, Seed

LEMMA StepPlan ==
  ASSUME TypeOK, GuardInv, PlanInv, NEW c \in Caller, Step(c)
  PROVE  PlanInv'
  <1>1. Mine(c) /\ job' = job
    BY StepMine
  <1>2. \A d \in Caller \ {c} : Plan(d)'
    BY <1>1 DEF PlanInv, Plan, Mine
  <1>3. Plan(c) /\ Entries(<<>>) = {}
    BY DEF PlanInv, Entries
  <1>4. Plan(c)'
    <2>1. CASE Advance(c)
      BY <1>1, <2>1, AdvancePlan
    <2>2. CASE Raise(c)
      <3>1. pc'[c] = "done" /\ todo'[c] = <<>>
        BY <2>2, RaiseMine
      <3> QED
        BY <1>3, <3>1 DEF Plan
    <2>3. ASSUME todo' = todo, pc[c] \notin CreatingPC, pc'[c] # "idle"
          PROVE  Plan(c)'
      BY <1>1, <1>3, <2>3 DEF Plan
    <2>4. CASE FoundSeeded(c) \/ FetchGuard(c) \/ AcquireGuard(c) \/ CheckAgain(c) \/ MarkSeeded(c)
      <3>1. todo' = todo /\ pc[c] \notin CreatingPC /\ pc'[c] # "idle"
        BY <2>4
        DEF FoundSeeded, FetchGuard, AcquireGuard, CheckAgain, MarkSeeded, AfterSeeding, Goto, CreatingPC, TypeOK
      <3> QED
        BY <2>3, <3>1
    <2>5. CASE FindMissing(c) \/ Answer(c)
      BY <2>3, <2>5 DEF FindMissing, Answer, Goto, CreatingPC, TypeOK
    <2>6. CASE ScanLedger(c)
      BY <1>1, <1>3, <2>6 DEF ScanLedger, Goto, CreatingPC, TypeOK, Plan
    <2>7. CASE CountEntries(c)
      <3>1. pc[c] = "count" /\ job[c] # "usage"
        BY <2>7 DEF CountEntries, GuardInv, Place, Live
      <3>2. CASE Goto(c, "mark") /\ UNCHANGED todo
        BY <2>3, <3>1, <3>2 DEF Goto, CreatingPC, TypeOK
      <3>3. CASE Goto(c, "insert") /\ todo' = [todo EXCEPT ![c] = SeedOrder]
        <4>1. pc'[c] = "insert" /\ todo'[c] = SeedOrder
          BY <3>3 DEF Goto, TypeOK
        <4> QED
          BY <1>1, <3>1, <4>1, SeedOrderHasAll DEF Plan, CreatingPC
      <3> QED
        BY <2>7, <3>2, <3>3 DEF CountEntries
    <2>8. CASE EnsureWallet(c) \/ Hydrate(c) \/ InsertEntry(c) \/ UpdateTotals(c) \/ InsertUsage(c) \/ CommitLost(c)
      <3>1. Advance(c)
        BY <2>8 DEF EnsureWallet, Hydrate, InsertEntry, UpdateTotals, InsertUsage, CommitLost, Statement
      <3> QED
        BY <2>1, <3>1
    <2>9. CASE HydrateConflicts(c) \/ NoSuchEntry(c) \/ StatementFails(c)
      BY <2>2, <2>9 DEF HydrateConflicts, NoSuchEntry, StatementFails
    <2> QED
      BY <2>4, <2>5, <2>6, <2>7, <2>8, <2>9 DEF Step
  <1> QED
    BY <1>2, <1>4 DEF PlanInv

LEMMA StatementKinds ==
  ASSUME TypeOK, PlanInv, NEW c \in Caller,
         EnsureWallet(c) \/ Hydrate(c) \/ InsertEntry(c) \/ UpdateTotals(c) \/ InsertUsage(c)
  PROVE  Kinds(c)
  <1>1. Advance(c) /\ Plan(c) /\ UNCHANGED <<job>>
    BY DEF EnsureWallet, Hydrate, InsertEntry, UpdateTotals, InsertUsage, Statement, PlanInv
  <1>2. ASSUME pc[c] = "ensure" \/ pc[c] = "hydrate"
        PROVE  pc[c] \notin CreatingPC /\ ~SeedsNow(c)' /\ pc'[c] \notin {"scan", "update", "use"}
    <2>1. todo[c] = <<>> \/ job[c] = "usage"
      BY <1>1, <1>2 DEF Plan, CreatingPC
    <2>2. /\ pc'[c] \in {"insert", "missing", "count", "answer"} /\ todo'[c] = todo[c]
          /\ pc'[c] = "insert" => todo[c] # <<>>
      BY <1>1, <1>2, AdvanceMine
    <2> QED
      BY <1>1, <1>2, <2>1, <2>2 DEF CreatingPC, SeedsNow, Creating
  <1>3. CASE EnsureWallet(c)
    <2>1. Aside(c)
      BY <1>2, <1>3 DEF EnsureWallet, Aside
    <2> QED
      BY <2>1 DEF Kinds
  <1>4. CASE Hydrate(c)
    <2>1. Aside(c)
      BY <1>2, <1>4 DEF Hydrate, Aside
    <2> QED
      BY <2>1 DEF Kinds
  <1>5. CASE InsertEntry(c)
    <2>1. pc[c] = "insert" /\ todo[c] # <<>>
      BY <1>5 DEF InsertEntry, TypeOK
    <2>2. pc'[c] = "scan" /\ todo'[c] = todo[c]
      BY <1>1, <2>1, AdvanceMine
    <2>3. Inserts(c)
      BY <1>5, <2>1, <2>2 DEF InsertEntry, Inserts
    <2> QED
      BY <2>3 DEF Kinds
  <1>6. CASE UpdateTotals(c)
    <2>1. pc[c] = "update"
      BY <1>6 DEF UpdateTotals
    <2>2. \/ todo[c] = <<>> /\ pc'[c] = "mark" /\ todo'[c] = todo[c]
          \/ todo[c] # <<>> /\ pc'[c] = "use" /\ todo'[c] = todo[c]
          \/ Head(todo[c]) \in Recharge /\ Drops(c)
      BY <1>1, <2>1, AdvanceMine
    <2>3. Updates(c)
      BY <1>6, <2>1, <2>2 DEF UpdateTotals, Updates
    <2> QED
      BY <2>3 DEF Kinds
  <1>7. CASE InsertUsage(c)
    <2>1. pc[c] = "use"
      BY <1>7 DEF InsertUsage
    <2>2. Drops(c)
      BY <1>1, <2>1, AdvanceMine
    <2>3. Uses(c)
      BY <1>7, <2>1, <2>2 DEF InsertUsage, Uses
    <2> QED
      BY <2>3 DEF Kinds
  <1> QED
    BY <1>3, <1>4, <1>5, <1>6, <1>7

LEMMA StepKinds ==
  ASSUME TypeOK, GuardInv, PlanInv, NEW c \in Caller, Step(c)
  PROVE  Kinds(c)
  <1>1. Plan(c) /\ job' = job
    BY StepMine DEF PlanInv
  <1>2. ASSUME UNCHANGED <<ledger, usage, wallet>>, pc[c] \notin CreatingPC, pc'[c] \notin CreatingPC
        PROVE  Kinds(c)
    <2>1. Aside(c)
      BY <1>2 DEF Aside, SeedsNow, Creating, CreatingPC
    <2> QED
      BY <2>1 DEF Kinds
  <1>3. CASE FoundSeeded(c) \/ FetchGuard(c) \/ AcquireGuard(c) \/ CheckAgain(c) \/ MarkSeeded(c)
    <2>1. UNCHANGED <<ledger, usage, wallet>> /\ pc[c] \notin CreatingPC /\ pc'[c] \notin CreatingPC
      BY <1>3
      DEF FoundSeeded, FetchGuard, AcquireGuard, CheckAgain, MarkSeeded, AfterSeeding, Goto, CreatingPC,
          TypeOK, tables
    <2> QED
      BY <1>2, <2>1
  <1>4. CASE FindMissing(c) \/ Answer(c)
    BY <1>2, <1>4 DEF FindMissing, Answer, Goto, CreatingPC, TypeOK, tables
  <1>5. CASE ScanLedger(c)
    <2>1. Scans(c)
      BY <1>5 DEF ScanLedger, Scans, Goto, TypeOK, tables
    <2> QED
      BY <2>1 DEF Kinds
  <1>6. CASE CountEntries(c)
    <2>1. pc[c] = "count" /\ job[c] # "usage" /\ UNCHANGED <<ledger, usage, wallet>>
      BY <1>6 DEF CountEntries, GuardInv, Place, Live, tables
    <2>2. CASE Goto(c, "mark") /\ UNCHANGED todo
      BY <1>2, <2>1, <2>2 DEF Goto, CreatingPC, TypeOK
    <2>3. CASE ledger = {} /\ Goto(c, "insert") /\ todo' = [todo EXCEPT ![c] = SeedOrder]
      <3>1. Begins(c)
        BY <2>1, <2>3 DEF Begins, Goto, TypeOK
      <3> QED
        BY <3>1 DEF Kinds
    <2> QED
      BY <1>6, <2>2, <2>3 DEF CountEntries
  <1>7. CASE HydrateConflicts(c)
    <2>1. UNCHANGED <<ledger, usage, wallet>> /\ pc[c] \notin CreatingPC /\ pc'[c] \notin CreatingPC
      BY <1>7, RaiseMine DEF HydrateConflicts, CreatingPC
    <2> QED
      BY <1>2, <2>1
  <1>8. CASE NoSuchEntry(c)
    <2>1. Misses(c)
      BY <1>8, RaiseMine DEF NoSuchEntry, Misses
    <2> QED
      BY <2>1 DEF Kinds
  <1>9. ASSUME faults' = faults + 1 PROVE ~Smooth'
    BY <1>9 DEF Smooth, TypeOK
  <1>10. CASE StatementFails(c)
    <2>1. Falters(c)
      BY <1>9, <1>10, RaiseMine DEF StatementFails, Falters, SeedsNow, Creating, CreatingPC
    <2> QED
      BY <2>1 DEF Kinds
  <1>11. CASE CommitLost(c)
    <2>1. Advance(c) /\ ledger' = ledger /\ ~Smooth' /\ pc[c] \in {"hydrate", "insert", "update", "use"}
      BY <1>9, <1>11 DEF CommitLost, tables
    <2>2. pc'[c] \in CreatingPC => pc[c] \in CreatingPC
      BY <2>1, AdvanceMine DEF CreatingPC
    <2>3. todo'[c] # <<>> => todo[c] # <<>>
      BY <2>1, AdvanceMine DEF Drops
    <2>4. Falters(c)
      BY <1>1, <2>1, <2>2, <2>3 DEF Falters, SeedsNow, Creating
    <2> QED
      BY <2>4 DEF Kinds
  <1> QED
    BY <1>3, <1>4, <1>5, <1>6, <1>7, <1>8, <1>10, <1>11, StatementKinds DEF Step

LEMMA AloneStep ==
  ASSUME TypeOK, PlanInv, AloneInv, NEW c \in Caller, Mine(c), Kinds(c),
         UNCHANGED <<job, overlapped>>, Live(c)
  PROVE  AloneInv'
  <1> SUFFICES ASSUME ~overlapped
               PROVE  /\ \A a, b \in Caller : Live(a)' /\ Live(b)' => a = b
                      /\ \A d \in Caller : SeedsNow(d)' => ledger' \subseteq Seed
    BY DEF AloneInv
  <1>1. /\ \A a, b \in Caller : Live(a) /\ Live(b) => a = b
        /\ \A d \in Caller : SeedsNow(d) => ledger \subseteq Seed
    BY DEF AloneInv
  <1>2. \A d \in Caller : Live(d)' => Live(d)
    BY DEF Mine, Live
  <1>3. ASSUME NEW d \in Caller, SeedsNow(d)' PROVE ledger' \subseteq Seed
    <2>1. CASE d # c
      <3>1. Live(d)
        BY <1>3, <2>1 DEF Mine, SeedsNow, Creating, CreatingPC, Live
      <3> QED
        BY <1>1, <2>1, <3>1
    <2>2. CASE d = c
      <3>1. CASE Aside(c)
        BY <1>3, <2>2, <3>1 DEF Aside
      <3>2. CASE Begins(c)
        BY <3>2 DEF Begins
      <3>3. CASE Inserts(c)
        <4>1. SeedsNow(c)
          BY <1>3, <2>2, <3>3 DEF Inserts, SeedsNow, Creating, CreatingPC
        <4>2. Head(todo[c]) \in Entries(todo[c]) /\ Entries(todo[c]) \subseteq Seed
          BY <4>1, HeadAndTail DEF PlanInv, Plan, SeedsNow, Creating, TypeOK
        <4> QED
          BY <1>1, <3>3, <4>1, <4>2 DEF Inserts
      <3>4. CASE Scans(c) \/ Updates(c) \/ Uses(c)
        <4>1. pc[c] \in CreatingPC /\ ledger' = ledger
          BY <3>4 DEF Scans, Updates, Uses, CreatingPC
        <4>2. todo'[c] # <<>> => todo[c] # <<>>
          BY <3>4 DEF Scans, Updates, Uses, Drops
        <4>3. SeedsNow(c)
          BY <1>3, <2>2, <4>1, <4>2 DEF SeedsNow, Creating
        <4> QED
          BY <1>1, <4>1, <4>3
      <3>5. CASE Misses(c)
        BY <1>3, <2>2, <3>5 DEF Misses, SeedsNow, Creating, CreatingPC
      <3>6. CASE Falters(c)
        BY <1>1, <1>3, <2>2, <3>6 DEF Falters
      <3> QED
        BY <3>1, <3>2, <3>3, <3>4, <3>5, <3>6 DEF Kinds
    <2> QED
      BY <2>1, <2>2
  <1> QED
    BY <1>1, <1>2, <1>3

\* What the entry at the head of a list was is behind it.
LEMMA DropsOne ==
  ASSUME TypeOK, NEW c \in Caller, Drops(c), job' = job
  PROVE  /\ Entries(todo[c]) = {Head(todo[c])} \cup Entries(todo'[c])
         /\ ~Created(c)' /\ pc'[c] # "update"
         /\ SeedsNow(c)' <=> (todo'[c] # <<>> /\ job[c] # "usage")
  <1>1. Entries(todo[c]) = {Head(todo[c])} \cup Entries(todo'[c])
    BY HeadAndTail DEF Drops, TypeOK
  <1>2. /\ pc'[c] \in {"insert", "done", "scan"}
        /\ pc'[c] = "insert" <=> todo'[c] # <<>>
    BY AfterEntryIs DEF Drops
  <1> QED
    BY <1>1, <1>2 DEF Created, SeedsNow, Creating, CreatingPC

LEMMA CatchStep ==
  ASSUME TypeOK, PlanInv, CatchInv, NEW c \in Caller, Mine(c), Kinds(c),
         job' = job, Smooth' => Smooth
  PROVE  CatchInv'
  <1> SUFFICES ASSUME Smooth'
               PROVE  /\ \A d \in Caller : Created(d)' => Head(todo'[d]) \in ledger'
                      /\ \A e \in ledger' \ usage' :
                           e \in Recharge \/ \E d \in Caller : Created(d)' /\ Head(todo'[d]) = e
                      /\ \A d \in Caller : SeedsNow(d)' => Seed \subseteq ledger' \cup Entries(todo'[d])
                      /\ Seed \cap ledger' = {} \/ Seed \subseteq ledger' \/ \E d \in Caller : SeedsNow(d)'
    BY DEF CatchInv
  <1>1. /\ \A d \in Caller : Created(d) => Head(todo[d]) \in ledger
        /\ \A e \in ledger \ usage : e \in Recharge \/ \E d \in Caller : Created(d) /\ Head(todo[d]) = e
        /\ \A d \in Caller : SeedsNow(d) => Seed \subseteq ledger \cup Entries(todo[d])
        /\ Seed \cap ledger = {} \/ Seed \subseteq ledger \/ \E d \in Caller : SeedsNow(d)
    BY DEF CatchInv
  <1>2. \A d \in Caller \ {c} : /\ Created(d)' <=> Created(d)
                                /\ SeedsNow(d)' <=> SeedsNow(d)
                                /\ todo'[d] = todo[d]
    BY DEF Mine, Created, SeedsNow, Creating
  <1>3. ~Misses(c) /\ ~Falters(c)
    BY <1>1 DEF Misses, Falters, Created, Creating, CreatingPC, TypeOK
  <1>4. CASE Aside(c) \/ Begins(c)
    <2>1. ~Created(c) /\ ~SeedsNow(c) /\ ~Created(c)' /\ ledger' = ledger /\ usage \subseteq usage'
      BY <1>4 DEF Aside, Begins, Created, SeedsNow, Creating, CreatingPC
    <2>2. SeedsNow(c)' => Entries(todo'[c]) = Seed
      BY <1>4, SeedOrderHasAll DEF Aside, Begins
    <2>3. \A d \in Caller : SeedsNow(d) => SeedsNow(d)'
      BY <1>2, <2>1
    <2>4. \A d \in Caller : Created(d) <=> Created(d)'
      BY <1>2, <2>1
    <2>5. \A d \in Caller : Created(d) => todo'[d] = todo[d]
      BY <1>2, <2>1
    <2>6. \A e \in ledger' \ usage' : e \in Recharge \/ \E d \in Caller : Created(d)' /\ Head(todo'[d]) = e
      BY <1>1, <2>1, <2>4, <2>5
    <2>7. \A d \in Caller : SeedsNow(d)' => Seed \subseteq ledger' \cup Entries(todo'[d])
      BY <1>1, <1>2, <2>1, <2>2
    <2> QED
      BY <1>1, <2>1, <2>3, <2>4, <2>5, <2>6, <2>7
  <1>5. CASE Inserts(c)
    <2>1. /\ ledger' = ledger \cup {Head(todo[c])} /\ usage' = usage /\ todo'[c] = todo[c]
          /\ Created(c)' /\ ~Created(c) /\ (SeedsNow(c)' <=> SeedsNow(c))
      BY <1>5 DEF Inserts, Created, SeedsNow, Creating, CreatingPC
    <2>2. Head(todo[c]) \in Seed => SeedsNow(c)
      <3>1. todo[c] # <<>> /\ pc[c] \in CreatingPC
        BY <1>5 DEF Inserts, CreatingPC
      <3>2. Head(todo[c]) \in Entries(todo[c])
        BY <3>1, HeadAndTail DEF TypeOK
      <3>3. job[c] = "usage" => Head(todo[c]) \notin Seed
        BY <3>2, WalletAssumption DEF PlanInv, Plan
      <3> QED
        BY <3>1, <3>3 DEF SeedsNow, Creating
    <2>3. \A d \in Caller : todo'[d] = todo[d] /\ (SeedsNow(d)' <=> SeedsNow(d)) /\ (Created(d) => Created(d)')
      BY <1>2, <2>1
    <2>4. \A d \in Caller : Created(d)' => d = c \/ Created(d)
      BY <1>2
    <2>5. \A e \in ledger' \ usage' : e \in Recharge \/ \E d \in Caller : Created(d)' /\ Head(todo'[d]) = e
      BY <1>1, <2>1, <2>3
    <2> QED
      BY <1>1, <2>1, <2>2, <2>3, <2>4, <2>5
  <1>6. CASE Scans(c) \/ (Updates(c) /\ ~Drops(c))
    <2>1. /\ ledger' = ledger /\ usage' = usage /\ todo'[c] = todo[c]
          /\ (Created(c)' <=> Created(c)) /\ (SeedsNow(c)' <=> SeedsNow(c))
      BY <1>6 DEF Scans, Updates, Created, SeedsNow, Creating, CreatingPC
    <2>2. \A d \in Caller : /\ Created(d)' <=> Created(d)
                            /\ SeedsNow(d)' <=> SeedsNow(d)
                            /\ todo'[d] = todo[d]
      BY <1>2, <2>1
    <2> QED
      BY <1>1, <2>1, <2>2
  <1>7. CASE Drops(c) /\ (Updates(c) \/ Uses(c))
    <2>1. /\ ledger' = ledger /\ usage \subseteq usage' /\ Created(c)
          /\ Head(todo[c]) \in Recharge \cup usage'
      <3>1. todo[c] # <<>> /\ pc'[c] # "use"
        BY <1>7, AfterEntryIs DEF Drops
      <3> QED
        BY <1>7, <3>1 DEF Updates, Uses, Created, Creating, CreatingPC
    <2>2. /\ Entries(todo[c]) = {Head(todo[c])} \cup Entries(todo'[c]) /\ ~Created(c)'
          /\ SeedsNow(c)' <=> (todo'[c] # <<>> /\ job[c] # "usage")
      BY <1>7, DropsOne
    <2>3. SeedsNow(c) <=> job[c] # "usage"
      BY <2>1 DEF Created, SeedsNow
    <2>4. SeedsNow(c) => Seed \subseteq ledger' \cup Entries(todo'[c])
      BY <1>1, <2>1, <2>2
    <2>5. \A d \in Caller : Created(d)' => Head(todo'[d]) \in ledger'
      BY <1>1, <1>2, <2>1, <2>2
    <2>6. \A e \in ledger' \ usage' : e \in Recharge \/ \E d \in Caller : Created(d)' /\ Head(todo'[d]) = e
      BY <1>1, <1>2, <2>1, <2>2
    <2>7. \A d \in Caller : SeedsNow(d)' => Seed \subseteq ledger' \cup Entries(todo'[d])
      BY <1>1, <1>2, <2>1, <2>2, <2>3, <2>4
    <2>8. SeedsNow(c) => SeedsNow(c)' \/ Seed \subseteq ledger'
      <3>1. Entries(<<>>) = {}
        BY DEF Entries
      <3> QED
        BY <2>2, <2>3, <2>4, <3>1
    <2> QED
      BY <1>1, <1>2, <2>1, <2>5, <2>6, <2>7, <2>8
  <1> QED
    BY <1>3, <1>4, <1>5, <1>6, <1>7 DEF Kinds, Uses

LEMMA TotalsStep ==
  ASSUME TypeOK, AloneInv, CatchInv, TotalsInv, NEW c \in Caller, Mine(c), Kinds(c), Live(c),
         overlapped' = overlapped, job' = job, Smooth' => Smooth
  PROVE  TotalsInv'
  <1> SUFFICES ASSUME Smooth', ~overlapped
               PROVE  /\ \A d \in Caller : pc'[d] = "update" => seen'[d] = ledger'
                      /\ \/ \E d \in Caller : Syncing(d)'
                         \/ IF wallet' = Absent THEN ledger' = {} ELSE wallet' = ledger'
    BY DEF TotalsInv
  <1>1. /\ \A d \in Caller : pc[d] = "update" => seen[d] = ledger
        /\ \/ \E d \in Caller : Syncing(d)
           \/ IF wallet = Absent THEN ledger = {} ELSE wallet = ledger
    BY DEF TotalsInv
  <1>2. \A d \in Caller : Live(d) => d = c
    BY DEF AloneInv
  <1>3. \A d \in Caller \ {c} : pc'[d] = pc[d] /\ ~Syncing(d) /\ pc'[d] # "update"
    BY <1>2 DEF Mine, Syncing, Live
  <1>4. ~Misses(c) /\ ~Falters(c)
    BY DEF CatchInv, Misses, Falters, Created, Creating, CreatingPC, TypeOK
  <1>5. \/ Syncing(c)
        \/ IF wallet = Absent THEN ledger = {} ELSE wallet = ledger
    BY <1>1, <1>3
  <1>6. CASE Aside(c)
    <2>1. ~Syncing(c) /\ pc'[c] # "update" /\ ledger' = ledger
      BY <1>6 DEF Aside, Syncing, CreatingPC
    <2>2. {} # Absent
      BY WalletAssumption
    <2>3. IF wallet' = Absent THEN ledger' = {} ELSE wallet' = ledger'
      BY <1>5, <1>6, <2>1, <2>2 DEF Aside
    <2> QED
      BY <1>3, <2>1, <2>3
  <1>7. CASE Begins(c)
    BY <1>3, <1>5, <1>7 DEF Begins, Syncing
  <1>8. CASE Inserts(c) \/ Scans(c)
    BY <1>3, <1>8 DEF Inserts, Scans, Syncing
  <1>9. CASE Updates(c)
    <2>1. wallet' = ledger' /\ wallet' # Absent
      BY <1>1, <1>9, WalletAssumption DEF Updates, TypeOK
    <2>2. pc'[c] # "update"
      BY <1>9, DropsOne DEF Updates
    <2> QED
      BY <1>3, <2>1, <2>2
  <1>10. CASE Uses(c)
    <2>1. pc'[c] # "update"
      BY <1>10, DropsOne DEF Uses
    <2> QED
      BY <1>3, <1>5, <1>10, <2>1 DEF Uses, Syncing
  <1> QED
    BY <1>4, <1>6, <1>7, <1>8, <1>9, <1>10 DEF Kinds

LEMMA RequestBooks ==
  ASSUME TypeOK, BooksInv, NEW c \in Caller, GetAccount(c) \/ RecordUsage(c)
  PROVE  BooksInv'
  <1> USE DEF BooksInv
  <1>1. /\ UNCHANGED <<ledger, usage, wallet, seen, crashes, faults>>
        /\ pc[c] = "idle" /\ overlapped' = (overlapped \/ \E d \in Caller : Live(d))
        /\ \A d \in Caller \ {c} : pc'[d] = pc[d] /\ todo'[d] = todo[d] /\ job'[d] = job[d]
    BY DEF GetAccount, RecordUsage, Request, Goto, TypeOK, tables
  <1>2. /\ pc'[c] \in {"fetch", "ensure"}
        /\ Entries(todo'[c]) \subseteq (IF job'[c] = "usage" THEN Call ELSE Seed)
        /\ job'[c] # "usage" => todo'[c] = <<>>
    <2>1. todo[c] = <<>> /\ Entries(<<>>) = {}
      BY <1>1 DEF PlanInv, Plan, CreatingPC, Entries
    <2>2. CASE GetAccount(c)
      BY <2>1, <2>2 DEF GetAccount, Request, Goto, TypeOK
    <2>3. CASE RecordUsage(c)
      <3>1. PICK e \in Call : todo' = [todo EXCEPT ![c] = <<e>>]
        BY <2>3 DEF RecordUsage
      <3>2. todo'[c] = <<e>> /\ Entries(<<e>>) = {e}
        BY <3>1 DEF TypeOK, Entries
      <3> QED
        BY <2>3, <3>2 DEF RecordUsage, Request, Goto, TypeOK
    <2> QED
      BY <2>2, <2>3
  <1>3. PlanInv'
    <2>1. Plan(c)'
      BY <1>2 DEF Plan
    <2>2. \A d \in Caller \ {c} : Plan(d)'
      BY <1>1 DEF PlanInv, Plan
    <2> QED
      BY <2>1, <2>2 DEF PlanInv
  <1>4. ~Creating(c) /\ ~Creating(c)' /\ ~Syncing(c) /\ ~Syncing(c)'
    BY <1>1, <1>2 DEF Creating, CreatingPC, Syncing
  <1>5. \A d \in Caller : /\ Created(d)' <=> Created(d)
                          /\ SeedsNow(d)' <=> SeedsNow(d)
                          /\ Syncing(d)' <=> Syncing(d)
                          /\ pc'[d] = "update" => pc[d] = "update"
    <2>1. ASSUME NEW d \in Caller \ {c}
          PROVE  /\ Created(d)' <=> Created(d)
                 /\ SeedsNow(d)' <=> SeedsNow(d)
                 /\ Syncing(d)' <=> Syncing(d)
                 /\ pc'[d] = "update" => pc[d] = "update"
      BY <1>1 DEF Created, SeedsNow, Creating, Syncing
    <2>2. /\ ~Created(c) /\ ~Created(c)' /\ ~SeedsNow(c) /\ ~SeedsNow(c)' /\ pc'[c] # "update"
      BY <1>2, <1>4 DEF Created, SeedsNow
    <2> QED
      BY <1>4, <2>1, <2>2
  <1>6. \A d \in Caller : Created(d) \/ SeedsNow(d) => todo'[d] = todo[d]
    BY <1>1, <1>4 DEF Created, SeedsNow
  <1>7. Smooth' <=> Smooth
    BY <1>1 DEF Smooth
  <1>8. AloneInv'
    <2>1. ~overlapped' => \A d \in Caller : Live(d)' => d = c
      BY <1>1 DEF Live
    <2> QED
      BY <1>1, <1>5, <2>1 DEF AloneInv
  <1>9. CatchInv'
    BY <1>1, <1>5, <1>6, <1>7 DEF CatchInv
  <1>10. TotalsInv'
    BY <1>1, <1>5, <1>7 DEF TotalsInv
  <1> QED
    BY <1>3, <1>8, <1>9, <1>10

LEMMA StepBooks ==
  ASSUME TypeOK, GuardInv, BooksInv, NEW c \in Caller, Step(c)
  PROVE  BooksInv'
  <1> USE DEF BooksInv
  <1>1. /\ Mine(c) /\ UNCHANGED <<job, overlapped>> /\ Live(c)
        /\ Smooth' => Smooth
    BY StepMine DEF Live, Smooth, TypeOK
  <1>2. Kinds(c)
    BY StepKinds
  <1>3. PlanInv'
    BY StepPlan
  <1>4. AloneInv' /\ CatchInv' /\ TotalsInv'
    BY <1>1, <1>2, AloneStep, CatchStep, TotalsStep
  <1> QED
    BY <1>3, <1>4

LEMMA CrashBooks ==
  ASSUME TypeOK, BooksInv, NEW p \in Process, Crash(p)
  PROVE  BooksInv'
  <1> USE DEF BooksInv
  <1>1. /\ ~Smooth' /\ UNCHANGED <<ledger, job, overlapped>>
        /\ \A d \in Caller : /\ pc'[d] = IF Home[d] = p /\ Live(d) THEN "done" ELSE pc[d]
                             /\ todo'[d] = IF Home[d] = p THEN <<>> ELSE todo[d]
    BY DEF Crash, Smooth, TypeOK, tables
  <1>2. PlanInv'
    <2>1. Entries(<<>>) = {}
      BY DEF Entries
    <2>2. ASSUME NEW d \in Caller PROVE Plan(d)'
      BY <1>1, <2>1 DEF PlanInv, Plan
    <2> QED
      BY <2>2 DEF PlanInv
  <1>3. AloneInv'
    <2>1. \A d \in Caller : (Live(d)' => Live(d)) /\ (SeedsNow(d)' => SeedsNow(d))
      BY <1>1 DEF Live, SeedsNow, Creating, CreatingPC
    <2> QED
      BY <1>1, <2>1 DEF AloneInv
  <1> QED
    BY <1>1, <1>2, <1>3 DEF CatchInv, TotalsInv

LEMMA InitBooks == Init => BooksInv
  <1> SUFFICES ASSUME Init PROVE BooksInv
    OBVIOUS
  <1>1. PlanInv
    BY DEF Init, PlanInv, Plan, Entries
  <1>2. \A c \in Caller : ~Live(c) /\ ~Creating(c) /\ pc[c] # "update"
    BY DEF Init, Live, Creating, CreatingPC
  <1>3. AloneInv
    BY <1>2 DEF AloneInv, SeedsNow
  <1>4. CatchInv
    BY <1>2 DEF Init, CatchInv, Created, SeedsNow
  <1>5. TotalsInv
    BY <1>2 DEF Init, TotalsInv
  <1> QED
    BY <1>1, <1>3, <1>4, <1>5 DEF BooksInv

LEMMA NextBooks == TypeOK /\ GuardInv /\ BooksInv /\ [Next]_vars => BooksInv'
  <1> SUFFICES ASSUME TypeOK, GuardInv, BooksInv, [Next]_vars PROVE BooksInv'
    OBVIOUS
  <1>1. CASE UNCHANGED vars
    BY <1>1
    DEF vars, tables, cache, local, BooksInv, PlanInv, Plan, AloneInv, CatchInv, TotalsInv, Smooth, Live,
        Created, SeedsNow, Creating, Syncing
  <1>2. CASE \E c \in Caller : GetAccount(c) \/ RecordUsage(c) \/ Step(c)
    BY <1>2, RequestBooks, StepBooks
  <1>3. CASE \E p \in Process : Crash(p)
    BY <1>3, CrashBooks
  <1> QED
    BY <1>1, <1>2, <1>3 DEF Next

LEMMA BooksHold == Spec => [](TypeOK /\ GuardInv /\ BooksInv)
  <1>1. Init => TypeOK /\ GuardInv /\ BooksInv
    BY InitTables, InitGuard, InitBooks
  <1>2. /\ [](TypeOK /\ TablesInv) /\ GuardInv /\ BooksInv /\ [][Next]_vars
        => [](TypeOK /\ GuardInv /\ BooksInv)
    BY NextGuard, NextBooks, PTL
  <1> QED
    BY <1>1, <1>2, TablesHold, PTL DEF Spec

\* When no caller is at work, and nothing failed or crashed, every entry but a
\* recharge has its usage event and the demo entries are all there or none is,
\* however requests overlapped; and the totals count the whole ledger, if requests
\* came one at a time.
THEOREM BooksDoCatchUp == Spec => []BooksCatchUp
  <1>1. BooksInv => BooksCatchUp
    <2> SUFFICES ASSUME BooksInv, Smooth, Quiet
                 PROVE  /\ ledger \ usage \subseteq Recharge
                        /\ ~overlapped => IF wallet = Absent THEN ledger = {} ELSE wallet = ledger
                        /\ Seed \subseteq ledger \/ Seed \cap ledger = {}
      BY DEF BooksCatchUp, EntryHasUsage, TotalsFollowLedger
    <2>1. \A c \in Caller : ~Creating(c) /\ ~Syncing(c)
      BY DEF Quiet, Live, Creating, CreatingPC, Syncing
    <2> QED
      BY <2>1 DEF BooksInv, CatchInv, TotalsInv, Created, SeedsNow
  <1> QED
    BY <1>1, BooksHold, PTL

\* If requests came one at a time, a demo entry only goes into a ledger that has
\* nothing but demo entries; whatever fails, is lost or crashes.
THEOREM DemoOnlyIntoUnused == Spec => SeedOnlyUnused
  <1>1. TypeOK /\ BooksInv => [\A c \in Caller : ~overlapped /\ InsertEntry(c) /\ Seeding(c) => ledger \subseteq Seed]_vars
    <2> SUFFICES ASSUME TypeOK, BooksInv, NEW c \in Caller, ~overlapped, InsertEntry(c), Seeding(c)
                 PROVE  ledger \subseteq Seed
      OBVIOUS
    <2>1. SeedsNow(c)
      BY DEF SeedsNow, Creating, CreatingPC, InsertEntry, Seeding, TypeOK
    <2> QED
      BY <2>1 DEF BooksInv, AloneInv
  <1> QED
    BY <1>1, BooksHold, PTL DEF SeedOnlyUnused

=============================================================================
