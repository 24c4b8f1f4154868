-------------------------------- MODULE Wallet --------------------------------
(***************************************************************************)
(* The wallet of one tenant: its ledger, its usage events and the totals   *)
(* kept in its tenant_wallets row (model/wallet.py), as written by the     *)
(* billing of external calls (workflow/billing.py) and by the demo data    *)
(* that the account routes put into an empty wallet (app/routes.py).       *)
(*                                                                         *)
(* A caller is a request or worker thread of a process.  Each statement of *)
(* model/wallet.py is a transaction of its own, so callers interleave      *)
(* between statements; and a statement that reads one table and writes     *)
(* another reads first: under READ COMMITTED its reads are of the moment   *)
(* it began.                                                               *)
(*                                                                         *)
(* An entry is its event id, whose amount is fixed, so the totals of the   *)
(* wallet are modelled by the entries they count.  The usage events that   *)
(* the provider monitor derives from remote balances, which have no entry, *)
(* are left out.                                                           *)
(*                                                                         *)
(* Bounds: a caller serves one request, so Caller bounds the requests;     *)
(* MaxCrashes, MaxFaults.                                                  *)
(***************************************************************************)
EXTENDS Naturals, Sequences

CONSTANTS
  Process,
  Caller,
  Home,         \* Home[c]: the process of caller c
  SeedOrder,    \* the demo entries, in the order they are created
  Recharge,     \* the demo entries that are recharges
  Call,         \* billed external calls: provider_event_ids
  MaxCrashes,
  MaxFaults,
  NoCaller,
  Absent        \* no tenant_wallets row

Seed == {SeedOrder[k] : k \in DOMAIN SeedOrder}
Event == Seed \cup Call

ASSUME WalletAssumption ==
  /\ Home \in [Caller -> Process]
  /\ SeedOrder \in Seq(Seed) /\ SeedOrder # <<>>
  /\ Recharge \subseteq Seed /\ Seed \cap Call = {}
  /\ \A entries \in SUBSET Event : entries # Absent
  /\ MaxCrashes \in Nat /\ MaxFaults \in Nat
  /\ NoCaller \notin Caller

VARIABLES
  ledger,    \* wallet_ledger_entries
  usage,     \* provider_usage_events
  wallet,    \* the entries the totals of the tenant_wallets row count, or Absent
  seeded,    \* seeded[p]: is the tenant in _WALLET_SEEDED_TENANTS?
  guard,     \* guard[p]: its lock in _WALLET_SEED_GUARDS, named by its creator
  owner,     \* owner[g]: who holds lock g
  job,       \* job[c]: what caller c was called for
  pc,        \* pc[c]: the statement it is at
  mine,      \* mine[c]: the lock it fetched
  todo,      \* todo[c]: the entries it has yet to create
  seen,      \* seen[c]: what its statement has read
  overlapped, \* history: has a request come in while another was served?
  crashes,
  faults

tables == <<ledger, usage, wallet>>
cache  == <<seeded, guard, owner>>
local  == <<job, pc, mine, todo, seen>>
vars   == <<tables, cache, local, overlapped, crashes, faults>>

\* The statements made under the seed guard, after the second look at the cache.
SeedPC == {"ensure", "missing", "hydrate", "count", "insert", "scan", "update", "use", "mark"}

PC == SeedPC \cup {"idle", "fetch", "acquire", "check", "answer", "done"}

TypeOK ==
  /\ ledger \subseteq Event
  /\ usage \subseteq Event
  /\ wallet \in {Absent} \cup SUBSET Event
  /\ seeded \in [Process -> BOOLEAN]
  /\ guard \in [Process -> Caller \cup {NoCaller}]
  /\ owner \in [Caller -> Caller \cup {NoCaller}]
  /\ job \in [Caller -> {"none", "account", "monitor", "usage"}]
  /\ pc \in [Caller -> PC]
  /\ mine \in [Caller -> Caller \cup {NoCaller}]
  /\ todo \in [Caller -> Seq(Event)]
  /\ \A c \in Caller : pc[c] \in {"insert", "use"} => todo[c] # <<>>
  /\ seen \in [Caller -> SUBSET Event]
  /\ overlapped \in BOOLEAN
  /\ crashes \in 0..MaxCrashes
  /\ faults \in 0..MaxFaults

Init ==
  /\ ledger = {} /\ usage = {} /\ wallet = Absent
  /\ seeded = [p \in Process |-> FALSE]
  /\ guard = [p \in Process |-> NoCaller]
  /\ owner = [g \in Caller |-> NoCaller]
  /\ job = [c \in Caller |-> "none"]
  /\ pc = [c \in Caller |-> "idle"]
  /\ mine = [c \in Caller |-> NoCaller]
  /\ todo = [c \in Caller |-> <<>>]
  /\ seen = [c \in Caller |-> {}]
  /\ overlapped = FALSE
  /\ crashes = 0 /\ faults = 0

Live(c) == pc[c] \notin {"idle", "done"}
Goto(c, label) == pc' = [pc EXCEPT ![c] = label]

\* It is inside _ensure_wallet_seed_data, with the guard and past the check.
Seeding(c) == job[c] # "usage" /\ pc[c] \in SeedPC /\ mine[c] # NoCaller

-----------------------------------------------------------------------------
(* Requests.                                                               *)

Request(c, kind, label) ==
  /\ pc[c] = "idle"
  /\ job' = [job EXCEPT ![c] = kind]
  /\ Goto(c, label)
  /\ overlapped' = (overlapped \/ \E d \in Caller : Live(d))

\* The account routes: balance and ledger, or the provider monitors.
GetAccount(c) ==
  /\ Request(c, "account", "fetch") \/ Request(c, "monitor", "fetch")
  /\ UNCHANGED <<tables, cache, mine, todo, seen, crashes, faults>>

\* record_usage_event, after an external call.
RecordUsage(c) ==
  /\ Request(c, "usage", "ensure")
  /\ \E e \in Call : todo' = [todo EXCEPT ![c] = <<e>>]
  /\ UNCHANGED <<tables, cache, mine, seen, crashes, faults>>

-----------------------------------------------------------------------------
(* _ensure_wallet_seed_data: the guard.                                    *)

\* What the route does once the wallet is there.
AfterSeeding(c) == Goto(c, IF job[c] = "monitor" THEN "missing" ELSE "answer")

FoundSeeded(c) ==
  /\ pc[c] = "fetch" /\ seeded[Home[c]]
  /\ AfterSeeding(c)
  /\ UNCHANGED <<tables, cache, job, mine, todo, seen, overlapped, crashes, faults>>

FetchGuard(c) ==
  /\ pc[c] = "fetch" /\ ~seeded[Home[c]]
  /\ guard' = [guard EXCEPT ![Home[c]] = IF @ = NoCaller THEN c ELSE @]
  /\ mine' = [mine EXCEPT ![c] = guard'[Home[c]]]
  /\ Goto(c, "acquire")
  /\ UNCHANGED <<tables, seeded, owner, job, todo, seen, overlapped, crashes, faults>>

AcquireGuard(c) ==
  /\ pc[c] = "acquire" /\ owner[mine[c]] = NoCaller
  /\ owner' = [owner EXCEPT ![mine[c]] = c]
  /\ Goto(c, "check")
  /\ UNCHANGED <<tables, seeded, guard, job, mine, todo, seen, overlapped, crashes, faults>>

\* Leaving the with block, in whatever way.
Release(c) ==
  /\ owner' = [g \in Caller |-> IF owner[g] = c THEN NoCaller ELSE owner[g]]
  /\ mine' = [mine EXCEPT ![c] = NoCaller]

CheckAgain(c) ==
  /\ pc[c] = "check"
  /\ \/ /\ seeded[Home[c]]
        /\ Release(c) /\ AfterSeeding(c)
     \/ /\ ~seeded[Home[c]]
        /\ Goto(c, "ensure")
        /\ UNCHANGED <<owner, mine>>
  /\ UNCHANGED <<tables, seeded, guard, job, todo, seen, overlapped, crashes, faults>>

\* (A mutant: the lock is not released.)
MutantMarkKeepsLock(c) ==
  /\ pc[c] = "mark"
  /\ seeded' = [seeded EXCEPT ![Home[c]] = TRUE]
  /\ guard' = [guard EXCEPT ![Home[c]] = NoCaller]
  /\ AfterSeeding(c)
  /\ UNCHANGED <<tables, owner, job, mine, todo, seen, overlapped, crashes, faults>>

\* (A mutant: the guard is dropped, and the tenant is not remembered.)
MutantMarkForgets(c) ==
  /\ pc[c] = "mark"
  /\ guard' = [guard EXCEPT ![Home[c]] = NoCaller]
  /\ Release(c) /\ AfterSeeding(c)
  /\ UNCHANGED <<tables, seeded, job, todo, seen, overlapped, crashes, faults>>

MarkSeeded(c) ==
  /\ pc[c] = "mark"
  /\ seeded' = [seeded EXCEPT ![Home[c]] = TRUE]
  /\ guard' = [guard EXCEPT ![Home[c]] = NoCaller]
  /\ Release(c) /\ AfterSeeding(c)
  /\ UNCHANGED <<tables, job, todo, seen, overlapped, crashes, faults>>

-----------------------------------------------------------------------------
(* The statements.                                                         *)

\* (A mutant: the loop takes one turn too many.)
MutantAfterEntry(c) ==
  IF todo[c] # <<>> THEN "insert" ELSE IF job[c] = "usage" THEN "done" ELSE "scan"

AfterEntry(c) ==
  IF Tail(todo[c]) # <<>> THEN "insert" ELSE IF job[c] = "usage" THEN "done" ELSE "scan"

\* Where a statement that returned leads.  A usage call creates one entry; the
\* seeding creates each demo entry in turn and ends with one more sync.
Advance(c) ==
  \/ /\ pc[c] = "ensure"
     /\ Goto(c, IF todo[c] # <<>> THEN "insert" ELSE "missing")
     /\ UNCHANGED todo
  \/ /\ pc[c] = "hydrate"
     /\ Goto(c, IF Seeding(c) THEN "count" ELSE "answer")
     /\ UNCHANGED todo
  \/ /\ pc[c] = "insert"
     /\ Goto(c, "scan")
     /\ UNCHANGED todo
  \/ /\ pc[c] = "update" /\ todo[c] = <<>>
     /\ Goto(c, "mark")
     /\ UNCHANGED todo
  \/ /\ pc[c] = "update" /\ todo[c] # <<>> /\ Head(todo[c]) \notin Recharge
     /\ Goto(c, "use")
     /\ UNCHANGED todo
  \/ /\ \/ pc[c] = "use"
        \/ pc[c] = "update" /\ todo[c] # <<>> /\ Head(todo[c]) \in Recharge
     /\ todo' = [todo EXCEPT ![c] = Tail(@)]
     /\ Goto(c, AfterEntry(c))

Statement(c) ==
  /\ Advance(c)
  /\ seen' = [seen EXCEPT ![c] = {}]
  /\ UNCHANGED <<cache, job, mine, overlapped, crashes, faults>>

\* A statement raised: the exception leaves the guard's with block, and the
\* request or the flow's node with it.
Raise(c) ==
  /\ Release(c) /\ Goto(c, "done")
  /\ todo' = [todo EXCEPT ![c] = <<>>]
  /\ seen' = [seen EXCEPT ![c] = {}]
  /\ UNCHANGED <<tables, seeded, guard, job>>

\* ensure_tenant_wallet, first thing in the seeding and before an entry.  (The
\* one sync_tenant_wallet_balance starts with finds the row there.)
EnsureWallet(c) ==
  /\ pc[c] = "ensure"
  /\ wallet' = IF wallet = Absent THEN {} ELSE wallet
  /\ Statement(c)
  /\ UNCHANGED <<ledger, usage>>

\* hydrate_provider_usage_from_ledger: the entries without a usage event ...
FindMissing(c) ==
  /\ pc[c] = "missing"
  /\ seen' = [seen EXCEPT ![c] = ledger \ usage]
  /\ Goto(c, "hydrate")
  /\ UNCHANGED <<tables, cache, job, mine, todo, overlapped, crashes, faults>>

\* ... get one, recharges too.  There is no "on conflict": one that another
\* caller has given its event since violates the unique index.
Hydrate(c) ==
  /\ pc[c] = "hydrate" /\ seen[c] \cap usage = {}
  /\ usage' = usage \cup seen[c]
  /\ Statement(c)
  /\ UNCHANGED <<ledger, wallet>>

HydrateConflicts(c) ==
  /\ pc[c] = "hydrate" /\ seen[c] \cap usage # {}
  /\ Raise(c)
  /\ UNCHANGED <<overlapped, crashes, faults>>

\* (A mutant: demo entries whatever the ledger holds.)
MutantSeedAnyway(c) ==
  /\ pc[c] = "count"
  /\ todo' = [todo EXCEPT ![c] = SeedOrder]
  /\ Goto(c, "insert")
  /\ UNCHANGED <<tables, cache, job, mine, seen, overlapped, crashes, faults>>

\* Is the ledger still empty?
CountEntries(c) ==
  /\ pc[c] = "count"
  /\ \/ /\ ledger # {}
        /\ Goto(c, "mark")
        /\ UNCHANGED todo
     \/ /\ ledger = {}
        /\ todo' = [todo EXCEPT ![c] = SeedOrder]
        /\ Goto(c, "insert")
  /\ UNCHANGED <<tables, cache, job, mine, seen, overlapped, crashes, faults>>

\* create_wallet_ledger_entry: insert, or update the entry with this event id.
InsertEntry(c) ==
  /\ pc[c] = "insert"
  /\ ledger' = ledger \cup {Head(todo[c])}
  /\ Statement(c)
  /\ UNCHANGED <<usage, wallet>>

\* sync_tenant_wallet_balance: sum up the ledger ...
ScanLedger(c) ==
  /\ pc[c] = "scan"
  /\ seen' = [seen EXCEPT ![c] = ledger]
  /\ Goto(c, "update")
  /\ UNCHANGED <<tables, cache, job, mine, todo, overlapped, crashes, faults>>

\* (Mutants: the wallet counts the caller's own entry on top; it forgets recharges.)
MutantSyncAddsOwn(c) ==
  /\ pc[c] = "update"
  /\ wallet' = wallet \cup (IF todo[c] = <<>> THEN {} ELSE {Head(todo[c])})
  /\ Statement(c)
  /\ UNCHANGED <<ledger, usage>>

MutantSyncConsumesOnly(c) ==
  /\ pc[c] = "update"
  /\ wallet' = seen[c] \ Recharge
  /\ Statement(c)
  /\ UNCHANGED <<ledger, usage>>

\* ... and write the sums, once the row is free.
UpdateTotals(c) ==
  /\ pc[c] = "update"
  /\ wallet' = seen[c]
  /\ Statement(c)
  /\ UNCHANGED <<ledger, usage>>

\* create_provider_usage_event.  Its ledger_entry_id is a foreign key.
InsertUsage(c) ==
  /\ pc[c] = "use" /\ Head(todo[c]) \in ledger
  /\ usage' = usage \cup {Head(todo[c])}
  /\ Statement(c)
  /\ UNCHANGED <<ledger, wallet>>

NoSuchEntry(c) ==
  /\ pc[c] = "use" /\ Head(todo[c]) \notin ledger
  /\ Raise(c)
  /\ UNCHANGED <<overlapped, crashes, faults>>

\* summarize_wallet_balance and the other reads.
Answer(c) ==
  /\ pc[c] = "answer"
  /\ Goto(c, "done")
  /\ UNCHANGED <<tables, cache, job, mine, todo, seen, overlapped, crashes, faults>>

-----------------------------------------------------------------------------
(* Failures.                                                               *)

AtStatement(c) == pc[c] \in SeedPC \ {"mark"}

StatementFails(c) ==
  /\ AtStatement(c)
  /\ faults < MaxFaults /\ faults' = faults + 1
  /\ Raise(c)
  /\ UNCHANGED <<overlapped, crashes>>

\* A commit lost with its connection; connect_postgres swallows the error.  (A
\* lost ensure_tenant_wallet is made good by the next one.)
CommitLost(c) ==
  /\ pc[c] \in {"hydrate", "insert", "update", "use"}
  /\ pc[c] = "use" => Head(todo[c]) \in ledger
  /\ faults < MaxFaults /\ faults' = faults + 1
  /\ Advance(c)
  /\ seen' = [seen EXCEPT ![c] = {}]
  /\ UNCHANGED <<tables, cache, job, mine, overlapped, crashes>>

\* A process dies with its callers, and with what it remembered.
Crash(p) ==
  /\ \E c \in Caller : Home[c] = p /\ Live(c)
  /\ crashes < MaxCrashes /\ crashes' = crashes + 1
  /\ seeded' = [seeded EXCEPT ![p] = FALSE]
  /\ guard' = [guard EXCEPT ![p] = NoCaller]
  /\ pc' = [c \in Caller |-> IF Home[c] = p /\ Live(c) THEN "done" ELSE pc[c]]
  /\ mine' = [c \in Caller |-> IF Home[c] = p THEN NoCaller ELSE mine[c]]
  /\ todo' = [c \in Caller |-> IF Home[c] = p THEN <<>> ELSE todo[c]]
  /\ owner' = [g \in Caller |-> IF owner[g] # NoCaller /\ Home[owner[g]] = p THEN NoCaller ELSE owner[g]]
  /\ seen' = [c \in Caller |-> IF Home[c] = p THEN {} ELSE seen[c]]
  /\ UNCHANGED <<tables, job, overlapped, faults>>

-----------------------------------------------------------------------------

Step(c) ==
  \/ FoundSeeded(c) \/ FetchGuard(c) \/ AcquireGuard(c) \/ CheckAgain(c) \/ MarkSeeded(c)
  \/ EnsureWallet(c) \/ FindMissing(c) \/ Hydrate(c) \/ HydrateConflicts(c)
  \/ CountEntries(c) \/ InsertEntry(c) \/ ScanLedger(c) \/ UpdateTotals(c)
  \/ InsertUsage(c) \/ NoSuchEntry(c) \/ Answer(c)
  \/ StatementFails(c) \/ CommitLost(c)

Next ==
  \/ \E c \in Caller : GetAccount(c) \/ RecordUsage(c) \/ Step(c)
  \/ \E p \in Process : Crash(p)

\* A thread keeps being scheduled and the database answers.
Spec == Init /\ [][Next]_vars /\ \A c \in Caller : WF_vars(Step(c))

-----------------------------------------------------------------------------
(* Properties.                                                             *)

Quiet == \A c \in Caller : ~Live(c)
Smooth == crashes = 0 /\ faults = 0

\* One caller of a process at a time is past the check and seeding, although the
\* lock is taken out of the dictionary while others may hold or wait for it.
SeedingIsExclusive ==
  \A c, d \in Caller : Seeding(c) /\ Seeding(d) /\ Home[c] = Home[d] => c = d

\* A usage event always has its ledger entry, whatever is lost on the way.
UsageHasEntry == usage \subseteq ledger

\* Every entry but a recharge has its usage event once no caller is at work.
EntryHasUsage == Smooth /\ Quiet => ledger \ usage \subseteq Recharge

\* The totals never count an entry the ledger does not have.
TotalsAreOfEntries == wallet # Absent => wallet \subseteq ledger

\* What is kept beside the ledger is never ahead of it: usage events and totals
\* are of entries it has, whatever overlaps, fails, is lost or crashes.
BooksAreOfEntries == UsageHasEntry /\ TotalsAreOfEntries

\* When no caller is at work the totals count all entries, if requests came one at
\* a time.
TotalsFollowLedger ==
  Smooth /\ Quiet /\ ~overlapped => IF wallet = Absent THEN ledger = {} ELSE wallet = ledger

\* What is kept beside the ledger catches up with it: once no caller is at work
\* the entries have their usage events, the totals count the entries, and the demo
\* entries are all there or none is.
BooksCatchUp ==
  /\ EntryHasUsage /\ TotalsFollowLedger
  /\ Smooth /\ Quiet => Seed \subseteq ledger \/ Seed \cap ledger = {}

\* Demo entries only go into a ledger without real ones, if requests came one at
\* a time.
SeedOnlyUnused ==
  [][\A c \in Caller : ~overlapped /\ InsertEntry(c) /\ Seeding(c) => ledger \subseteq Seed]_vars

\* Every request is answered or raises: none waits for a guard for ever.  (A
\* caller serves one request, so again and again none is being served.)
EveryRequestEnds == []<>Quiet

=============================================================================
