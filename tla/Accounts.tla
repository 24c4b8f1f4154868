------------------------------- MODULE Accounts -------------------------------
(***************************************************************************)
(* The accounts of tenants: rows of model/tenant.py, the admission of      *)
(* requests by API key in app/dependencies.py, and the routes of app/      *)
(* routes.py that create a tenant, change its credentials at a provider    *)
(* and monitor what is left and used there.                                *)
(*                                                                         *)
(* An API keeps two caches in memory, of the tenant of a key and of the    *)
(* monitor of a tenant.  A request is admitted on the event loop, one at a *)
(* time; its route runs in a thread, so that routes interleave between any *)
(* two statements.  A connection that is cut while a row is read reads as  *)
(* no row, and one that is cut at its commit loses the row silently.       *)
(*                                                                         *)
(* All tenants have one name, whose identifiers are told apart by their    *)
(* suffix; there is one provider.  What a monitor shows of the wallet is   *)
(* in Wallet.                                                              *)
(*                                                                         *)
(* Bounds: MaxClock, MaxRequests, MaxMishaps, MaxBalance.                  *)
(***************************************************************************)
EXTENDS Naturals, FiniteSets, SequencesExt

CONSTANTS
  Client,
  Key,                \* the API keys
  Cred,               \* the credentials at the provider
  Absent,
  MaxTenants,
  KeyTTL,             \* TENANT_API_KEY_CACHE_TTL_SECONDS
  KeyCacheSize,       \* TENANT_API_KEY_CACHE_MAX_SIZE
  MonitorTTL,         \* PROVIDER_MONITOR_CACHE_TTL_SECONDS
  MonitorStaleTTL,    \* PROVIDER_MONITOR_STALE_TTL_SECONDS
  MaxClock,
  MaxRequests,
  MaxMishaps,
  MaxBalance

\* 1 is the name itself, n the name and "-n".
Id == 1..MaxTenants

\* A tenant may present its identifier in the place of its key.
Value == Key \cup Id

Tenant == [key : Key, cred : Cred \cup {Absent}]

Entry == [value : Value, id : Id, until : Nat]

\* The balance is Absent when the provider was not asked or did not answer.
Payload == [cred : Cred \cup {Absent}, balance : Nat \cup {Absent}]
Cached == [payload : Payload, expires_at : Nat, stale_until : Nat]

ASSUME AccountsAssumption ==
  /\ MaxTenants \in Nat \ {0}
  /\ KeyTTL \in Nat \ {0} /\ MonitorTTL \in Nat /\ MonitorStaleTTL \in Nat
  /\ KeyCacheSize \in Nat \ {0}
  /\ MaxClock \in Nat /\ MaxRequests \in Nat /\ MaxMishaps \in Nat /\ MaxBalance \in Nat
  /\ Absent \notin Nat \cup Cred \cup Tenant \cup Cached \cup Payload
  /\ Key \cap Nat = {}

\* occurred_at is the number of the refresh.  (What had been spent of the balance
\* then is history.)
Event == [occurred_at : Nat, cred : Cred, balance : Nat, amount : Nat, spent : Nat]

Step ==
  {"idle", "lookup", "admitted", "list", "insert", "write", "clear",
   "config", "fetch", "latest", "record", "store", "served"}

VARIABLES
  clock,
  rows,       \* rows[i]: the row of tenant i, or Absent
  keys,       \* the cache of keys
  monitor,    \* monitor[i]: the cached monitor of tenant i, or Absent
  events,     \* events[i]: the usage events of the monitor, oldest row first
  balance,    \* balance[d]: what is left at the provider
  req,
  refreshes,
  requests, mishaps,
  spent,      \* history: what was spent of balance[d]
  left,       \* history: when a key was taken away from a tenant
  raced,      \* history: was the list an identifier was chosen from out of date?
  overlapped, \* history: did refreshes of one tenant overlap?
  late        \* history: may a monitor have outlived the credentials it was built with?

provider == <<balance, spent>>
api      == <<keys, monitor>>
database == <<rows, events>>
bounds   == <<requests, mishaps>>
history  == <<left, raced, overlapped, late>>
vars     == <<clock, api, database, provider, req, refreshes, bounds, history>>

Request ==
  [step    : Step,
   does    : {"create", "credentials", "monitors"},
   value   : Value \cup {Absent},
   id      : Id \cup {0},
   at      : Nat,                          \* when it was admitted; its refresh
   cred    : Cred \cup {Absent},           \* what it read, or replaced
   held    : Payload \cup {Absent},        \* the stale monitor
   balance : Nat \cup {Absent},
   spent   : Nat,
   latest  : Nat \cup {Absent},            \* the balance of the latest event
   showing : SUBSET (Cred \cup {Absent})]  \* history: the credentials while it ran

NoRequest ==
  [step |-> "idle", does |-> "monitors", value |-> Absent, id |-> 0, at |-> 0, cred |-> Absent,
   held |-> Absent, balance |-> Absent, spent |-> 0, latest |-> Absent, showing |-> {}]

TypeOK ==
  /\ clock \in 0..MaxClock
  /\ rows \in [Id -> Tenant \cup {Absent}]
  /\ keys \subseteq Entry
  /\ monitor \in [Id -> Cached \cup {Absent}]
  /\ events \in [Id -> Seq(Event)]
  /\ balance \in [Cred -> 0..MaxBalance] /\ spent \in [Cred -> 0..MaxBalance]
  /\ req \in [Client -> Request]
  /\ refreshes \in Nat
  /\ requests \in 0..MaxRequests /\ mishaps \in 0..MaxMishaps
  /\ left \subseteq [value : Key, id : Id, at : 0..MaxClock]
  /\ raced \in BOOLEAN /\ overlapped \in BOOLEAN /\ late \in BOOLEAN
  /\ \A i, j \in Id : rows[i] # Absent /\ rows[j] # Absent /\ rows[i].key = rows[j].key => i = j
  /\ \A e, f \in keys : e.value = f.value => e = f
  /\ Cardinality(keys) <= KeyCacheSize

Init ==
  /\ clock = 0
  /\ rows = [i \in Id |-> Absent]
  /\ keys = {}
  /\ monitor = [i \in Id |-> Absent]
  /\ events = [i \in Id |-> <<>>]
  /\ balance = [d \in Cred |-> MaxBalance] /\ spent = [d \in Cred |-> 0]
  /\ req = [c \in Client |-> NoRequest]
  /\ refreshes = 0
  /\ requests = 0 /\ mishaps = 0
  /\ left = {} /\ raced = FALSE /\ overlapped = FALSE /\ late = FALSE

Mishap == mishaps < MaxMishaps /\ mishaps' = mishaps + 1 /\ UNCHANGED requests

Free(c) == req[c].step \in {"idle", "served"}
Goes(c, r) == req' = [req EXCEPT ![c] = r]
Ends(c) == Goes(c, NoRequest)

\* A client asks for something.
Asks == requests < MaxRequests /\ requests' = requests + 1 /\ UNCHANGED mishaps

Tenants == {i \in Id : rows[i] # Absent}

\* The tenants a key or an identifier is that of.
Matches(v) == {i \in Tenants : v \in {rows[i].key, i}}

\* Is key k that of another tenant than i?
Taken(k, i) == \E j \in Tenants \ {i} : rows[j].key = k

-----------------------------------------------------------------------------
(* The admission.                                                          *)

\* While a lookup is waited for, so is the event loop.
LoopIsFree == \A c \in Client : req[c].step # "lookup"

\* What the tenant's credentials are, or were to one whose change is not finished.
InForce(i) ==
  {rows[i].cred} \cup {req[c].cred : c \in {d \in Client : req[d].step = "clear" /\ req[d].id = i}}

Admitted(c, r, i) ==
  Goes(c, [r EXCEPT !.step = "admitted", !.id = i,
                    !.showing = IF r.does = "monitors" THEN InForce(i) ELSE {}])

\* (A mutant: an entry never expires.)
MutantHit(e) == TRUE

Hit(e) == e.until > clock

Ask(c, what, v) ==
  /\ Free(c) /\ LoopIsFree /\ Asks
  /\ LET r == [NoRequest EXCEPT !.does = what, !.value = v, !.at = clock]
         found == {e \in keys : e.value = v}
     IN  \/ \E e \in found : Hit(e) /\ Admitted(c, r, e.id) /\ UNCHANGED keys
         \/ /\ \A e \in found : ~Hit(e)
            /\ keys' = keys \ found
            /\ Goes(c, [r EXCEPT !.step = "lookup"])
  /\ UNCHANGED <<clock, monitor, database, provider, refreshes, history>>

\* (A mutant: one too many.)
MutantRemember(e) ==
  IF Cardinality(keys) > KeyCacheSize
    THEN \E f \in keys : (\A g \in keys : f.until <= g.until) /\ keys' = (keys \ {f}) \cup {e}
    ELSE keys' = keys \cup {e}

\* The oldest entry makes room; it is the one to expire first.
Remember(e) ==
  IF Cardinality(keys) >= KeyCacheSize
    THEN \E f \in keys : (\A g \in keys : f.until <= g.until) /\ keys' = (keys \ {f}) \cup {e}
    ELSE keys' = keys \cup {e}

\* Its lifetime counts from before the lookup.
Lookup(c) ==
  /\ req[c].step = "lookup"
  /\ \/ /\ \E i \in Matches(req[c].value) :
             /\ Admitted(c, req[c], i)
             /\ Remember([value |-> req[c].value, id |-> i, until |-> req[c].at + KeyTTL])
        /\ UNCHANGED bounds
     \/ /\ Matches(req[c].value) = {}
        /\ Ends(c) /\ UNCHANGED <<keys, bounds>>
     \/ Mishap /\ Ends(c) /\ UNCHANGED keys
  /\ UNCHANGED <<clock, monitor, database, provider, refreshes, history>>

-----------------------------------------------------------------------------
(* The rows of tenants.                                                    *)

\* The refreshes of tenant i that have read its credentials.
Refreshing(i, steps) == {c \in Client : req[c].id = i /\ req[c].step \in steps}

\* Tenant i is inserted, or every column of its row replaced, unless its key is
\* another's.  Client c goes on with request r.
Upsert(c, r, i, k, d) ==
  /\ ~Taken(k, i)
  /\ rows' = [rows EXCEPT ![i] = [key |-> k, cred |-> d]]
  /\ left' = IF rows[i] = Absent \/ rows[i].key = k THEN left
             ELSE left \cup {[value |-> rows[i].key, id |-> i, at |-> clock]}
  /\ req' = [e \in Client |->
               IF e = c THEN r
               ELSE IF req[e].id = i /\ req[e].does = "monitors"
                 THEN [req[e] EXCEPT !.showing = @ \cup {d}] ELSE req[e]]

\* A key that is registered is refused.
Create(c, k) ==
  /\ Free(c)
  /\ \/ Matches(k) = {} /\ Asks
     \/ /\ requests < MaxRequests /\ mishaps < MaxMishaps
        /\ requests' = requests + 1 /\ mishaps' = mishaps + 1
  /\ Goes(c, [NoRequest EXCEPT !.step = "list", !.does = "create", !.value = k])
  /\ UNCHANGED <<clock, api, database, provider, refreshes, history>>

GenerateId(existing) == CHOOSE i \in Id \ existing : \A j \in Id \ existing : i <= j

List(c) ==
  /\ req[c].step = "list"
  /\ \/ \E existing \in {Tenants, {}} :
          /\ existing # Id
          /\ LET i == GenerateId(existing)
             IN  /\ Goes(c, [req[c] EXCEPT !.step = "insert", !.id = i])
                 /\ raced' = (raced \/ rows[i] # Absent
                                    \/ \E d \in Client : req[d].step = "insert" /\ req[d].id = i)
          /\ IF existing = Tenants THEN UNCHANGED bounds ELSE Mishap
     \/ Mishap /\ Ends(c) /\ UNCHANGED raced
  /\ UNCHANGED <<clock, api, database, provider, refreshes, left, overlapped, late>>

Insert(c) ==
  /\ req[c].step = "insert"
  /\ \/ /\ \E d \in Cred \cup {Absent} : Upsert(c, NoRequest, req[c].id, req[c].value, d)
        /\ late' = (late \/ rows[req[c].id] # Absent)
        /\ UNCHANGED bounds
     \/ /\ Taken(req[c].value, req[c].id)
        /\ Ends(c) /\ UNCHANGED <<rows, left, late, bounds>>
     \/ Mishap /\ Ends(c) /\ UNCHANGED <<rows, left, late>>
  /\ UNCHANGED <<clock, api, events, provider, refreshes, raced, overlapped>>

\* update_account_credentials reads the row, to write it back with what it is to
\* keep of it.  (A mutant: the key that was presented is taken for the tenant's.)
MutantReadTenant(c) ==
  /\ req[c].step = "admitted" /\ req[c].does = "credentials"
  /\ \/ /\ Goes(c, [req[c] EXCEPT !.step = "write"])
        /\ UNCHANGED bounds
     \/ Mishap /\ Ends(c)
  /\ UNCHANGED <<clock, api, database, provider, refreshes, history>>

ReadTenant(c) ==
  /\ req[c].step = "admitted" /\ req[c].does = "credentials"
  /\ \/ /\ Goes(c, [req[c] EXCEPT !.step = "write", !.at = 0, !.value = rows[req[c].id].key])
        /\ UNCHANGED bounds
     \/ Mishap /\ Ends(c)
  /\ UNCHANGED <<clock, api, database, provider, refreshes, history>>

\* What is written may be lost, or be there though the statement failed.
WriteTenant(c) ==
  LET i == req[c].id
      outlived == Refreshing(i, {"fetch", "latest", "record", "store"}) # {}
      clears == [req[c] EXCEPT !.step = "clear", !.value = Absent, !.cred = rows[i].cred]
  IN  /\ req[c].step = "write"
      /\ \/ /\ \E d \in Cred \cup {Absent} : Upsert(c, clears, i, req[c].value, d)
            /\ late' = (late \/ outlived)
            /\ UNCHANGED bounds
         \/ /\ \E d \in Cred \cup {Absent} : Upsert(c, NoRequest, i, req[c].value, d)
            /\ late' = TRUE
            /\ Mishap
         \/ /\ Taken(req[c].value, i)
            /\ Ends(c) /\ UNCHANGED <<rows, left, late, bounds>>
         \/ Mishap /\ (Goes(c, clears) \/ Ends(c)) /\ UNCHANGED <<rows, left, late>>
      /\ UNCHANGED <<clock, api, events, provider, refreshes, raced, overlapped>>

\* (A mutant: the monitor is only made stale.)
MutantCleared(m) == IF m = Absent THEN Absent ELSE [m EXCEPT !.expires_at = 0]

Cleared(m) == Absent

ClearMonitor(c) ==
  /\ req[c].step = "clear"
  /\ monitor' = [monitor EXCEPT ![req[c].id] = Cleared(@)]
  /\ Ends(c)
  /\ UNCHANGED <<clock, keys, database, provider, refreshes, bounds, history>>

-----------------------------------------------------------------------------
(* The monitor.                                                            *)

Serves(c, p) ==
  Goes(c, [NoRequest EXCEPT !.step = "served", !.cred = p.cred, !.showing = req[c].showing])

GetMonitor(c) ==
  LET m == monitor[req[c].id]
  IN  /\ req[c].step = "admitted" /\ req[c].does = "monitors"
      /\ IF m # Absent /\ m.expires_at > clock
           THEN Serves(c, m.payload)
           ELSE Goes(c, [req[c] EXCEPT
                  !.step = "config", !.value = Absent, !.at = 0,
                  !.held = IF m # Absent /\ m.stale_until > clock THEN m.payload ELSE Absent])
      /\ UNCHANGED <<clock, api, database, provider, refreshes, bounds, history>>

\* The credentials are read, and the refresh begins.
ReadConfig(c) ==
  LET i == req[c].id
      begins(d) ==
        /\ Goes(c, [req[c] EXCEPT !.step = "fetch", !.cred = d, !.at = refreshes + 1])
        /\ refreshes' = refreshes + 1
        /\ overlapped' = (overlapped \/ Refreshing(i, {"fetch", "latest", "record"}) # {})
  IN  /\ req[c].step = "config"
      /\ \/ begins(rows[i].cred) /\ UNCHANGED <<late, bounds>>
         \/ begins(Absent) /\ late' = TRUE /\ Mishap
         \/ Mishap /\ Ends(c) /\ UNCHANGED <<refreshes, overlapped, late>>
      /\ UNCHANGED <<clock, api, database, provider, left, raced>>

\* A refresh that fails serves the stale monitor, unless that shows a failure.
Fails(c) ==
  /\ Mishap
  /\ IF req[c].held # Absent /\ req[c].held.balance # Absent THEN Serves(c, req[c].held) ELSE Ends(c)

\* The provider is asked for the balance, if what precedes it does not fail.
FetchBalance(c) ==
  LET d == req[c].cred
  IN  /\ req[c].step = "fetch"
      /\ \/ /\ d # Absent
            /\ Goes(c, [req[c] EXCEPT !.step = "latest", !.balance = balance[d], !.spent = spent[d]])
            /\ UNCHANGED bounds
         \/ d = Absent /\ Goes(c, [req[c] EXCEPT !.step = "store"]) /\ UNCHANGED bounds
         \/ d # Absent /\ Mishap /\ Goes(c, [req[c] EXCEPT !.step = "store"])
         \/ Fails(c)
      /\ UNCHANGED <<clock, api, database, provider, refreshes, history>>

ReadLatest(c) ==
  LET seen == {events[req[c].id][n] : n \in DOMAIN events[req[c].id]}
  IN  /\ req[c].step = "latest"
      /\ \/ /\ \/ seen = {} /\ Goes(c, [req[c] EXCEPT !.step = "record"])
               \/ \E e \in seen : /\ \A f \in seen : f.occurred_at <= e.occurred_at
                                  /\ Goes(c, [req[c] EXCEPT !.step = "record", !.latest = e.balance])
            /\ UNCHANGED bounds
         \/ Fails(c)
      /\ UNCHANGED <<clock, api, database, provider, refreshes, history>>

\* (A mutant: what was paid in counts, too.)
MutantDelta(previous, b) ==
  IF previous = Absent THEN 0 ELSE IF previous > b THEN previous - b ELSE b - previous

\* What is used is what is missing, if something is.
Delta(previous, b) == IF previous = Absent \/ previous <= b THEN 0 ELSE previous - b

RecordUsage(c) ==
  LET r == req[c]
      event == [occurred_at |-> r.at, cred |-> r.cred, balance |-> r.balance,
                amount |-> Delta(r.latest, r.balance), spent |-> r.spent]
      inserted == events' = [events EXCEPT ![r.id] = Append(@, event)]
  IN  /\ r.step = "record"
      /\ \/ inserted /\ Goes(c, [r EXCEPT !.step = "store"]) /\ UNCHANGED bounds
         \/ Mishap /\ Goes(c, [r EXCEPT !.step = "store"]) /\ UNCHANGED events
         \/ Fails(c) /\ (inserted \/ UNCHANGED events)
      /\ UNCHANGED <<clock, rows, api, provider, refreshes, history>>

StoreMonitor(c) ==
  LET p == [cred |-> req[c].cred, balance |-> req[c].balance]
      m == [payload |-> p, expires_at |-> clock + MonitorTTL, stale_until |-> clock + MonitorStaleTTL]
  IN  /\ req[c].step = "store"
      /\ \/ monitor' = [monitor EXCEPT ![req[c].id] = m] /\ Serves(c, p) /\ UNCHANGED bounds
         \/ Fails(c) /\ UNCHANGED monitor
      /\ UNCHANGED <<clock, keys, database, provider, refreshes, history>>

-----------------------------------------------------------------------------
(* Time, the provider and the process.                                     *)

Tick ==
  /\ clock < MaxClock /\ clock' = clock + 1
  /\ UNCHANGED <<api, database, provider, req, refreshes, bounds, history>>

Spend(d) ==
  /\ balance[d] > 0 /\ spent[d] < MaxBalance
  /\ balance' = [balance EXCEPT ![d] = @ - 1]
  /\ spent' = [spent EXCEPT ![d] = @ + 1]
  /\ UNCHANGED <<clock, api, database, req, refreshes, bounds, history>>

Recharge(d) ==
  /\ balance[d] < MaxBalance
  /\ balance' = [balance EXCEPT ![d] = @ + 1]
  /\ UNCHANGED <<clock, api, database, spent, req, refreshes, bounds, history>>

Restart ==
  /\ Mishap
  /\ keys' = {}
  /\ monitor' = [i \in Id |-> Absent]
  /\ req' = [c \in Client |-> NoRequest]
  /\ UNCHANGED <<clock, database, provider, refreshes, history>>

Routes(c) ==
  \/ \E v \in Value : \E what \in {"credentials", "monitors"} : Ask(c, what, v)
  \/ \E k \in Key : Create(c, k)
  \/ Lookup(c) \/ List(c) \/ Insert(c) \/ ReadTenant(c) \/ WriteTenant(c) \/ ClearMonitor(c)
  \/ GetMonitor(c) \/ ReadConfig(c) \/ FetchBalance(c) \/ ReadLatest(c) \/ RecordUsage(c)
  \/ StoreMonitor(c)

Next ==
  \/ \E c \in Client : Routes(c)
  \/ \E d \in Cred : Spend(d) \/ Recharge(d)
  \/ Tick \/ Restart

Spec == Init /\ [][Next]_vars

-----------------------------------------------------------------------------
(* Properties.                                                             *)

\* A request is admitted for a tenant only with what is its key, or was until less
\* than the lifetime of a cache entry before (require_tenant_api_key): neither the
\* caches, nor tenants that are replaced, nor a restart let an old key live longer.
KeyHonouredWithinTTL ==
  \A c \in Client : req[c].step = "admitted" =>
    \/ req[c].id \in Matches(req[c].value)
    \/ \E l \in left : l.value = req[c].value /\ l.id = req[c].id /\ req[c].at < l.at + KeyTTL

\* No tenant's key is ever taken from it, whatever it and others ask for, unless an
\* identifier was chosen from a list that was out of date: two creations under one
\* name overlapped, or the list's connection was cut (create_tenant,
\* update_account_credentials).
KeysStay == ~raced => left = {}

\* A monitor that is served shows credentials of the tenant that were in force at
\* some time of the request, though it may come from the cache or be a stale one
\* (get_account_provider_monitors against update_account_credentials); unless a
\* refresh outlasted a change of them, a change was not followed by its clearing, or
\* a connection was cut where a refresh reads them.
NewCredentialsShow ==
  ~late => \A c \in Client : req[c].step = "served" => req[c].cred \in req[c].showing

\* The amounts of a log of events add up.
Adds(sum, event) == sum + event.amount

Used(log) == FoldLeft(Adds, 0, log)

\* As long as a tenant keeps its credentials and its refreshes do not overlap, the
\* amounts of its monitor's events add up to what was spent between the first and
\* the last, or to less where the account was recharged in between; whatever was
\* lost, failed or was not asked for (_sync_provider_monitor_balance_delta).
AmountsAreOfUsage ==
  \A i \in Id :
    LET first == events[i][1]
        last == events[i][Len(events[i])]
        used == Used(events[i])
    IN  /\ ~overlapped /\ Len(events[i]) > 0
        /\ \A n \in DOMAIN events[i] : events[i][n].cred = first.cred
        => /\ first.spent + used <= last.spent
           /\ first.balance + first.spent = last.balance + last.spent
                => first.spent + used = last.spent
=============================================================================
