--------------------------- MODULE AccountsProofs ---------------------------
(* Theorems about Accounts, for every number of clients, keys, credentials   *)
(* and tenants, every lifetime and size of the caches, and every bound.      *)
EXTENDS Accounts, FiniteSetTheorems, WellFoundedInduction, TLAPS

Routed == {"admitted", "write", "clear", "config", "fetch", "latest", "record", "store"}

\* What a request has by the time it has come to its step, among tenants ids.
Fit(r, ids, now) ==
  /\ r.step = "lookup" => r.value \in Value /\ r.at <= now
  /\ r.step \in {"list", "insert"} => r.value \in Key
  /\ r.step = "insert" => r.id \in Id
  /\ r.step \in Routed => r.id \in ids
  /\ r.step = "admitted" => r.value \in Value /\ r.at <= now
  /\ r.step = "write" => r.value \in Key
  /\ r.step \in {"latest", "record"} => r.cred \in Cred /\ r.balance \in Nat

ReqInv == \A c \in Client : Fit(req[c], Tenants, clock)

\* The cache of keys, and who is about to add to it.
CacheInv ==
  /\ IsFiniteSet(keys)
  /\ \A e \in keys : e.id \in Tenants
  /\ \A c, d \in Client : req[c].step = "lookup" /\ req[d].step = "lookup" => c = d
  /\ \A c \in Client : req[c].step = "lookup" => \A e \in keys : e.value # req[c].value

TypeInv == TypeOK /\ ReqInv /\ CacheInv

-----------------------------------------------------------------------------
(* How requests go on.                                                       *)

LEMMA NoRequestFits ==
  NoRequest \in Request /\ \A ids, now : Fit(NoRequest, ids, now)
  BY AccountsAssumption DEF NoRequest, Request, Step, Fit, Routed

\* A step that changes one request, keeps the tenants and lets time pass.
LEMMA OneGoes ==
  ASSUME req \in [Client -> Request], ReqInv, NEW c \in Client, NEW r \in Request,
         Goes(c, r), Fit(r, Tenants', clock'), Tenants \subseteq Tenants', clock \in Nat, clock' \in Nat, clock <= clock'
  PROVE  req' \in [Client -> Request] /\ ReqInv'
  <1>1. req' \in [Client -> Request] /\ \A d \in Client : req'[d] = IF d = c THEN r ELSE req[d]
    BY DEF Goes
  <1>2. ASSUME NEW d \in Client, d # c
        PROVE  Fit(req'[d], Tenants', clock')
    <2>1. Fit(req[d], Tenants, clock) /\ req'[d] = req[d] /\ req[d] \in Request
      BY <1>1, <1>2 DEF ReqInv
    <2>2. req[d].at \in Nat
      BY <2>1 DEF Request
    <2> QED
      BY <2>1, <2>2 DEF Fit
  <1>3. Fit(req'[c], Tenants', clock')
    BY <1>1 DEF Fit
  <1> QED
    BY <1>1, <1>2, <1>3 DEF ReqInv

\* A row is written; refreshes and readers of the tenant are shown the new credentials.
LEMMA Upserting ==
  ASSUME TypeInv, NEW c \in Client, NEW r \in Request, NEW i \in Id, NEW k \in Key,
         NEW d \in Cred \cup {Absent}, Upsert(c, r, i, k, d), UNCHANGED clock, Fit(r, Tenants', clock')
  PROVE  /\ req' \in [Client -> Request] /\ ReqInv'
         /\ rows' \in [Id -> Tenant \cup {Absent}]
         /\ left' \subseteq [value : Key, id : Id, at : 0..MaxClock]
         /\ \A m, n \in Id : rows'[m] # Absent /\ rows'[n] # Absent /\ rows'[m].key = rows'[n].key => m = n
         /\ Tenants' = Tenants \cup {i}
         /\ \A e \in Client : e # c => req'[e].step = req[e].step /\ req'[e].value = req[e].value
         /\ req'[c] = r
  <1> USE AccountsAssumption
  <1>1. [key |-> k, cred |-> d] \in Tenant /\ [key |-> k, cred |-> d] # Absent
    BY DEF Tenant
  <1>2. rows' \in [Id -> Tenant \cup {Absent}] /\ Tenants' = Tenants \cup {i}
    BY <1>1 DEF TypeInv, TypeOK, Upsert, Tenants
  <1>3. left' \subseteq [value : Key, id : Id, at : 0..MaxClock]
    BY DEF TypeInv, TypeOK, Upsert, Tenant
  <1>4. ASSUME NEW m \in Id, NEW n \in Id,
               rows'[m] # Absent, rows'[n] # Absent, rows'[m].key = rows'[n].key
        PROVE  m = n
    BY <1>1, <1>4 DEF TypeInv, TypeOK, Upsert, Taken, Tenants
  <1>5. ASSUME NEW e \in Client, e # c
        PROVE  /\ req'[e] \in Request
               /\ req'[e].step = req[e].step /\ req'[e].value = req[e].value /\ req'[e].id = req[e].id
               /\ req'[e].at = req[e].at /\ req'[e].cred = req[e].cred /\ req'[e].balance = req[e].balance
    <2>1. req[e] \in Request
      BY DEF TypeInv, TypeOK
    <2>2. [req[e] EXCEPT !.showing = @ \cup {d}] \in Request
      BY <2>1 DEF Request
    <2>3. req'[e] = req[e] \/ req'[e] = [req[e] EXCEPT !.showing = @ \cup {d}]
      BY <1>5 DEF Upsert
    <2> QED
      BY <2>1, <2>2, <2>3 DEF Request
  <1>6. req'[c] = r /\ req' \in [Client -> Request]
    BY <1>5 DEF Upsert
  <1>7. ASSUME NEW e \in Client, e # c
        PROVE  Fit(req'[e], Tenants', clock')
    <2>1. Fit(req[e], Tenants, clock)
      BY DEF TypeInv, ReqInv
    <2> QED
      BY <1>2, <1>5, <1>7, <2>1 DEF Fit
  <1>8. ReqInv'
    BY <1>6, <1>7 DEF ReqInv, Fit
  <1> QED
    BY <1>2, <1>3, <1>4, <1>5, <1>6, <1>8

-----------------------------------------------------------------------------
(* Type correctness.                                                         *)

\* Only lookups and those who go to look up matter to the cache.
LEMMA CacheStays ==
  ASSUME CacheInv, UNCHANGED keys, Tenants \subseteq Tenants',
         \A c \in Client : req'[c].step = "lookup" => req[c].step = "lookup" /\ req'[c].value = req[c].value
  PROVE  CacheInv'
  BY DEF CacheInv

\* So it stays when a request goes on that does not look up then.
LEMMA CacheStaysAs ==
  ASSUME CacheInv, UNCHANGED keys, Tenants \subseteq Tenants', req \in [Client -> Request],
         NEW c \in Client, NEW r, Goes(c, r), r.step # "lookup"
  PROVE  CacheInv'
  <1>1. \A d \in Client : req'[d] = IF d = c THEN r ELSE req[d]
    BY DEF Goes
  <1> QED
    BY <1>1, CacheStays

LEMMA InForceType ==
  ASSUME TypeOK, NEW i \in Tenants
  PROVE  InForce(i) \subseteq Cred \cup {Absent}
  <1>1. rows[i] \in Tenant /\ rows[i].cred \in Cred \cup {Absent}
    BY DEF Tenants, TypeOK, Tenant
  <1>2. \A c \in Client : req[c].cred \in Cred \cup {Absent}
    BY DEF TypeOK, Request
  <1> QED
    BY <1>1, <1>2 DEF InForce

\* A request that is admitted.
LEMMA Admitting ==
  ASSUME TypeInv, NEW c \in Client, NEW r \in Request, NEW i \in Tenants, Admitted(c, r, i),
         r.value \in Value, r.at <= clock, UNCHANGED <<rows, clock>>
  PROVE  /\ req' \in [Client -> Request] /\ ReqInv'
         /\ \A d \in Client : d # c => req'[d] = req[d]
         /\ req'[c].step = "admitted" /\ req'[c].id = i
         /\ req'[c].value = r.value /\ req'[c].at = r.at
  <1> DEFINE shown == IF r.does = "monitors" THEN InForce(i) ELSE {}
             s == [r EXCEPT !.step = "admitted", !.id = i, !.showing = shown]
  <1>1. shown \subseteq Cred \cup {Absent} /\ i \in Id /\ Tenants' = Tenants
    BY InForceType DEF TypeInv, Tenants
  <1>2. Goes(c, s)
    BY DEF Admitted
  <1> HIDE DEF shown
  <1>3. s \in Request /\ s.step = "admitted" /\ s.id = i /\ s.value = r.value /\ s.at = r.at
    BY <1>1 DEF Request, Step
  <1> HIDE DEF s
  <1>4. Fit(s, Tenants', clock')
    BY <1>1, <1>3 DEF Fit
  <1>5. req \in [Client -> Request] /\ ReqInv /\ clock \in Nat
    BY AccountsAssumption DEF TypeInv, TypeOK
  <1>6. req' \in [Client -> Request] /\ ReqInv'
    BY <1>1, <1>2, <1>3, <1>4, <1>5, OneGoes
  <1> QED
    BY <1>2, <1>3, <1>5, <1>6 DEF Goes

\* A request goes on; whatever else changes has its type.
LEMMA Going ==
  ASSUME TypeInv, NEW c \in Client, NEW r \in Request, Goes(c, r), Fit(r, Tenants, clock),
         r.step # "lookup", UNCHANGED <<clock, rows, keys, balance, spent, left>>,
         monitor' \in [Id -> Cached \cup {Absent}], events' \in [Id -> Seq(Event)],
         refreshes' \in Nat, requests' \in 0..MaxRequests, mishaps' \in 0..MaxMishaps,
         raced' \in BOOLEAN, overlapped' \in BOOLEAN, late' \in BOOLEAN
  PROVE  TypeInv'
  <1>1. Tenants' = Tenants
    BY DEF Tenants
  <1>2. clock \in Nat /\ req \in [Client -> Request]
    BY AccountsAssumption DEF TypeInv, TypeOK
  <1>3. req' \in [Client -> Request] /\ ReqInv'
    BY <1>1, <1>2, OneGoes DEF TypeInv
  <1>4. CacheInv'
    BY <1>1, <1>2, CacheStaysAs DEF TypeInv
  <1> QED
    BY <1>3, <1>4 DEF TypeInv, TypeOK

\* A request that has ended, or was answered, has nothing left to fit.
LEMMA RestFits ==
  ASSUME NEW r, r.step \in {"idle", "served"}, NEW ids, NEW now
  PROVE  Fit(r, ids, now)
  BY DEF Fit, Routed

LEMMA Bounded ==
  ASSUME TypeInv, UNCHANGED bounds \/ Mishap
  PROVE  requests' \in 0..MaxRequests /\ mishaps' \in 0..MaxMishaps
  BY AccountsAssumption DEF TypeInv, TypeOK, bounds, Mishap

LEMMA Serving ==
  ASSUME TypeInv, NEW c \in Client, NEW p \in Payload, Serves(c, p)
  PROVE  \E r \in Request : Goes(c, r) /\ r.step = "served"
  <1> DEFINE r == [NoRequest EXCEPT !.step = "served", !.cred = p.cred, !.showing = req[c].showing]
  <1>1. req[c].showing \subseteq Cred \cup {Absent}
    BY DEF TypeInv, TypeOK, Request
  <1>2. p.cred \in Cred \cup {Absent}
    BY DEF Payload
  <1>3. Goes(c, r)
    BY DEF Serves
  <1>4. r \in Request /\ r.step = "served"
    BY <1>1, <1>2, NoRequestFits DEF Request, Step, NoRequest
  <1> QED
    BY <1>3, <1>4

LEMMA Failing ==
  ASSUME TypeInv, NEW c \in Client, Fails(c)
  PROVE  Mishap /\ \E r \in Request : Goes(c, r) /\ r.step \in {"idle", "served"}
  <1>1. CASE Ends(c)
    BY <1>1, NoRequestFits DEF Ends, Fails, NoRequest
  <1>2. CASE req[c].held # Absent /\ Serves(c, req[c].held)
    <2>1. req[c].held \in Payload
      BY <1>2 DEF TypeInv, TypeOK, Request
    <2> QED
      BY <1>2, <2>1, Serving DEF Fails
  <1> QED
    BY <1>1, <1>2 DEF Fails

\* A request that ends, or is answered, without touching a row, a key or an account.
LEMMA Resting ==
  ASSUME TypeInv, NEW c \in Client, NEW r \in Request, Goes(c, r), r.step \in {"idle", "served"},
         UNCHANGED bounds \/ Mishap,
         UNCHANGED <<clock, rows, keys, balance, spent, left, refreshes>>,
         monitor' \in [Id -> Cached \cup {Absent}], events' \in [Id -> Seq(Event)],
         raced' \in BOOLEAN, overlapped' \in BOOLEAN, late' \in BOOLEAN
  PROVE  TypeInv'
  <1>1. requests' \in 0..MaxRequests /\ mishaps' \in 0..MaxMishaps
    BY Bounded
  <1>2. Fit(r, Tenants, clock)
    BY RestFits
  <1>3. refreshes' \in Nat
    BY DEF TypeInv, TypeOK
  <1> QED
    BY <1>1, <1>2, <1>3, Going

LEMMA AskType ==
  ASSUME TypeInv, NEW c \in Client, NEW what \in {"credentials", "monitors"}, NEW v \in Value,
         Ask(c, what, v)
  PROVE  TypeInv'
  <1> DEFINE r == [NoRequest EXCEPT !.does = what, !.value = v, !.at = clock]
             found == {e \in keys : e.value = v}
  <1>1. clock \in Nat /\ keys \subseteq Entry /\ IsFiniteSet(keys) /\ req \in [Client -> Request]
        /\ \A e \in keys : e.id \in Tenants
    BY AccountsAssumption DEF TypeInv, TypeOK, CacheInv
  <1>2. r \in Request /\ r.value = v /\ r.at = clock
    BY <1>1, NoRequestFits DEF Request, NoRequest
  <1>3. /\ Tenants' = Tenants /\ requests' \in 0..MaxRequests
        /\ UNCHANGED <<clock, rows, monitor, events, balance, spent, refreshes, mishaps,
                       left, raced, overlapped, late>>
    BY AccountsAssumption DEF Ask, Asks, Tenants, TypeInv, TypeOK, database, provider, history
  <1>4. CASE \E e \in found : Hit(e) /\ Admitted(c, r, e.id) /\ UNCHANGED keys
    <2> HIDE DEF r
    <2>1. PICK e \in found : Admitted(c, r, e.id) /\ UNCHANGED keys
      BY <1>4
    <2>2. /\ req' \in [Client -> Request] /\ ReqInv'
          /\ \A d \in Client : d # c => req'[d] = req[d]
          /\ req'[c].step = "admitted"
      BY <1>1, <1>2, <1>3, <2>1, Admitting
    <2>3. CacheInv'
      BY <1>3, <2>1, <2>2, CacheStays DEF TypeInv
    <2> QED
      BY <1>3, <2>1, <2>2, <2>3 DEF TypeInv, TypeOK
  <1>5. CASE keys' = keys \ found /\ Goes(c, [r EXCEPT !.step = "lookup"])
    <2> DEFINE s == [r EXCEPT !.step = "lookup"]
    <2>1. s \in Request /\ s.step = "lookup" /\ s.value = v /\ s.at = clock /\ Goes(c, s)
      BY <1>2, <1>5 DEF Request, Step
    <2> HIDE DEF s, r
    <2>2. Fit(s, Tenants', clock')
      BY <1>1, <1>3, <2>1 DEF Fit, Routed
    <2>3. req' \in [Client -> Request] /\ ReqInv'
      BY <1>1, <1>3, <2>1, <2>2, OneGoes DEF TypeInv
    <2>4. IsFiniteSet(keys') /\ Cardinality(keys') <= Cardinality(keys)
          /\ Cardinality(keys) \in Nat /\ Cardinality(keys') \in Nat
      <3>1. keys' \subseteq keys
        BY <1>5
      <3>2. IsFiniteSet(keys') /\ Cardinality(keys') <= Cardinality(keys)
        BY <1>1, <3>1, FS_Subset
      <3> QED
        BY <1>1, <3>2, FS_CardinalityType
    <2>5. req'[c] = s /\ \A d \in Client : d # c => req[d].step # "lookup" /\ req'[d] = req[d]
      BY <1>1, <2>1 DEF Ask, LoopIsFree, Goes
    <2>6. CacheInv'
      BY <1>1, <1>3, <1>5, <2>1, <2>4, <2>5 DEF CacheInv
    <2>7. keys' \subseteq Entry /\ Cardinality(keys') <= KeyCacheSize
      BY <1>1, <1>5, <2>4, AccountsAssumption DEF TypeInv, TypeOK
    <2>8. \A e, f \in keys' : e.value = f.value => e = f
      BY <1>5 DEF TypeInv, TypeOK
    <2> QED
      BY <1>3, <2>3, <2>6, <2>7, <2>8 DEF TypeInv, TypeOK
  <1> QED
    BY <1>4, <1>5 DEF Ask

LEMMA CreateType ==
  ASSUME TypeInv, NEW c \in Client, NEW k \in Key, Create(c, k)
  PROVE  TypeInv'
  <1> DEFINE r == [NoRequest EXCEPT !.step = "list", !.does = "create", !.value = k]
  <1>1. r \in Request /\ Goes(c, r) /\ r.step = "list" /\ r.value = k
    BY NoRequestFits DEF Create, Request, Step, Value, NoRequest
  <1>2. Fit(r, Tenants, clock)
    BY <1>1 DEF Fit, Routed
  <1>3. /\ requests' \in 0..MaxRequests /\ mishaps' \in 0..MaxMishaps
        /\ UNCHANGED <<clock, keys, monitor, rows, events, balance, spent, refreshes,
                       left, raced, overlapped, late>>
    BY AccountsAssumption DEF Create, Asks, TypeInv, TypeOK, api, database, provider, history
  <1> HIDE DEF r
  <1> QED
    BY <1>1, <1>2, <1>3, Going DEF TypeInv, TypeOK

\* The identifier of a new tenant is one.
LEMMA GeneratedIdType ==
  ASSUME NEW existing \in {Tenants, {}}, existing # Id
  PROVE  GenerateId(existing) \in Id
  <1>1. Tenants \subseteq Id /\ 1 \in Id /\ Id \subseteq Nat
    BY AccountsAssumption DEF Id, Tenants
  <1> DEFINE S == Id \ existing
  <1>2. S \subseteq Nat /\ S # {}
    <2>1. existing \subseteq Id
      BY <1>1
    <2> QED
      BY <1>1, <2>1
  <1> HIDE DEF S
  <1>3. \E i \in S : \A j \in S : <<j, i>> \notin OpToRel(<, Nat)
    BY <1>2, NatLessThanWellFounded, WFMin
  <1>4. \A i, j \in S : <<j, i>> \notin OpToRel(<, Nat) => i <= j
    BY <1>2 DEF OpToRel
  <1> QED
    BY <1>3, <1>4 DEF S, GenerateId

LEMMA ListType ==
  ASSUME TypeInv, NEW c \in Client, List(c)
  PROVE  TypeInv'
  <1>1. /\ UNCHANGED <<clock, keys, monitor, rows, events, balance, spent, refreshes,
                       left, overlapped, late>>
        /\ (UNCHANGED bounds \/ Mishap) /\ req[c] \in Request
    BY DEF List, api, database, provider, TypeInv, TypeOK
  <1>2. CASE \E i \in Id : Goes(c, [req[c] EXCEPT !.step = "insert", !.id = i])
                           /\ raced' \in BOOLEAN
    <2>1. PICK i \in Id : Goes(c, [req[c] EXCEPT !.step = "insert", !.id = i]) /\ raced' \in BOOLEAN
      BY <1>2
    <2> DEFINE r == [req[c] EXCEPT !.step = "insert", !.id = i]
    <2>2. r \in Request /\ r.step = "insert" /\ r.id = i /\ r.value = req[c].value
      BY <1>1 DEF Request, Step
    <2>3. req[c].value \in Key
      BY DEF List, TypeInv, ReqInv, Fit
    <2>4. Goes(c, r)
      BY <2>1
    <2> HIDE DEF r
    <2>5. Fit(r, Tenants, clock)
      BY <2>2, <2>3 DEF Fit, Routed
    <2> QED
      BY <1>1, <2>1, <2>2, <2>4, <2>5, Bounded, Going DEF TypeInv, TypeOK
  <1>3. CASE Ends(c) /\ UNCHANGED raced
    BY <1>1, <1>3, NoRequestFits, Resting DEF Ends, NoRequest, TypeInv, TypeOK
  <1> QED
    BY <1>2, <1>3, GeneratedIdType DEF List, TypeInv, TypeOK

\* An entry is added, in the place of another if the cache is full.
LEMMA Remembering ==
  ASSUME TypeInv, NEW e \in Entry, \A f \in keys : f.value # e.value, Remember(e)
  PROVE  /\ e \in keys' /\ keys' \subseteq keys \cup {e} /\ keys' \subseteq Entry
         /\ IsFiniteSet(keys') /\ Cardinality(keys') <= KeyCacheSize
         /\ \A f, g \in keys' : f.value = g.value => f = g
  <1>1. IsFiniteSet(keys) /\ keys \subseteq Entry /\ Cardinality(keys) <= KeyCacheSize
        /\ KeyCacheSize \in Nat
    BY AccountsAssumption DEF TypeInv, TypeOK, CacheInv
  <1>2. Cardinality(keys) \in Nat /\ e \notin keys
    BY <1>1, FS_CardinalityType
  <1>3. CASE ~(Cardinality(keys) >= KeyCacheSize)
    <2>1. keys' = keys \cup {e}
      BY <1>3 DEF Remember
    <2>2. IsFiniteSet(keys \cup {e}) /\ Cardinality(keys \cup {e}) = Cardinality(keys) + 1
      BY <1>1, <1>2, FS_AddElement
    <2> QED
      BY <1>1, <1>2, <1>3, <2>1, <2>2 DEF TypeInv, TypeOK
  <1>4. CASE Cardinality(keys) >= KeyCacheSize
    <2>1. PICK f \in keys : keys' = (keys \ {f}) \cup {e}
      BY <1>4 DEF Remember
    <2> DEFINE others == keys \ {f}
    <2>2. IsFiniteSet(others) /\ Cardinality(others) = Cardinality(keys) - 1
      BY <1>1, <2>1, FS_RemoveElement
    <2>3. keys' = others \cup {e} /\ others \subseteq keys /\ e \notin others
      BY <1>2, <2>1
    <2> HIDE DEF others
    <2>4. IsFiniteSet(others \cup {e}) /\ Cardinality(others \cup {e}) = Cardinality(others) + 1
      BY <2>2, <2>3, FS_AddElement
    <2> QED
      BY <1>1, <1>2, <2>2, <2>3, <2>4 DEF TypeInv, TypeOK
  <1> QED
    BY <1>3, <1>4

LEMMA LookupType ==
  ASSUME TypeInv, NEW c \in Client, Lookup(c)
  PROVE  TypeInv'
  <1>1. /\ UNCHANGED <<clock, monitor, rows, events, balance, spent, refreshes,
                       left, raced, overlapped, late>>
        /\ UNCHANGED bounds \/ Mishap
    BY DEF Lookup, database, provider, history
  <1>2. /\ req[c] \in Request /\ req \in [Client -> Request] /\ req[c].value \in Value
        /\ req[c].at <= clock /\ req[c].at \in Nat /\ req[c].step = "lookup"
        /\ \A e \in keys : e.value # req[c].value
        /\ \A d \in Client : d # c => req[d].step # "lookup"
    BY DEF TypeInv, TypeOK, ReqInv, CacheInv, Fit, Lookup, Request
  <1>3. CASE /\ \E i \in Matches(req[c].value) :
                  /\ Admitted(c, req[c], i)
                  /\ Remember([value |-> req[c].value, id |-> i, until |-> req[c].at + KeyTTL])
    <2>1. PICK i \in Matches(req[c].value) :
            /\ Admitted(c, req[c], i)
            /\ Remember([value |-> req[c].value, id |-> i, until |-> req[c].at + KeyTTL])
      BY <1>3
    <2> DEFINE e == [value |-> req[c].value, id |-> i, until |-> req[c].at + KeyTTL]
    <2>2. i \in Tenants /\ i \in Id
      BY DEF Matches, Tenants
    <2>3. e \in Entry /\ e.id \in Tenants /\ e.value = req[c].value /\ Remember(e)
      BY <1>2, <2>1, <2>2, AccountsAssumption DEF Entry
    <2> HIDE DEF e
    <2>4. /\ keys' \subseteq keys \cup {e} /\ keys' \subseteq Entry
          /\ IsFiniteSet(keys') /\ Cardinality(keys') <= KeyCacheSize
          /\ \A f, g \in keys' : f.value = g.value => f = g
      BY <1>2, <2>3, Remembering
    <2>5. /\ req' \in [Client -> Request] /\ ReqInv'
          /\ \A d \in Client : d # c => req'[d] = req[d]
          /\ req'[c].step = "admitted"
      BY <1>1, <1>2, <2>1, <2>2, Admitting
    <2>6. Tenants' = Tenants /\ \A f \in keys' : f.id \in Tenants
      BY <1>1, <2>3, <2>4 DEF Tenants, TypeInv, CacheInv
    <2>7. CacheInv'
      BY <1>2, <2>4, <2>5, <2>6 DEF CacheInv
    <2> QED
      BY <1>1, <2>4, <2>5, <2>7, Bounded DEF TypeInv, TypeOK
  <1>4. CASE Ends(c) /\ UNCHANGED keys
    BY <1>1, <1>4, NoRequestFits, Resting DEF Ends, NoRequest, TypeInv, TypeOK
  <1> QED
    BY <1>3, <1>4 DEF Lookup

\* A row is written by a request that goes on, or ends, without looking a key up.
LEMMA UpsertType ==
  ASSUME TypeInv, NEW c \in Client, NEW r \in Request, NEW i \in Id, NEW k \in Key,
         NEW d \in Cred \cup {Absent}, Upsert(c, r, i, k, d), r.step # "lookup",
         Fit(r, Tenants \cup {i}, clock), UNCHANGED bounds \/ Mishap,
         UNCHANGED <<clock, keys, monitor, events, balance, spent, refreshes>>,
         raced' \in BOOLEAN, overlapped' \in BOOLEAN, late' \in BOOLEAN
  PROVE  TypeInv'
  <1>1. Tenants' = Tenants \cup {i}
    <2>1. [key |-> k, cred |-> d] \in Tenant /\ [key |-> k, cred |-> d] # Absent
      BY AccountsAssumption DEF Tenant
    <2> QED
      BY <2>1 DEF TypeInv, TypeOK, Upsert, Tenants
  <1>2. /\ req' \in [Client -> Request] /\ ReqInv'
        /\ rows' \in [Id -> Tenant \cup {Absent}]
        /\ left' \subseteq [value : Key, id : Id, at : 0..MaxClock]
        /\ \A m, n \in Id : rows'[m] # Absent /\ rows'[n] # Absent /\ rows'[m].key = rows'[n].key => m = n
        /\ \A e \in Client : e # c => req'[e].step = req[e].step /\ req'[e].value = req[e].value
        /\ req'[c] = r
    BY <1>1, Upserting
  <1>3. CacheInv'
    BY <1>1, <1>2, CacheStays DEF TypeInv
  <1> QED
    BY <1>2, <1>3, Bounded DEF TypeInv, TypeOK

LEMMA InsertType ==
  ASSUME TypeInv, NEW c \in Client, Insert(c)
  PROVE  TypeInv'
  <1>1. /\ UNCHANGED <<clock, keys, monitor, events, balance, spent, refreshes, raced, overlapped>>
        /\ late' \in BOOLEAN /\ raced' \in BOOLEAN /\ overlapped' \in BOOLEAN
        /\ UNCHANGED bounds \/ Mishap
        /\ req[c].id \in Id /\ req[c].value \in Key
    BY DEF Insert, api, provider, TypeInv, TypeOK, ReqInv, Fit
  <1>2. CASE \E d \in Cred \cup {Absent} : Upsert(c, NoRequest, req[c].id, req[c].value, d)
    BY <1>1, <1>2, NoRequestFits, UpsertType DEF NoRequest
  <1>3. CASE Ends(c) /\ UNCHANGED <<rows, left>>
    BY <1>1, <1>3, NoRequestFits, Resting DEF Ends, NoRequest, TypeInv, TypeOK
  <1> QED
    BY <1>2, <1>3 DEF Insert

LEMMA ReadTenantType ==
  ASSUME TypeInv, NEW c \in Client, ReadTenant(c)
  PROVE  TypeInv'
  <1>1. /\ UNCHANGED <<clock, keys, monitor, rows, events, balance, spent, refreshes,
                       left, raced, overlapped, late>>
        /\ UNCHANGED bounds \/ Mishap
        /\ req[c].id \in Tenants /\ req[c] \in Request
    BY DEF ReadTenant, api, database, provider, history, TypeInv, TypeOK, ReqInv, Fit, Routed
  <1>2. CASE Goes(c, [req[c] EXCEPT !.step = "write", !.at = 0, !.value = rows[req[c].id].key])
    <2> DEFINE r == [req[c] EXCEPT !.step = "write", !.at = 0, !.value = rows[req[c].id].key]
    <2>1. rows[req[c].id].key \in Key
      BY <1>1 DEF TypeInv, TypeOK, Tenants, Tenant
    <2>2. /\ r \in Request /\ r.step = "write" /\ r.value \in Key /\ r.id \in Tenants
      BY <1>1, <2>1 DEF Request, Step, Value
    <2>3. Goes(c, r)
      BY <1>2
    <2> HIDE DEF r
    <2>4. Fit(r, Tenants, clock)
      BY <2>2 DEF Fit
    <2> QED
      BY <1>1, <2>2, <2>3, <2>4, Bounded, Going DEF TypeInv, TypeOK
  <1>3. CASE Ends(c)
    BY <1>1, <1>3, NoRequestFits, Resting DEF Ends, NoRequest, TypeInv, TypeOK
  <1> QED
    BY <1>2, <1>3 DEF ReadTenant

LEMMA WriteTenantType ==
  ASSUME TypeInv, NEW c \in Client, WriteTenant(c)
  PROVE  TypeInv'
  <1> DEFINE i == req[c].id
             clears == [req[c] EXCEPT !.step = "clear", !.value = Absent, !.cred = rows[i].cred]
  <1>1. /\ UNCHANGED <<clock, keys, monitor, events, balance, spent, refreshes, raced, overlapped>>
        /\ late' \in BOOLEAN /\ raced' \in BOOLEAN /\ overlapped' \in BOOLEAN
        /\ UNCHANGED bounds \/ Mishap
        /\ i \in Tenants /\ i \in Id /\ req[c].value \in Key /\ req[c] \in Request
    BY DEF WriteTenant, api, provider, TypeInv, TypeOK, ReqInv, Fit, Routed, Tenants
  <1>2. rows[i].cred \in Cred \cup {Absent}
    BY <1>1 DEF TypeInv, TypeOK, Tenants, Tenant
  <1>3. clears \in Request /\ clears.step = "clear" /\ clears.id = i
    BY <1>1, <1>2 DEF Request, Step
  <1>4. \/ \E d \in Cred \cup {Absent} : Upsert(c, clears, i, req[c].value, d)
        \/ \E d \in Cred \cup {Absent} : Upsert(c, NoRequest, i, req[c].value, d)
        \/ (Goes(c, clears) \/ Ends(c)) /\ UNCHANGED <<rows, left>>
    BY DEF WriteTenant
  <1> HIDE DEF clears, i
  <1>5. Fit(clears, Tenants, clock) /\ Fit(clears, Tenants \cup {i}, clock)
    BY <1>1, <1>3 DEF Fit
  <1>6. CASE \E d \in Cred \cup {Absent} : Upsert(c, clears, i, req[c].value, d)
    BY <1>1, <1>3, <1>5, <1>6, UpsertType
  <1>7. CASE \E d \in Cred \cup {Absent} : Upsert(c, NoRequest, i, req[c].value, d)
    BY <1>1, <1>7, NoRequestFits, UpsertType DEF NoRequest
  <1>8. CASE Goes(c, clears) /\ UNCHANGED <<rows, left>>
    BY <1>1, <1>3, <1>5, <1>8, Bounded, Going DEF TypeInv, TypeOK
  <1>9. CASE Ends(c) /\ UNCHANGED <<rows, left>>
    BY <1>1, <1>9, NoRequestFits, Resting DEF Ends, NoRequest, TypeInv, TypeOK
  <1> QED
    BY <1>4, <1>6, <1>7, <1>8, <1>9

LEMMA ClearMonitorType ==
  ASSUME TypeInv, NEW c \in Client, ClearMonitor(c)
  PROVE  TypeInv'
  <1>1. /\ UNCHANGED <<clock, keys, rows, events, balance, spent, refreshes,
                       left, raced, overlapped, late, bounds>>
        /\ Ends(c) /\ monitor' \in [Id -> Cached \cup {Absent}]
    BY DEF ClearMonitor, Cleared, database, provider, history, TypeInv, TypeOK
  <1> QED
    BY <1>1, NoRequestFits, Resting DEF Ends, NoRequest, TypeInv, TypeOK

LEMMA GetMonitorType ==
  ASSUME TypeInv, NEW c \in Client, GetMonitor(c)
  PROVE  TypeInv'
  <1> DEFINE m == monitor[req[c].id]
             stale == IF m # Absent /\ m.stale_until > clock THEN m.payload ELSE Absent
             r == [req[c] EXCEPT !.step = "config", !.value = Absent, !.at = 0, !.held = stale]
  <1>1. /\ UNCHANGED <<clock, keys, monitor, rows, events, balance, spent, refreshes,
                       left, raced, overlapped, late, bounds>>
        /\ req[c].id \in Tenants /\ req[c].id \in Id /\ req[c] \in Request
    BY DEF GetMonitor, api, database, provider, history, TypeInv, TypeOK, ReqInv, Fit, Routed, Tenants
  <1>2. m \in Cached \cup {Absent}
    BY <1>1 DEF TypeInv, TypeOK
  <1>3. m # Absent => m.payload \in Payload
    BY <1>2 DEF Cached
  <1>4. (m # Absent /\ Serves(c, m.payload)) \/ Goes(c, r)
    BY DEF GetMonitor
  <1>5. CASE m # Absent /\ Serves(c, m.payload)
    BY <1>1, <1>3, <1>5, Serving, Resting DEF TypeInv, TypeOK
  <1>6. CASE Goes(c, r)
    <2>1. stale \in Payload \cup {Absent}
      BY <1>3
    <2> HIDE DEF stale
    <2>2. r \in Request /\ r.step = "config" /\ r.id = req[c].id
      BY <1>1, <2>1 DEF Request, Step
    <2> HIDE DEF r
    <2>3. Fit(r, Tenants, clock)
      BY <1>1, <2>2 DEF Fit
    <2> QED
      BY <1>1, <1>6, <2>2, <2>3, Bounded, Going DEF TypeInv, TypeOK
  <1> QED
    BY <1>4, <1>5, <1>6

LEMMA ReadConfigType ==
  ASSUME TypeInv, NEW c \in Client, ReadConfig(c)
  PROVE  TypeInv'
  <1>0. /\ req[c].id \in Tenants /\ req[c] \in Request /\ refreshes \in Nat /\ refreshes + 1 \in Nat
        /\ overlapped \in BOOLEAN /\ late \in BOOLEAN
    BY DEF ReadConfig, TypeInv, TypeOK, ReqInv, Fit, Routed
  <1>1. /\ UNCHANGED <<clock, keys, monitor, rows, events, balance, spent, left, raced>>
        /\ UNCHANGED bounds \/ Mishap
        /\ refreshes' \in Nat /\ overlapped' \in BOOLEAN /\ late' \in BOOLEAN
    BY <1>0 DEF ReadConfig, api, database, provider
  <1>2. ASSUME NEW d \in Cred \cup {Absent},
               Goes(c, [req[c] EXCEPT !.step = "fetch", !.cred = d, !.at = refreshes + 1])
        PROVE  TypeInv'
    <2> DEFINE r == [req[c] EXCEPT !.step = "fetch", !.cred = d, !.at = refreshes + 1]
    <2>1. r \in Request /\ r.step = "fetch" /\ r.id = req[c].id
      BY <1>0 DEF Request, Step
    <2>2. Goes(c, r)
      BY <1>2
    <2> HIDE DEF r
    <2>3. Fit(r, Tenants, clock)
      BY <1>0, <2>1 DEF Fit
    <2> QED
      BY <1>1, <2>1, <2>2, <2>3, Bounded, Going DEF TypeInv, TypeOK
  <1>3. CASE Ends(c) /\ UNCHANGED refreshes
    BY <1>1, <1>3, NoRequestFits, Resting DEF Ends, NoRequest, TypeInv, TypeOK
  <1>4. rows[req[c].id].cred \in Cred \cup {Absent}
    BY <1>0 DEF TypeInv, TypeOK, Tenants, Tenant
  <1> QED
    BY <1>2, <1>3, <1>4 DEF ReadConfig

\* The steps of a refresh change neither rows nor keys nor the accounts.
RefreshStep(c) ==
  /\ UNCHANGED <<clock, keys, rows, balance, spent, refreshes, left, raced, overlapped, late>>
  /\ UNCHANGED bounds \/ Mishap
  /\ req[c].id \in Tenants /\ req[c] \in Request

\* A refresh goes on.
LEMMA Refreshed ==
  ASSUME TypeInv, NEW c \in Client, RefreshStep(c), NEW r \in Request, Goes(c, r),
         r.id = req[c].id, r.step \in {"latest", "record", "store"},
         r.step # "store" => r.cred \in Cred /\ r.balance \in Nat,
         monitor' \in [Id -> Cached \cup {Absent}], events' \in [Id -> Seq(Event)]
  PROVE  TypeInv'
  <1>1. Fit(r, Tenants, clock)
    BY DEF Fit, RefreshStep
  <1> QED
    BY <1>1, Bounded, Going DEF RefreshStep, TypeInv, TypeOK

LEMMA RefreshEnds ==
  ASSUME TypeInv, NEW c \in Client, RefreshStep(c), Fails(c),
         monitor' \in [Id -> Cached \cup {Absent}], events' \in [Id -> Seq(Event)]
  PROVE  TypeInv'
  BY Failing, Resting DEF RefreshStep, TypeInv, TypeOK

LEMMA FetchBalanceType ==
  ASSUME TypeInv, NEW c \in Client, FetchBalance(c)
  PROVE  TypeInv'
  <1> DEFINE d == req[c].cred
             asked == [req[c] EXCEPT !.step = "latest", !.balance = balance[d], !.spent = spent[d]]
             stores == [req[c] EXCEPT !.step = "store"]
  <1>0. /\ req[c].id \in Tenants /\ req[c] \in Request
        /\ monitor \in [Id -> Cached \cup {Absent}] /\ events \in [Id -> Seq(Event)]
    BY DEF FetchBalance, TypeInv, TypeOK, ReqInv, Fit, Routed
  <1>1. RefreshStep(c) /\ UNCHANGED <<monitor, events>>
    BY <1>0 DEF FetchBalance, Fails, RefreshStep, api, database, provider, history
  <1>2. d \in Cred \cup {Absent}
    BY <1>0, <1>1 DEF RefreshStep, Request
  <1>3. CASE d # Absent /\ Goes(c, asked)
    <2>1. balance[d] \in Nat /\ spent[d] \in Nat
      BY <1>2, <1>3, AccountsAssumption DEF TypeInv, TypeOK
    <2>2. /\ asked \in Request /\ asked.step = "latest" /\ asked.id = req[c].id
          /\ asked.cred \in Cred /\ asked.balance \in Nat
      BY <1>0, <1>1, <1>2, <1>3, <2>1 DEF RefreshStep, Request, Step
    <2> HIDE DEF asked
    <2> QED
      BY <1>0, <1>1, <1>3, <2>2, Refreshed
  <1>4. CASE Goes(c, stores)
    <2>1. stores \in Request /\ stores.step = "store" /\ stores.id = req[c].id
      BY <1>0, <1>1 DEF RefreshStep, Request, Step
    <2> HIDE DEF stores
    <2> QED
      BY <1>0, <1>1, <1>4, <2>1, Refreshed
  <1>5. CASE Fails(c)
    BY <1>0, <1>1, <1>5, RefreshEnds
  <1> QED
    BY <1>3, <1>4, <1>5 DEF FetchBalance

LEMMA ReadLatestType ==
  ASSUME TypeInv, NEW c \in Client, ReadLatest(c)
  PROVE  TypeInv'
  <1> DEFINE i == req[c].id
             seen == {events[i][n] : n \in DOMAIN events[i]}
  <1>0. /\ req[c].id \in Tenants /\ req[c] \in Request
        /\ req[c].cred \in Cred /\ req[c].balance \in Nat
        /\ monitor \in [Id -> Cached \cup {Absent}] /\ events \in [Id -> Seq(Event)]
    BY DEF ReadLatest, TypeInv, TypeOK, ReqInv, Fit, Routed
  <1>1. RefreshStep(c) /\ UNCHANGED <<monitor, events>>
    BY <1>0 DEF ReadLatest, Fails, RefreshStep, api, database, provider, history
  <1>2. seen \subseteq Event
    <2>1. events[i] \in Seq(Event)
      BY <1>0, <1>1 DEF RefreshStep, Tenants
    <2> QED
      BY <2>1
  <1>3. CASE Goes(c, [req[c] EXCEPT !.step = "record"])
    <2> DEFINE r == [req[c] EXCEPT !.step = "record"]
    <2>1. /\ r \in Request /\ r.step = "record" /\ r.id = req[c].id
          /\ r.cred \in Cred /\ r.balance \in Nat
      BY <1>0, <1>1 DEF RefreshStep, Request, Step
    <2>2. Goes(c, r)
      BY <1>3
    <2> HIDE DEF r
    <2> QED
      BY <1>0, <1>1, <2>1, <2>2, Refreshed
  <1>4. ASSUME NEW e \in seen, Goes(c, [req[c] EXCEPT !.step = "record", !.latest = e.balance])
        PROVE  TypeInv'
    <2> DEFINE r == [req[c] EXCEPT !.step = "record", !.latest = e.balance]
    <2>1. e.balance \in Nat
      BY <1>2 DEF Event
    <2>2. /\ r \in Request /\ r.step = "record" /\ r.id = req[c].id
          /\ r.cred \in Cred /\ r.balance \in Nat
      BY <1>0, <1>1, <2>1 DEF RefreshStep, Request, Step
    <2>3. Goes(c, r)
      BY <1>4
    <2> HIDE DEF r
    <2> QED
      BY <1>0, <1>1, <2>2, <2>3, Refreshed
  <1>5. CASE Fails(c)
    BY <1>0, <1>1, <1>5, RefreshEnds
  <1> QED
    BY <1>3, <1>4, <1>5 DEF ReadLatest

LEMMA RecordUsageType ==
  ASSUME TypeInv, NEW c \in Client, RecordUsage(c)
  PROVE  TypeInv'
  <1> DEFINE r == req[c]
             event == [occurred_at |-> r.at, cred |-> r.cred, balance |-> r.balance,
                       amount |-> Delta(r.latest, r.balance), spent |-> r.spent]
             stores == [r EXCEPT !.step = "store"]
  <1>0. /\ r.id \in Tenants /\ r \in Request /\ r.cred \in Cred /\ r.balance \in Nat /\ r.id \in Id
        /\ monitor \in [Id -> Cached \cup {Absent}]
    BY DEF RecordUsage, Tenants, TypeInv, TypeOK, ReqInv, Fit, Routed
  <1>1. RefreshStep(c) /\ UNCHANGED monitor
    BY <1>0 DEF RecordUsage, Fails, RefreshStep, api, provider, history
  <1>2. event \in Event
    <2>1. r.at \in Nat /\ r.spent \in Nat /\ r.latest \in Nat \cup {Absent}
      BY <1>0, <1>1 DEF RefreshStep, Request
    <2>2. Delta(r.latest, r.balance) \in Nat
      BY <1>0, <1>1, <2>1 DEF Delta
    <2> QED
      BY <1>0, <1>1, <2>1, <2>2 DEF Event
  <1>3. events' = [events EXCEPT ![r.id] = Append(@, event)] \/ UNCHANGED events
    BY DEF RecordUsage
  <1> HIDE DEF event
  <1>4. events' \in [Id -> Seq(Event)]
    <2>1. events \in [Id -> Seq(Event)] /\ Append(events[r.id], event) \in Seq(Event)
      BY <1>0, <1>1, <1>2 DEF TypeInv, TypeOK
    <2> QED
      BY <1>0, <1>1, <1>3, <2>1
  <1>5. CASE Goes(c, stores)
    <2>1. stores \in Request /\ stores.step = "store" /\ stores.id = req[c].id
      BY <1>0, <1>1 DEF RefreshStep, Request, Step
    <2> HIDE DEF stores
    <2> QED
      BY <1>0, <1>1, <1>4, <1>5, <2>1, Refreshed
  <1>6. CASE Fails(c)
    BY <1>0, <1>1, <1>4, <1>6, RefreshEnds
  <1> QED
    BY <1>5, <1>6 DEF RecordUsage

LEMMA StoreMonitorType ==
  ASSUME TypeInv, NEW c \in Client, StoreMonitor(c)
  PROVE  TypeInv'
  <1> DEFINE p == [cred |-> req[c].cred, balance |-> req[c].balance]
             m == [payload |-> p, expires_at |-> clock + MonitorTTL,
                   stale_until |-> clock + MonitorStaleTTL]
  <1>0. /\ req[c].id \in Tenants /\ req[c] \in Request /\ req[c].id \in Id
        /\ events \in [Id -> Seq(Event)]
    BY DEF StoreMonitor, Tenants, TypeInv, TypeOK, ReqInv, Fit, Routed
  <1>1. RefreshStep(c) /\ UNCHANGED events
    BY <1>0 DEF StoreMonitor, Fails, RefreshStep, database, provider, history
  <1>2. p \in Payload
    BY <1>0, <1>1 DEF RefreshStep, Request, Payload
  <1>3. clock + MonitorTTL \in Nat /\ clock + MonitorStaleTTL \in Nat
    BY AccountsAssumption DEF TypeInv, TypeOK
  <1>4. \/ monitor' = [monitor EXCEPT ![req[c].id] = m] /\ Serves(c, p)
        \/ Fails(c) /\ UNCHANGED monitor
    BY DEF StoreMonitor
  <1> HIDE DEF p
  <1>5. m \in Cached
    BY <1>2, <1>3 DEF Cached
  <1> HIDE DEF m
  <1>6. monitor' \in [Id -> Cached \cup {Absent}]
    BY <1>0, <1>1, <1>4, <1>5 DEF TypeInv, TypeOK
  <1>7. CASE Serves(c, p)
    BY <1>0, <1>1, <1>2, <1>6, <1>7, Serving, Resting DEF RefreshStep, TypeInv, TypeOK
  <1>8. CASE Fails(c)
    BY <1>0, <1>1, <1>6, <1>8, RefreshEnds
  <1> QED
    BY <1>4, <1>7, <1>8

LEMMA TickType == ASSUME TypeInv, Tick PROVE TypeInv'
  <1>1. /\ clock' \in 0..MaxClock /\ clock <= clock' /\ clock \in Nat /\ clock' \in Nat
        /\ UNCHANGED <<rows, keys, monitor, events, balance, spent, req, refreshes,
                       requests, mishaps, left, raced, overlapped, late>>
    BY AccountsAssumption DEF Tick, api, database, provider, bounds, history, TypeInv, TypeOK
  <1>2. Tenants' = Tenants /\ CacheInv'
    BY <1>1 DEF TypeInv, CacheInv, Tenants
  <1>3. ASSUME NEW c \in Client
        PROVE  Fit(req[c], Tenants, clock')
    <2>1. Fit(req[c], Tenants, clock) /\ req[c].at \in Nat
      BY DEF TypeInv, TypeOK, ReqInv, Request
    <2> QED
      BY <1>1, <2>1 DEF Fit
  <1> QED
    BY <1>1, <1>2, <1>3 DEF TypeInv, TypeOK, ReqInv

LEMMA AccountType == ASSUME TypeInv, NEW d \in Cred, Spend(d) \/ Recharge(d) PROVE TypeInv'
  <1>0. balance \in [Cred -> 0..MaxBalance] /\ spent \in [Cred -> 0..MaxBalance]
    BY DEF TypeInv, TypeOK
  <1>1. balance' \in [Cred -> 0..MaxBalance] /\ spent' \in [Cred -> 0..MaxBalance]
    <2>1. CASE Spend(d)
      BY <1>0, <2>1, AccountsAssumption DEF Spend
    <2>2. CASE Recharge(d)
      BY <1>0, <2>2, AccountsAssumption DEF Recharge
    <2> QED
      BY <2>1, <2>2
  <1>2. UNCHANGED <<clock, rows, keys, monitor, events, req, refreshes,
                    requests, mishaps, left, raced, overlapped, late>>
    BY DEF Spend, Recharge, api, database, bounds, history
  <1> QED
    BY <1>1, <1>2 DEF TypeInv, TypeOK, ReqInv, CacheInv, Tenants

LEMMA RestartType == ASSUME TypeInv, Restart PROVE TypeInv'
  <1>1. /\ keys' = {} /\ monitor' = [i \in Id |-> Absent] /\ req' = [c \in Client |-> NoRequest]
        /\ requests' \in 0..MaxRequests /\ mishaps' \in 0..MaxMishaps
        /\ UNCHANGED <<clock, rows, events, balance, spent, refreshes, left, raced, overlapped, late>>
    BY AccountsAssumption DEF Restart, Mishap, database, provider, history, TypeInv, TypeOK
  <1>2. IsFiniteSet(keys') /\ Cardinality(keys') <= KeyCacheSize
    BY <1>1, FS_EmptySet, AccountsAssumption
  <1>3. CacheInv' /\ ReqInv'
    BY <1>1, <1>2, NoRequestFits DEF CacheInv, ReqInv, NoRequest
  <1> QED
    BY <1>1, <1>2, <1>3, NoRequestFits DEF TypeInv, TypeOK

LEMMA TypeStep == ASSUME TypeInv, [Next]_vars PROVE TypeInv'
  <1>1. CASE UNCHANGED vars
    BY <1>1 DEF vars, api, database, provider, bounds, history,
                TypeInv, TypeOK, ReqInv, CacheInv, Tenants
  <1>2. ASSUME NEW c \in Client, Routes(c)
        PROVE  TypeInv'
    BY <1>2, AskType, CreateType, LookupType, ListType, InsertType, ReadTenantType, WriteTenantType,
       ClearMonitorType, GetMonitorType, ReadConfigType, FetchBalanceType, ReadLatestType,
       RecordUsageType, StoreMonitorType DEF Routes
  <1> QED
    BY <1>1, <1>2, TickType, AccountType, RestartType DEF Next

LEMMA TypeInit == Init => TypeInv
  <1> SUFFICES ASSUME Init PROVE TypeInv
    OBVIOUS
  <1>1. IsFiniteSet(keys) /\ Cardinality(keys) = 0
    BY FS_EmptySet DEF Init
  <1>2. CacheInv /\ ReqInv
    BY <1>1, NoRequestFits DEF Init, CacheInv, ReqInv, NoRequest
  <1>3. events \in [Id -> Seq(Event)] /\ balance \in [Cred -> 0..MaxBalance]
        /\ spent \in [Cred -> 0..MaxBalance]
    BY AccountsAssumption DEF Init
  <1>4. /\ clock \in 0..MaxClock /\ refreshes \in Nat
        /\ requests \in 0..MaxRequests /\ mishaps \in 0..MaxMishaps
    BY AccountsAssumption DEF Init
  <1>7. /\ rows \in [Id -> Tenant \cup {Absent}] /\ keys \subseteq Entry
        /\ monitor \in [Id -> Cached \cup {Absent}] /\ req \in [Client -> Request]
        /\ left \subseteq [value : Key, id : Id, at : 0..MaxClock]
    BY NoRequestFits DEF Init
  <1>8. raced \in BOOLEAN /\ overlapped \in BOOLEAN /\ late \in BOOLEAN
    BY DEF Init
  <1>5. \A i \in Id : rows[i] = Absent
    BY DEF Init
  <1>6. Cardinality(keys) <= KeyCacheSize /\ keys = {}
    BY <1>1, AccountsAssumption DEF Init
  <1> QED
    BY <1>2, <1>3, <1>4, <1>5, <1>6, <1>7, <1>8 DEF TypeInv, TypeOK

\* Every value has its type; the cache of keys holds at most one entry of a key and
\* no more than its size, and no two tenants have one key, at any time.
THEOREM TypeCorrect == Spec => []TypeOK
  <1>1. TypeInv => TypeOK
    BY DEF TypeInv
  <1> QED
    BY <1>1, TypeInit, TypeStep, PTL DEF Spec

-----------------------------------------------------------------------------
(* An old key lives on for less than the lifetime of an entry.                *)

\* Value v is what tenant i has, or had taken away less than KeyTTL before a time.
WasHad(v, i, until) ==
  \/ i \in Matches(v)
  \/ \E l \in left : l.value = v /\ l.id = i /\ until <= l.at + KeyTTL

\* An entry of the cache expires before its key has been gone for its lifetime.
EntriesHonoured ==
  \A e \in keys : e.until <= clock + KeyTTL /\ WasHad(e.value, e.id, e.until)

KeyInv == TypeInv /\ EntriesHonoured /\ KeyHonouredWithinTTL

\* Nobody is newly admitted, and neither rows nor keys change.
LEMMA KeysAsBefore ==
  ASSUME KeyInv, UNCHANGED <<rows, left>>, keys' \subseteq keys,
         clock \in Nat, clock' \in Nat, clock <= clock',
         \A c \in Client : req'[c].step = "admitted" => req'[c] = req[c]
  PROVE  EntriesHonoured' /\ KeyHonouredWithinTTL'
  <1>1. \A v : Matches(v)' = Matches(v)
    BY DEF Matches, Tenants
  <1>2. EntriesHonoured'
    <2> SUFFICES ASSUME NEW e \in keys'
                 PROVE  e.until <= clock' + KeyTTL /\ WasHad(e.value, e.id, e.until)'
      BY DEF EntriesHonoured
    <2>1. e.until <= clock + KeyTTL /\ WasHad(e.value, e.id, e.until) /\ e.until \in Nat
      BY DEF KeyInv, EntriesHonoured, TypeInv, TypeOK, Entry
    <2> QED
      BY <1>1, <2>1, AccountsAssumption DEF WasHad
  <1>3. KeyHonouredWithinTTL'
    BY <1>1 DEF KeyInv, KeyHonouredWithinTTL
  <1> QED
    BY <1>2, <1>3

\* The steps of a request that neither admit it nor read or write a row that it will
\* insert or write.
Monitoring(c) ==
  \/ \E k \in Key : Create(c, k)
  \/ ClearMonitor(c) \/ GetMonitor(c) \/ ReadConfig(c)
  \/ FetchBalance(c) \/ ReadLatest(c) \/ RecordUsage(c) \/ StoreMonitor(c)

\* Nobody comes to one of these steps.
Unmoved ==
  \A c \in Client : req'[c].step \in {"lookup", "admitted", "insert", "write", "clear"} => req'[c] = req[c]

LEMMA MonitoringMovesNobody ==
  ASSUME TypeInv, NEW c \in Client, Monitoring(c)
  PROVE  Unmoved
  <1>1. req \in [Client -> Request] /\ req[c] \in Request
    BY DEF TypeInv, TypeOK
  <1>3. ASSUME NEW r, Goes(c, r), r.step \notin {"lookup", "admitted", "insert", "write", "clear"}
        PROVE  Unmoved
    BY <1>1, <1>3 DEF Goes, Unmoved
  <1>5. CASE Ends(c)
    BY <1>3, <1>5 DEF Ends, NoRequest
  <1>6. ASSUME NEW p, Serves(c, p)
        PROVE  Unmoved
    BY <1>3, <1>6 DEF Serves, NoRequest
  <1>7. CASE Fails(c)
    BY <1>5, <1>6, <1>7 DEF Fails
  <1>8. CASE \E k \in Key : Create(c, k)
    BY <1>3, <1>8 DEF Create, NoRequest
  <1>11. CASE ClearMonitor(c)
    BY <1>5, <1>11 DEF ClearMonitor
  <1>12. CASE GetMonitor(c)
    <2>1. ASSUME NEW p, Goes(c, [req[c] EXCEPT !.step = "config", !.value = Absent, !.at = 0, !.held = p])
          PROVE  Unmoved
      BY <1>1, <1>3, <2>1 DEF Request
    <2> QED
      BY <1>6, <1>12, <2>1 DEF GetMonitor
  <1>13. CASE ReadConfig(c)
    <2>1. ASSUME NEW d, Goes(c, [req[c] EXCEPT !.step = "fetch", !.cred = d, !.at = refreshes + 1])
          PROVE  Unmoved
      BY <1>1, <1>3, <2>1 DEF Request
    <2> QED
      BY <1>5, <1>13, <2>1 DEF ReadConfig
  <1>14. ASSUME Goes(c, [req[c] EXCEPT !.step = "store"])
         PROVE  Unmoved
    BY <1>1, <1>3, <1>14 DEF Request
  <1>15. CASE FetchBalance(c)
    <2>1. ASSUME NEW b, NEW n, Goes(c, [req[c] EXCEPT !.step = "latest", !.balance = b, !.spent = n])
          PROVE  Unmoved
      BY <1>1, <1>3, <2>1 DEF Request
    <2> QED
      BY <1>7, <1>14, <1>15, <2>1 DEF FetchBalance
  <1>16. CASE ReadLatest(c)
    <2>1. ASSUME NEW b, Goes(c, [req[c] EXCEPT !.step = "record", !.latest = b])
          PROVE  Unmoved
      BY <1>1, <1>3, <2>1 DEF Request
    <2>2. ASSUME Goes(c, [req[c] EXCEPT !.step = "record"])
          PROVE  Unmoved
      BY <1>1, <1>3, <2>2 DEF Request
    <2> QED
      BY <1>7, <1>16, <2>1, <2>2 DEF ReadLatest
  <1>17. CASE RecordUsage(c)
    BY <1>7, <1>14, <1>17 DEF RecordUsage
  <1>18. CASE StoreMonitor(c)
    BY <1>6, <1>7, <1>18 DEF StoreMonitor
  <1> QED
    BY <1>8, <1>11, <1>12, <1>13, <1>15, <1>16, <1>17, <1>18 DEF Monitoring

LEMMA ListMovesOne ==
  ASSUME TypeInv, NEW c \in Client, List(c)
  PROVE  /\ \A d \in Client : d # c => req'[d] = req[d]
         /\ req'[c].step = "insert" \/ req'[c] = NoRequest
  <1>1. req \in [Client -> Request] /\ req[c] \in Request
    BY DEF TypeInv, TypeOK
  <1>2. CASE Ends(c)
    BY <1>1, <1>2 DEF Ends, Goes
  <1>3. ASSUME NEW i, Goes(c, [req[c] EXCEPT !.step = "insert", !.id = i])
        PROVE  /\ \A d \in Client : d # c => req'[d] = req[d]
               /\ req'[c].step = "insert"
    BY <1>1, <1>3 DEF Goes, Request
  <1> QED
    BY <1>2, <1>3 DEF List

LEMMA ReadTenantMovesOne ==
  ASSUME TypeInv, NEW c \in Client, ReadTenant(c)
  PROVE  /\ \A d \in Client : d # c => req'[d] = req[d]
         /\ \/ /\ req'[c].step = "write" /\ req'[c].id = req[c].id
               /\ req'[c].value = rows[req[c].id].key
            \/ req'[c] = NoRequest
  <1>1. req \in [Client -> Request] /\ req[c] \in Request
    BY DEF TypeInv, TypeOK
  <1>2. CASE Ends(c)
    BY <1>1, <1>2 DEF Ends, Goes
  <1>3. CASE Goes(c, [req[c] EXCEPT !.step = "write", !.at = 0, !.value = rows[req[c].id].key])
    BY <1>1, <1>3 DEF Goes, Request
  <1> QED
    BY <1>2, <1>3 DEF ReadTenant

LEMMA OthersKeepKeys ==
  ASSUME KeyInv, NEW c \in Client, Monitoring(c) \/ List(c) \/ ReadTenant(c)
  PROVE  EntriesHonoured' /\ KeyHonouredWithinTTL'
  <1>1. UNCHANGED <<clock, rows, keys, left>>
    BY DEF Monitoring, Create, List, ReadTenant, ClearMonitor, GetMonitor, ReadConfig, FetchBalance,
           ReadLatest, RecordUsage, StoreMonitor, api, database, history
  <1>2. TypeInv /\ clock \in Nat
    BY AccountsAssumption DEF KeyInv, TypeInv, TypeOK
  <1>3. \A d \in Client : req'[d].step = "admitted" => req'[d] = req[d]
    BY <1>2, MonitoringMovesNobody, ListMovesOne, ReadTenantMovesOne DEF Unmoved, NoRequest
  <1> QED
    BY <1>1, <1>2, <1>3, KeysAsBefore

LEMMA AskKeepsKeys ==
  ASSUME KeyInv, NEW c \in Client, NEW what \in {"credentials", "monitors"}, NEW v \in Value,
         Ask(c, what, v)
  PROVE  EntriesHonoured' /\ KeyHonouredWithinTTL'
  <1> DEFINE r == [NoRequest EXCEPT !.does = what, !.value = v, !.at = clock]
             found == {e \in keys : e.value = v}
  <1>1. /\ clock \in Nat /\ req \in [Client -> Request] /\ keys \subseteq Entry
        /\ \A e \in keys : e.id \in Tenants
    BY AccountsAssumption DEF KeyInv, TypeInv, TypeOK, CacheInv
  <1>2. r \in Request /\ r.value = v /\ r.at = clock
    BY <1>1, NoRequestFits DEF Request, NoRequest
  <1>3. UNCHANGED <<clock, rows, left>>
    BY DEF Ask, database, history
  <1>4. CASE \E e \in found : Hit(e) /\ Admitted(c, r, e.id) /\ UNCHANGED keys
    <2> HIDE DEF r
    <2>1. PICK e \in found : Hit(e) /\ Admitted(c, r, e.id) /\ UNCHANGED keys
      BY <1>4
    <2>2. /\ \A d \in Client : d # c => req'[d] = req[d]
          /\ req'[c].id = e.id /\ req'[c].value = v /\ req'[c].at = clock
      BY <1>1, <1>2, <1>3, <2>1, Admitting DEF KeyInv
    <2>3. WasHad(v, e.id, e.until) /\ clock < e.until /\ e.until \in Nat
      BY <1>1, <2>1 DEF KeyInv, EntriesHonoured, Hit, Entry
    <2>4. \A x : Matches(x)' = Matches(x)
      BY <1>3 DEF Matches, Tenants
    <2>5. EntriesHonoured'
      BY <1>3, <2>1, <2>4 DEF KeyInv, EntriesHonoured, WasHad
    <2>6. \/ e.id \in Matches(v)'
          \/ \E l \in left' : l.value = v /\ l.id = e.id /\ clock < l.at + KeyTTL
      <3>1. CASE e.id \in Matches(v)
        BY <2>4, <3>1
      <3>2. ASSUME NEW l \in left, l.value = v, l.id = e.id, e.until <= l.at + KeyTTL
            PROVE  clock < l.at + KeyTTL
        <4>1. l.at \in Nat
          BY AccountsAssumption DEF KeyInv, TypeInv, TypeOK
        <4> QED
          BY <1>1, <2>3, <3>2, <4>1, AccountsAssumption
      <3> QED
        BY <1>3, <2>3, <3>1, <3>2 DEF WasHad
    <2>7. KeyHonouredWithinTTL'
      <3> SUFFICES ASSUME NEW d \in Client, req'[d].step = "admitted"
                   PROVE  (\/ req[d].id \in Matches(req[d].value)
                           \/ \E l \in left : l.value = req[d].value /\ l.id = req[d].id
                                              /\ req[d].at < l.at + KeyTTL)'
        BY DEF KeyHonouredWithinTTL
      <3>1. CASE d = c
        BY <2>2, <2>6, <3>1
      <3>2. CASE d # c
        BY <1>3, <2>2, <2>4, <3>2 DEF KeyInv, KeyHonouredWithinTTL
      <3> QED
        BY <3>1, <3>2
    <2> QED
      BY <2>5, <2>7
  <1>5. CASE keys' = keys \ found /\ Goes(c, [r EXCEPT !.step = "lookup"])
    <2> DEFINE s == [r EXCEPT !.step = "lookup"]
    <2>1. s.step = "lookup" /\ Goes(c, s)
      BY <1>2, <1>5 DEF Request
    <2> HIDE DEF s
    <2>2. \A d \in Client : req'[d].step = "admitted" => req'[d] = req[d]
      BY <1>1, <2>1 DEF Goes
    <2>3. keys' \subseteq keys
      BY <1>5
    <2> QED
      BY <1>1, <1>3, <2>2, <2>3, KeysAsBefore
  <1> QED
    BY <1>4, <1>5 DEF Ask

LEMMA LookupKeepsKeys ==
  ASSUME KeyInv, NEW c \in Client, Lookup(c)
  PROVE  EntriesHonoured' /\ KeyHonouredWithinTTL'
  <1>1. UNCHANGED <<clock, rows, left>>
    BY DEF Lookup, database, history
  <1>2. /\ req[c] \in Request /\ req \in [Client -> Request] /\ req[c].value \in Value
        /\ req[c].at <= clock /\ req[c].at \in Nat /\ clock \in Nat
        /\ \A e \in keys : e.value # req[c].value
    BY AccountsAssumption DEF KeyInv, TypeInv, TypeOK, ReqInv, CacheInv, Fit, Lookup, Request
  <1>3. \A x : Matches(x)' = Matches(x)
    BY <1>1 DEF Matches, Tenants
  <1>4. ASSUME NEW i \in Matches(req[c].value),
               Admitted(c, req[c], i),
               Remember([value |-> req[c].value, id |-> i, until |-> req[c].at + KeyTTL])
        PROVE  EntriesHonoured' /\ KeyHonouredWithinTTL'
    <2> DEFINE e == [value |-> req[c].value, id |-> i, until |-> req[c].at + KeyTTL]
    <2>1. i \in Tenants /\ i \in Id
      BY DEF Matches, Tenants
    <2>2. /\ e \in Entry /\ Remember(e) /\ e.value = req[c].value /\ e.id = i
          /\ e.until = req[c].at + KeyTTL
      BY <1>2, <1>4, <2>1, AccountsAssumption DEF Entry
    <2> HIDE DEF e
    <2>3. keys' \subseteq keys \cup {e}
      BY <1>2, <2>2, Remembering DEF KeyInv
    <2>4. /\ \A d \in Client : d # c => req'[d] = req[d]
          /\ req'[c].id = i /\ req'[c].value = req[c].value /\ req'[c].at = req[c].at
      BY <1>1, <1>2, <1>4, <2>1, Admitting DEF KeyInv
    <2>5. e.until <= clock + KeyTTL
      BY <1>2, <2>2, AccountsAssumption
    <2>6. EntriesHonoured'
      BY <1>1, <1>3, <2>2, <2>3, <2>5 DEF KeyInv, EntriesHonoured, WasHad
    <2>7. KeyHonouredWithinTTL'
      BY <1>1, <1>3, <2>4 DEF KeyInv, KeyHonouredWithinTTL
    <2> QED
      BY <2>6, <2>7
  <1>5. CASE Ends(c) /\ UNCHANGED keys
    <2>1. \A d \in Client : req'[d].step = "admitted" => req'[d] = req[d]
      BY <1>2, <1>5 DEF Ends, Goes, NoRequest
    <2> QED
      BY <1>1, <1>2, <1>5, <2>1, KeysAsBefore
  <1> QED
    BY <1>4, <1>5 DEF Lookup

\* A key that is taken from a tenant is noted in left.
LEMMA UpsertKeepsKeys ==
  ASSUME KeyInv, NEW c \in Client, NEW r, NEW i \in Id, NEW k \in Key,
         NEW d \in Cred \cup {Absent}, Upsert(c, r, i, k, d), r.step # "admitted",
         UNCHANGED <<clock, keys>>
  PROVE  EntriesHonoured' /\ KeyHonouredWithinTTL'
  <1>1. /\ rows' = [rows EXCEPT ![i] = [key |-> k, cred |-> d]]
        /\ left \subseteq left' /\ clock \in Nat
        /\ rows \in [Id -> Tenant \cup {Absent}]
    BY AccountsAssumption DEF Upsert, KeyInv, TypeInv, TypeOK
  <1>2. ASSUME NEW v, NEW j \in Matches(v)
        PROVE  \/ j \in Matches(v)'
               \/ \E l \in left' : l.value = v /\ l.id = j /\ l.at = clock
    <2>1. j \in Id /\ rows[j] # Absent /\ (v = rows[j].key \/ v = j)
      BY DEF Matches, Tenants
    <2>2. j \in Tenants'
      <3>1. [key |-> k, cred |-> d] \in Tenant /\ [key |-> k, cred |-> d] # Absent
        BY AccountsAssumption DEF Tenant
      <3> QED
        BY <1>1, <2>1, <3>1 DEF Tenants
    <2>3. CASE j # i \/ v = j \/ k = rows[i].key
      BY <1>1, <2>1, <2>2, <2>3 DEF Matches
    <2>4. CASE j = i /\ v # j /\ k # rows[i].key
      <3>1. [value |-> rows[i].key, id |-> i, at |-> clock] \in left'
        BY <2>1, <2>4 DEF Upsert
      <3> QED
        BY <2>1, <2>4, <3>1
    <2> QED
      BY <2>3, <2>4
  <1>3. EntriesHonoured'
    <2> SUFFICES ASSUME NEW e \in keys
                 PROVE  e.until <= clock + KeyTTL /\ WasHad(e.value, e.id, e.until)'
      BY DEF EntriesHonoured
    <2>1. e.until \in Nat /\ e.until <= clock + KeyTTL /\ WasHad(e.value, e.id, e.until)
      BY DEF KeyInv, EntriesHonoured, TypeInv, TypeOK, Entry
    <2> QED
      BY <1>1, <1>2, <2>1 DEF WasHad
  <1>4. KeyHonouredWithinTTL'
    <2> SUFFICES ASSUME NEW e \in Client, req'[e].step = "admitted"
                 PROVE  (\/ req[e].id \in Matches(req[e].value)
                         \/ \E l \in left : l.value = req[e].value /\ l.id = req[e].id
                                            /\ req[e].at < l.at + KeyTTL)'
      BY DEF KeyHonouredWithinTTL
    <2>1. req[e] \in Request /\ e # c
      BY DEF KeyInv, TypeInv, TypeOK, Upsert
    <2>2. /\ req[e].step = "admitted" /\ req'[e].id = req[e].id
          /\ req'[e].value = req[e].value /\ req'[e].at = req[e].at
      BY <2>1 DEF Upsert, Request
    <2>3. req[e].at \in Nat /\ req[e].at <= clock
      BY <2>1, <2>2 DEF KeyInv, TypeInv, ReqInv, Fit, Request
    <2>4. req[e].at < clock + KeyTTL
      BY <1>1, <2>3, AccountsAssumption
    <2> DEFINE v == req[e].value
               j == req[e].id
               at == req[e].at
    <2>5. \/ j \in Matches(v)
          \/ \E l \in left : l.value = v /\ l.id = j /\ at < l.at + KeyTTL
      BY <2>2 DEF KeyInv, KeyHonouredWithinTTL
    <2>6. CASE j \in Matches(v)
      BY <1>2, <2>2, <2>4, <2>6
    <2>7. CASE \E l \in left : l.value = v /\ l.id = j /\ at < l.at + KeyTTL
      BY <1>1, <2>2, <2>7
    <2> QED
      BY <2>5, <2>6, <2>7
  <1> QED
    BY <1>3, <1>4

LEMMA WritesKeepKeys ==
  ASSUME KeyInv, NEW c \in Client, Insert(c) \/ WriteTenant(c)
  PROVE  EntriesHonoured' /\ KeyHonouredWithinTTL'
  <1> DEFINE clears == [req[c] EXCEPT !.step = "clear", !.value = Absent, !.cred = rows[req[c].id].cred]
  <1>1. /\ req[c] \in Request /\ req \in [Client -> Request] /\ clock \in Nat
        /\ req[c].id \in Id /\ req[c].value \in Key
    BY AccountsAssumption
       DEF Insert, WriteTenant, KeyInv, TypeInv, TypeOK, ReqInv, Fit, Routed, Tenants
  <1>2. UNCHANGED <<clock, keys>>
    BY DEF Insert, WriteTenant, api
  <1>3. clears.step = "clear" /\ NoRequest.step = "idle"
    BY <1>1 DEF Request, NoRequest
  <1>4. \/ \E d \in Cred \cup {Absent} : Upsert(c, clears, req[c].id, req[c].value, d)
        \/ \E d \in Cred \cup {Absent} : Upsert(c, NoRequest, req[c].id, req[c].value, d)
        \/ (Goes(c, clears) \/ Goes(c, NoRequest)) /\ UNCHANGED <<rows, left>>
    BY DEF Insert, WriteTenant, Ends
  <1> HIDE DEF clears
  <1>5. CASE (Goes(c, clears) \/ Goes(c, NoRequest)) /\ UNCHANGED <<rows, left>>
    <2>1. \A d \in Client : req'[d].step = "admitted" => req'[d] = req[d]
      BY <1>1, <1>3, <1>5 DEF Goes
    <2> QED
      BY <1>1, <1>2, <1>5, <2>1, KeysAsBefore
  <1>6. CASE \E d \in Cred \cup {Absent} : Upsert(c, clears, req[c].id, req[c].value, d)
    BY <1>1, <1>2, <1>3, <1>6, UpsertKeepsKeys
  <1>7. CASE \E d \in Cred \cup {Absent} : Upsert(c, NoRequest, req[c].id, req[c].value, d)
    BY <1>1, <1>2, <1>3, <1>7, UpsertKeepsKeys
  <1> QED
    BY <1>4, <1>5, <1>6, <1>7

LEMMA KeyStep == ASSUME KeyInv, [Next]_vars PROVE KeyInv'
  <1>1. TypeInv' /\ clock \in Nat
    BY TypeStep, AccountsAssumption DEF KeyInv, TypeInv, TypeOK
  <1>2. ASSUME NEW c \in Client, Routes(c)
        PROVE  EntriesHonoured' /\ KeyHonouredWithinTTL'
    BY <1>2, AskKeepsKeys, LookupKeepsKeys, WritesKeepKeys, OthersKeepKeys DEF Routes, Monitoring
  <1>3. CASE Tick \/ UNCHANGED vars \/ \E d \in Cred : Spend(d) \/ Recharge(d)
    <2>1. /\ UNCHANGED <<rows, left, keys, req>>
          /\ clock' = clock \/ clock' = clock + 1
      BY <1>3 DEF Tick, Spend, Recharge, vars, api, database, history
    <2>2. clock' \in Nat /\ clock <= clock'
      BY <1>1, <2>1
    <2> QED
      BY <1>1, <2>1, <2>2, KeysAsBefore DEF KeyInv
  <1>4. CASE Restart
    <2>1. UNCHANGED <<clock, rows, left>> /\ keys' = {} /\ \A c \in Client : req'[c].step = "idle"
      BY <1>4 DEF Restart, database, history, NoRequest
    <2> QED
      BY <1>1, <2>1, KeysAsBefore DEF KeyInv
  <1> QED
    BY <1>1, <1>2, <1>3, <1>4 DEF Next, KeyInv

\* A request is admitted only with what is the tenant's key or identifier, or was
\* until less than the lifetime of a cache entry before: for every size of the cache,
\* number of tenants and clients, and whatever is lost or restarted.
THEOREM KeysHonoured == Spec => []KeyHonouredWithinTTL
  <1>1. Init => KeyInv
    BY TypeInit DEF Init, KeyInv, EntriesHonoured, KeyHonouredWithinTTL, NoRequest
  <1>2. KeyInv => KeyHonouredWithinTTL
    BY DEF KeyInv
  <1> QED
    BY <1>1, <1>2, KeyStep, PTL DEF Spec

-----------------------------------------------------------------------------
(* No key is taken from a tenant.                                             *)

\* An identifier to insert is free, and nobody else's; a row is written back with its key.
Unique ==
  /\ left = {}
  /\ \A c \in Client : req[c].step = "insert" => rows[req[c].id] = Absent
  /\ \A c, d \in Client :
       req[c].step = "insert" /\ req[d].step = "insert" /\ req[c].id = req[d].id => c = d
  /\ \A c \in Client : req[c].step = "write" => rows[req[c].id].key = req[c].value

StayInv == TypeInv /\ (~raced => Unique)

LEMMA StaysAsBefore ==
  ASSUME Unique, UNCHANGED <<rows, left>>,
         \A c \in Client : req'[c].step \in {"insert", "write"} => req'[c] = req[c]
  PROVE  Unique'
  BY DEF Unique

LEMMA AdmissionStays ==
  ASSUME StayInv, NEW c \in Client, Lookup(c) \/ \E v \in Value, what \in {"credentials", "monitors"} : Ask(c, what, v)
  PROVE  UNCHANGED <<rows, left, raced>> /\ \A d \in Client : req'[d].step \in {"insert", "write"} => req'[d] = req[d]
  <1>1. req \in [Client -> Request] /\ req[c] \in Request
    BY DEF StayInv, TypeInv, TypeOK
  <1>2. ASSUME NEW r, NEW i, Admitted(c, r, i), r \in Request
        PROVE  \A d \in Client : req'[d].step \in {"insert", "write"} => req'[d] = req[d]
    BY <1>1, <1>2 DEF Admitted, Goes, Request
  <1>3. CASE Lookup(c)
    <2>1. UNCHANGED <<rows, left, raced>>
      BY <1>3 DEF Lookup, database, history
    <2>2. CASE Ends(c)
      BY <1>1, <2>1, <2>2 DEF Ends, Goes, NoRequest
    <2> QED
      BY <1>1, <1>2, <1>3, <2>1, <2>2 DEF Lookup
  <1>4. ASSUME NEW v \in Value, NEW what \in {"credentials", "monitors"}, Ask(c, what, v)
        PROVE  UNCHANGED <<rows, left, raced>> /\ \A d \in Client : req'[d].step \in {"insert", "write"} => req'[d] = req[d]
    <2> DEFINE r == [NoRequest EXCEPT !.does = what, !.value = v, !.at = clock]
    <2>1. UNCHANGED <<rows, left, raced>>
      BY <1>4 DEF Ask, database, history
    <2>2. r \in Request
      <3>1. clock \in Nat
        BY AccountsAssumption DEF StayInv, TypeInv, TypeOK
      <3> QED
        BY <3>1, NoRequestFits DEF Request, NoRequest
    <2>3. ASSUME Goes(c, [r EXCEPT !.step = "lookup"])
          PROVE  \A d \in Client : req'[d].step \in {"insert", "write"} => req'[d] = req[d]
      <3>1. [r EXCEPT !.step = "lookup"].step = "lookup"
        BY <2>2 DEF Request
      <3> HIDE DEF r
      <3> QED
        BY <1>1, <2>3, <3>1 DEF Goes
    <2> HIDE DEF r
    <2>4. (\E e \in keys : Admitted(c, r, e.id)) \/ Goes(c, [r EXCEPT !.step = "lookup"])
      BY <1>4 DEF Ask, r
    <2> QED
      BY <1>2, <2>1, <2>2, <2>3, <2>4
  <1> QED
    BY <1>3, <1>4

\* Only the row of a tenant that was free, or that keeps its key, is written.
LEMMA UpsertStays ==
  ASSUME StayInv, Unique, NEW c \in Client, NEW r \in Request, NEW i \in Id, NEW k \in Key,
         NEW d \in Cred \cup {Absent}, Upsert(c, r, i, k, d), r.step \notin {"insert", "write"},
         \/ req[c].step = "insert" /\ req[c].id = i
         \/ rows[i] # Absent /\ rows[i].key = k
  PROVE  Unique'
  <1>1. /\ rows' = [rows EXCEPT ![i] = [key |-> k, cred |-> d]] /\ rows \in [Id -> Tenant \cup {Absent}]
        /\ \A e \in Client : e # c => req[e] \in Request
    BY DEF Upsert, StayInv, TypeInv, TypeOK
  <1>2. left' = {}
    BY DEF Upsert, Unique
  <1>3. ASSUME NEW e \in Client, req'[e].step \in {"insert", "write"}
        PROVE  e # c /\ req'[e].step = req[e].step /\ req'[e].id = req[e].id /\ req'[e].value = req[e].value
    <2>1. e # c
      BY <1>3 DEF Upsert
    <2> QED
      BY <1>1, <2>1 DEF Upsert, Request
  <1>4. ASSUME NEW e \in Client, req'[e].step = "insert"
        PROVE  rows'[req'[e].id] = Absent
    <2>1. rows[req[e].id] = Absent /\ req[e].id \in Id /\ req[e].step = "insert"
      BY <1>3, <1>4 DEF Unique, StayInv, TypeInv, ReqInv, Fit
    <2>2. req[e].id # i
      BY <1>3, <1>4, <2>1 DEF Unique
    <2> QED
      BY <1>1, <1>3, <1>4, <2>1, <2>2
  <1>5. ASSUME NEW e \in Client, req'[e].step = "write"
        PROVE  rows'[req'[e].id].key = req'[e].value
    <2>1. /\ rows[req[e].id].key = req[e].value /\ req[e].id \in Id /\ rows[req[e].id] # Absent
      BY <1>3, <1>5 DEF Unique, StayInv, TypeInv, ReqInv, Fit, Routed, Tenants
    <2>2. req[e].id = i => req[e].value = k
      BY <2>1 DEF Unique
    <2> QED
      BY <1>1, <1>3, <1>5, <2>1, <2>2
  <1>6. ASSUME NEW e \in Client, NEW g \in Client,
               req'[e].step = "insert", req'[g].step = "insert", req'[e].id = req'[g].id
        PROVE  e = g
    BY <1>3, <1>6 DEF Unique
  <1> QED
    BY <1>2, <1>4, <1>5, <1>6 DEF Unique

LEMMA InsertStays ==
  ASSUME StayInv, NEW c \in Client, Insert(c), ~raced'
  PROVE  Unique'
  <1>1. ~raced /\ Unique /\ req[c].step = "insert" /\ req[c].id \in Id /\ req[c].value \in Key
    BY DEF Insert, StayInv, TypeInv, ReqInv, Fit
  <1>2. req \in [Client -> Request] /\ NoRequest \in Request /\ NoRequest.step = "idle"
    BY NoRequestFits DEF StayInv, TypeInv, TypeOK, NoRequest
  <1>3. CASE \E d \in Cred \cup {Absent} : Upsert(c, NoRequest, req[c].id, req[c].value, d)
    BY <1>1, <1>2, <1>3, UpsertStays
  <1>4. CASE Ends(c) /\ UNCHANGED <<rows, left>>
    <2>1. \A d \in Client : req'[d].step \in {"insert", "write"} => req'[d] = req[d]
      BY <1>2, <1>4 DEF Ends, Goes
    <2> QED
      BY <1>1, <1>4, <2>1, StaysAsBefore
  <1> QED
    BY <1>3, <1>4 DEF Insert

LEMMA WriteTenantStays ==
  ASSUME StayInv, NEW c \in Client, WriteTenant(c), ~raced'
  PROVE  Unique'
  <1> DEFINE clears == [req[c] EXCEPT !.step = "clear", !.value = Absent, !.cred = rows[req[c].id].cred]
  <1>1. /\ ~raced /\ Unique /\ req[c].step = "write" /\ req[c].id \in Id /\ req[c].value \in Key
        /\ req[c].id \in Tenants /\ req[c] \in Request
    BY DEF WriteTenant, StayInv, TypeInv, TypeOK, ReqInv, Fit, Routed, Tenants
  <1>2. req \in [Client -> Request] /\ NoRequest \in Request /\ NoRequest.step = "idle"
    BY NoRequestFits DEF StayInv, TypeInv, TypeOK, NoRequest
  <1>3. rows[req[c].id].cred \in Cred \cup {Absent} /\ rows[req[c].id] # Absent
        /\ rows[req[c].id].key = req[c].value
    BY <1>1 DEF StayInv, TypeInv, TypeOK, Tenants, Tenant, Unique
  <1>4. clears \in Request /\ clears.step = "clear"
    BY <1>1, <1>3 DEF Request, Step
  <1>5. \/ \E d \in Cred \cup {Absent} : Upsert(c, clears, req[c].id, req[c].value, d)
        \/ \E d \in Cred \cup {Absent} : Upsert(c, NoRequest, req[c].id, req[c].value, d)
        \/ (Goes(c, clears) \/ Goes(c, NoRequest)) /\ UNCHANGED <<rows, left>>
    BY DEF WriteTenant, Ends
  <1> HIDE DEF clears
  <1>6. CASE (Goes(c, clears) \/ Goes(c, NoRequest)) /\ UNCHANGED <<rows, left>>
    <2>1. \A d \in Client : req'[d].step \in {"insert", "write"} => req'[d] = req[d]
      BY <1>2, <1>4, <1>6 DEF Goes
    <2> QED
      BY <1>1, <1>6, <2>1, StaysAsBefore
  <1> QED
    BY <1>1, <1>2, <1>3, <1>4, <1>5, <1>6, UpsertStays

LEMMA ListStays ==
  ASSUME StayInv, NEW c \in Client, List(c), ~raced'
  PROVE  Unique'
  <1>1. req \in [Client -> Request] /\ req[c] \in Request /\ UNCHANGED <<rows, left>>
    BY DEF List, StayInv, TypeInv, TypeOK, database
  <1>2. ASSUME NEW i, Goes(c, [req[c] EXCEPT !.step = "insert", !.id = i]),
               raced' = (raced \/ rows[i] # Absent
                               \/ \E d \in Client : req[d].step = "insert" /\ req[d].id = i)
        PROVE  Unique'
    <2>1. req'[c].step = "insert" /\ req'[c].id = i /\ \A d \in Client : d # c => req'[d] = req[d]
      BY <1>1, <1>2 DEF Goes, Request
    <2>2. /\ ~raced /\ rows[i] = Absent /\ Unique
          /\ \A d \in Client : ~(req[d].step = "insert" /\ req[d].id = i)
      BY <1>2 DEF StayInv
    <2>3. /\ \A d \in Client : req'[d].step = "insert" => rows'[req'[d].id] = Absent
          /\ \A d \in Client : req'[d].step = "write" => rows'[req'[d].id].key = req'[d].value
      BY <1>1, <2>1, <2>2 DEF Unique
    <2>4. \A d, e \in Client :
            req'[d].step = "insert" /\ req'[e].step = "insert" /\ req'[d].id = req'[e].id => d = e
      BY <2>1, <2>2 DEF Unique
    <2> QED
      BY <1>1, <2>2, <2>3, <2>4 DEF Unique
  <1>3. CASE Ends(c) /\ UNCHANGED raced
    <2>1. \A d \in Client : req'[d].step \in {"insert", "write"} => req'[d] = req[d]
      BY <1>1, <1>3 DEF Ends, Goes, NoRequest
    <2> QED
      BY <1>1, <1>3, <2>1, StaysAsBefore DEF StayInv
  <1> QED
    BY <1>2, <1>3 DEF List

LEMMA ReadTenantStays ==
  ASSUME StayInv, NEW c \in Client, ReadTenant(c), ~raced'
  PROVE  Unique'
  <1>1. UNCHANGED <<rows, left>> /\ Unique
    BY DEF ReadTenant, database, history, StayInv
  <1>2. /\ \A d \in Client : d # c => req'[d] = req[d]
        /\ \/ /\ req'[c].step = "write" /\ req'[c].id = req[c].id
              /\ req'[c].value = rows[req[c].id].key
           \/ req'[c].step = "idle"
    BY ReadTenantMovesOne DEF StayInv, NoRequest
  <1> QED
    BY <1>1, <1>2 DEF Unique

LEMMA StayStep == ASSUME StayInv, [Next]_vars PROVE StayInv'
  <1>1. TypeInv'
    BY TypeStep DEF StayInv
  <1>2. ASSUME UNCHANGED <<rows, left, raced>>,
               \A c \in Client : req'[c].step \in {"insert", "write"} => req'[c] = req[c]
        PROVE  ~raced' => Unique'
    BY <1>2, StaysAsBefore DEF StayInv
  <1>3. ASSUME NEW c \in Client, Monitoring(c)
        PROVE  ~raced' => Unique'
    <2>1. UNCHANGED <<rows, left, raced>>
      BY <1>3 DEF Monitoring, Create, ClearMonitor, GetMonitor, ReadConfig, FetchBalance,
                  ReadLatest, RecordUsage, StoreMonitor, database, history
    <2> QED
      BY <1>2, <1>3, <2>1, MonitoringMovesNobody DEF StayInv, Unmoved
  <1>4. ASSUME NEW c \in Client, Routes(c)
        PROVE  ~raced' => Unique'
    BY <1>2, <1>3, <1>4, AdmissionStays, InsertStays, WriteTenantStays, ListStays, ReadTenantStays
       DEF Routes, Monitoring
  <1>5. CASE Tick \/ Restart \/ UNCHANGED vars \/ \E d \in Cred : Spend(d) \/ Recharge(d)
    <2>1. CASE Restart
      <3>1. UNCHANGED <<rows, left, raced>> /\ \A c \in Client : req'[c].step = "idle"
        BY <2>1 DEF Restart, database, history, NoRequest
      <3> QED
        BY <1>1, <1>2, <3>1 DEF StayInv
    <2>2. CASE UNCHANGED <<rows, left, raced, req>>
      BY <1>1, <1>2, <2>2 DEF StayInv
    <2> QED
      BY <1>5, <2>1, <2>2 DEF Tick, Spend, Recharge, vars, api, database, history
  <1> QED
    BY <1>1, <1>4, <1>5 DEF Next, StayInv

\* No tenant loses its key, for any number of tenants, clients and keys, as long as
\* no identifier was chosen from a list that was out of date.
THEOREM KeysAreKept == Spec => []KeysStay
  <1>1. Init => StayInv
    BY TypeInit DEF Init, StayInv, Unique, NoRequest
  <1>2. StayInv => KeysStay
    BY DEF StayInv, Unique, KeysStay
  <1> QED
    BY <1>1, <1>2, StayStep, PTL DEF Spec

-----------------------------------------------------------------------------
(* What a monitor shows was in force while it was asked for.                  *)

Refresh == {"fetch", "latest", "record", "store"}

\* What a request holds is of credentials that it was shown, or that are in the row.
Shown(r) ==
  /\ r.step \in {"config"} \cup Refresh => r.does = "monitors"
  /\ r.step \in Refresh => r.cred = rows[r.id].cred
  /\ r.does = "monitors" /\ r.step \in {"admitted", "config"} \cup Refresh => InForce(r.id) \subseteq r.showing
  /\ r.step \in {"lookup", "admitted"} => r.held = Absent
  /\ r.held # Absent => r.held.cred \in r.showing
  /\ r.step = "served" => r.cred \in r.showing

\* So is what the cache holds.
Truthful ==
  /\ \A c \in Client : Shown(req[c])
  /\ \A i \in Id : monitor[i] # Absent => i \in Tenants /\ monitor[i].payload.cred \in InForce(i)

ShowInv == TypeInv /\ (~late => Truthful)

LEMMA InForceIs ==
  ASSUME NEW i, NEW x
  PROVE  /\ x \in InForce(i) <=> \/ x = rows[i].cred
                                 \/ \E c \in Client : req[c].step = "clear" /\ req[c].id = i /\ req[c].cred = x
         /\ x \in InForce(i)' <=> \/ x = rows'[i].cred
                                  \/ \E c \in Client : req'[c].step = "clear" /\ req'[c].id = i /\ req'[c].cred = x
  BY DEF InForce

\* A request goes on that holds what it may; a monitor is stored that is in force.
LEMMA ShowsAsBefore ==
  ASSUME TypeInv, Truthful, NEW c \in Client, NEW r \in Request, Goes(c, r), UNCHANGED rows,
         req[c].step # "clear", r.step # "clear", Shown(r),
         \A i \in Id : monitor'[i] = monitor[i] \/ (i \in Tenants /\ monitor'[i].payload.cred \in InForce(i))
  PROVE  Truthful'
  <1>1. req'[c] = r /\ \A d \in Client : d # c => req'[d] = req[d]
    BY DEF Goes, TypeInv, TypeOK
  <1>2. ASSUME NEW i
        PROVE  InForce(i)' = InForce(i)
    <2>1. ASSUME NEW x
          PROVE  x \in InForce(i)' <=> x \in InForce(i)
      BY <1>1, InForceIs
    <2> QED
      BY <2>1 DEF InForce
  <1>3. ASSUME NEW q
        PROVE  Shown(q)' <=> Shown(q)
    <2>1. InForce(q.id)' = InForce(q.id)
      BY <1>2
    <2> QED
      BY <2>1 DEF Shown
  <1>4. ASSUME NEW d \in Client
        PROVE  Shown(req[d])'
    <2> DEFINE q == req'[d]
    <2>1. Shown(req[d])
      BY DEF Truthful
    <2>2. CASE d = c
      BY <1>1, <1>3, <2>2 DEF Shown
    <2>3. CASE d # c
      BY <1>1, <1>2, <2>1, <2>3 DEF Shown
    <2> QED
      BY <2>2, <2>3
  <1>5. ASSUME NEW i \in Id, monitor'[i] # Absent
        PROVE  i \in Tenants' /\ monitor'[i].payload.cred \in InForce(i)'
    BY <1>2, <1>5 DEF Truthful, Tenants
  <1> QED
    BY <1>4, <1>5 DEF Truthful

\* The row of a tenant that is new, or that no refresh has read, is written; what was
\* in force goes on being so for the one who is to clear the monitor.
LEMMA ShowsWhatIsWritten ==
  ASSUME TypeInv, Truthful, NEW c \in Client, NEW r \in Request, NEW i \in Id, NEW k \in Key,
         NEW d \in Cred \cup {Absent}, Upsert(c, r, i, k, d), UNCHANGED monitor, req[c].step # "clear",
         r.held # Absent => r.held.cred \in r.showing,
         \/ rows[i] = Absent /\ r.step = "idle"
         \/ Refreshing(i, Refresh) = {} /\ r.step = "clear" /\ r.id = i /\ r.cred = rows[i].cred
  PROVE  Truthful'
  <1>1. /\ rows' = [rows EXCEPT ![i] = [key |-> k, cred |-> d]] /\ rows \in [Id -> Tenant \cup {Absent}]
        /\ req'[c] = r /\ \A e \in Client : req[e] \in Request
    BY DEF Upsert, TypeInv, TypeOK
  <1>2. ASSUME NEW e \in Client, e # c
        PROVE  /\ req'[e].step = req[e].step /\ req'[e].id = req[e].id /\ req'[e].does = req[e].does
               /\ req'[e].cred = req[e].cred /\ req'[e].held = req[e].held
               /\ req[e].showing \subseteq req'[e].showing
               /\ req[e].id = i /\ req[e].does = "monitors" => d \in req'[e].showing
    BY <1>1, <1>2 DEF Upsert, Request
  <1>3. ASSUME NEW x, x \in InForce(i)'
        PROVE  x = d \/ x \in InForce(i)
    <2>1. rows'[i].cred = d
      BY <1>1
    <2>2. CASE \E e \in Client : req'[e].step = "clear" /\ req'[e].id = i /\ req'[e].cred = x
      BY <1>1, <1>2, <2>2, InForceIs
    <2> QED
      BY <1>3, <2>1, <2>2, InForceIs
  <1>4. ASSUME NEW j \in Id, j # i, NEW x
        PROVE  x \in InForce(j)' <=> x \in InForce(j)
    <2>1. rows'[j] = rows[j]
      BY <1>1, <1>4
    <2>2. \A e \in Client : (req'[e].step = "clear" /\ req'[e].id = j)
                              <=> (req[e].step = "clear" /\ req[e].id = j)
      BY <1>1, <1>2, <1>4
    <2>3. \A e \in Client : req[e].step = "clear" => req'[e].cred = req[e].cred
      BY <1>1, <1>2
    <2> QED
      BY <2>1, <2>2, <2>3, InForceIs
  <1>5. ASSUME NEW e \in Client
        PROVE  Shown(req[e])'
    <2>1. CASE e = c
      BY <1>1, <2>1 DEF Shown, Refresh
    <2>2. CASE e # c
      <3>1. Shown(req[e]) /\ (req[e].step \in Routed => req[e].id \in Tenants /\ req[e].id \in Id)
        BY DEF Truthful, TypeInv, ReqInv, Fit, Tenants
      <3>2. req[e].step \in Refresh => req[e].id # i /\ req[e].id \in Id
        BY <3>1 DEF Refresh, Routed, Refreshing, Tenants
      <3>3. req'[e].step \in Refresh => req'[e].cred = rows'[req'[e].id].cred
        BY <1>1, <1>2, <2>2, <3>1, <3>2 DEF Shown
      <3>4. ASSUME req'[e].does = "monitors", req'[e].step \in {"admitted", "config"} \cup Refresh,
                   NEW x \in InForce(req[e].id)'
            PROVE  x \in req'[e].showing
        <4>1. PICK j \in Id : j = req[e].id /\ j = req'[e].id
          BY <1>2, <2>2, <3>1, <3>4 DEF Routed, Refresh
        <4>2. InForce(j) \subseteq req[e].showing
          BY <1>2, <2>2, <3>1, <3>4, <4>1 DEF Shown
        <4>3. x \in InForce(j)'
          BY <3>4, <4>1
        <4>4. x \in InForce(j) \/ (j = i /\ x = d)
          BY <1>3, <1>4, <4>3
        <4>5. /\ req[e].showing \subseteq req'[e].showing
              /\ req[e].id = i /\ req[e].does = "monitors" => d \in req'[e].showing
          BY <1>2, <2>2
        <4>6. req[e].does = "monitors"
          BY <1>2, <2>2, <3>4
        <4>7. CASE x \in InForce(j)
          BY <4>2, <4>5, <4>7
        <4>8. CASE j = i /\ x = d
          BY <4>1, <4>5, <4>6, <4>8
        <4> QED
          BY <4>4, <4>7, <4>8
      <3> QED
        BY <1>2, <2>2, <3>1, <3>3, <3>4 DEF Shown
    <2> QED
      BY <2>1, <2>2
  <1>6. ASSUME NEW j \in Id, monitor'[j] # Absent
        PROVE  j \in Tenants' /\ monitor'[j].payload.cred \in InForce(j)'
    <2> DEFINE x == monitor[j].payload.cred
    <2>1. j \in Tenants /\ x \in InForce(j) /\ monitor'[j] = monitor[j]
      BY <1>6 DEF Truthful
    <2>2. j \in Tenants'
      <3>1. [key |-> k, cred |-> d] # Absent
        BY AccountsAssumption DEF Tenant
      <3> QED
        BY <1>1, <2>1, <3>1 DEF Tenants
    <2>3. CASE j # i
      BY <1>4, <2>1, <2>2, <2>3
    <2>4. CASE j = i
      <3>1. r.step = "clear" /\ r.id = i /\ r.cred = rows[i].cred
        BY <2>1, <2>4 DEF Tenants
      <3>2. \/ x = rows[i].cred
            \/ \E e \in Client : e # c /\ req[e].step = "clear" /\ req[e].id = i /\ req[e].cred = x
        BY <2>1, <2>4, InForceIs
      <3>3. \E e \in Client : req'[e].step = "clear" /\ req'[e].id = i /\ req'[e].cred = x
        BY <1>1, <1>2, <3>1, <3>2
      <3> HIDE DEF x
      <3>4. x \in InForce(i)'
        BY <3>3, InForceIs
      <3> QED
        BY <2>1, <2>2, <2>4, <3>4 DEF x
    <2> QED
      BY <2>3, <2>4
  <1> QED
    BY <1>5, <1>6 DEF Truthful

\* The request ends, or is answered with what it was shown.
LEMMA ShowsNothing ==
  ASSUME TypeInv, Truthful, NEW c \in Client, Ends(c), UNCHANGED <<rows, monitor>>,
         req[c].step # "clear"
  PROVE  Truthful'
  <1>1. NoRequest \in Request /\ Shown(NoRequest) /\ NoRequest.step = "idle"
    BY NoRequestFits DEF Shown, Refresh, NoRequest
  <1> QED
    BY <1>1, ShowsAsBefore DEF Ends

LEMMA ShowsPayload ==
  ASSUME TypeInv, Truthful, NEW c \in Client, NEW p \in Payload, Serves(c, p),
         p.cred \in req[c].showing, UNCHANGED rows, req[c].step # "clear",
         \A i \in Id : monitor'[i] = monitor[i] \/ (i \in Tenants /\ monitor'[i].payload.cred \in InForce(i))
  PROVE  Truthful'
  <1> DEFINE r == [NoRequest EXCEPT !.step = "served", !.cred = p.cred, !.showing = req[c].showing]
  <1>1. req[c].showing \subseteq Cred \cup {Absent} /\ p.cred \in Cred \cup {Absent}
    BY DEF TypeInv, TypeOK, Request, Payload
  <1>2. Goes(c, r)
    BY DEF Serves
  <1>3. /\ r \in Request /\ r.step = "served" /\ r.held = Absent /\ r.cred = p.cred
        /\ r.showing = req[c].showing
    BY <1>1, NoRequestFits DEF Request, Step, NoRequest
  <1> HIDE DEF r
  <1>4. Shown(r)
    BY <1>3 DEF Shown, Refresh
  <1> QED
    BY <1>2, <1>3, <1>4, ShowsAsBefore

LEMMA ShowsStale ==
  ASSUME TypeInv, Truthful, NEW c \in Client, Fails(c), UNCHANGED <<rows, monitor>>,
         req[c].step # "clear"
  PROVE  Truthful'
  <1>1. CASE Ends(c)
    BY <1>1, ShowsNothing
  <1>2. CASE req[c].held # Absent /\ Serves(c, req[c].held)
    <2>1. req[c].held \in Payload /\ req[c].held.cred \in req[c].showing
      BY <1>2 DEF TypeInv, TypeOK, Request, Truthful, Shown
    <2> QED
      BY <1>2, <2>1, ShowsPayload
  <1> QED
    BY <1>1, <1>2 DEF Fails

LEMMA AdmittedShows ==
  ASSUME TypeInv, Truthful, NEW c \in Client, NEW r \in Request, NEW i \in Tenants, Admitted(c, r, i),
         r.held = Absent, req[c].step # "clear", UNCHANGED <<rows, monitor>>
  PROVE  Truthful'
  <1> DEFINE shown == IF r.does = "monitors" THEN InForce(i) ELSE {}
             s == [r EXCEPT !.step = "admitted", !.id = i, !.showing = shown]
  <1>1. shown \subseteq Cred \cup {Absent} /\ i \in Id
    BY InForceType DEF TypeInv, Tenants
  <1>2. Goes(c, s)
    BY DEF Admitted
  <1>3. s.does = "monitors" => shown = InForce(i)
    BY DEF Request
  <1> HIDE DEF shown
  <1>4. /\ s \in Request /\ s.step = "admitted" /\ s.id = i /\ s.showing = shown
        /\ s.held = Absent
    BY <1>1 DEF Request, Step
  <1> HIDE DEF s
  <1>5. Shown(s)
    BY <1>3, <1>4 DEF Shown, Refresh
  <1> QED
    BY <1>2, <1>4, <1>5, ShowsAsBefore

LEMMA AskShows ==
  ASSUME TypeInv, Truthful, NEW c \in Client, NEW what \in {"credentials", "monitors"}, NEW v \in Value,
         Ask(c, what, v)
  PROVE  Truthful'
  <1> DEFINE r == [NoRequest EXCEPT !.does = what, !.value = v, !.at = clock]
  <1>1. clock \in Nat /\ \A e \in keys : e.id \in Tenants
    BY AccountsAssumption DEF TypeInv, TypeOK, CacheInv
  <1>2. r \in Request /\ r.held = Absent
    BY <1>1, NoRequestFits DEF Request, NoRequest
  <1>3. UNCHANGED <<rows, monitor>> /\ req[c].step # "clear"
    BY DEF Ask, Free, database
  <1>4. (\E e \in keys : Admitted(c, r, e.id)) \/ Goes(c, [r EXCEPT !.step = "lookup"])
    BY DEF Ask
  <1>5. CASE Goes(c, [r EXCEPT !.step = "lookup"])
    <2> DEFINE s == [r EXCEPT !.step = "lookup"]
    <2>1. s \in Request /\ s.step = "lookup" /\ s.held = Absent
      BY <1>2 DEF Request, Step
    <2>2. Goes(c, s)
      BY <1>5
    <2> HIDE DEF s
    <2>3. Shown(s)
      BY <2>1 DEF Shown, Refresh
    <2> QED
      BY <1>3, <2>1, <2>2, <2>3, ShowsAsBefore
  <1> HIDE DEF r
  <1> QED
    BY <1>1, <1>2, <1>3, <1>4, <1>5, AdmittedShows

LEMMA LookupShows ==
  ASSUME TypeInv, Truthful, NEW c \in Client, Lookup(c)
  PROVE  Truthful'
  <1>1. UNCHANGED <<rows, monitor>> /\ req[c].step = "lookup"
    BY DEF Lookup, database
  <1>2. req[c] \in Request /\ req[c].held = Absent /\ Matches(req[c].value) \subseteq Tenants
    BY <1>1 DEF TypeInv, TypeOK, Truthful, Shown, Matches
  <1> QED
    BY <1>1, <1>2, AdmittedShows, ShowsNothing DEF Lookup

LEMMA CreateShows ==
  ASSUME TypeInv, Truthful, NEW c \in Client, NEW k \in Key, Create(c, k)
  PROVE  Truthful'
  <1> DEFINE r == [NoRequest EXCEPT !.step = "list", !.does = "create", !.value = k]
  <1>1. UNCHANGED <<rows, monitor>> /\ req[c].step # "clear" /\ Goes(c, r)
    BY DEF Create, Free, api, database
  <1>2. r \in Request /\ r.step = "list" /\ r.held = Absent
    BY NoRequestFits DEF Request, Step, Value, NoRequest
  <1> HIDE DEF r
  <1>3. Shown(r)
    BY <1>2 DEF Shown, Refresh
  <1> QED
    BY <1>1, <1>2, <1>3, ShowsAsBefore

LEMMA ListShows ==
  ASSUME TypeInv, Truthful, NEW c \in Client, List(c)
  PROVE  Truthful'
  <1>1. UNCHANGED <<rows, monitor>> /\ req[c].step = "list" /\ req[c] \in Request
    BY DEF List, api, database, TypeInv, TypeOK
  <1>2. ASSUME NEW i \in Id, Goes(c, [req[c] EXCEPT !.step = "insert", !.id = i])
        PROVE  Truthful'
    <2> DEFINE r == [req[c] EXCEPT !.step = "insert", !.id = i]
    <2>1. /\ r \in Request /\ r.step = "insert" /\ r.held = req[c].held
          /\ r.showing = req[c].showing
      BY <1>1 DEF Request, Step
    <2>2. Goes(c, r)
      BY <1>2
    <2> HIDE DEF r
    <2>3. Shown(r)
      BY <2>1 DEF Shown, Refresh, Truthful
    <2> QED
      BY <1>1, <2>1, <2>2, <2>3, ShowsAsBefore
  <1>3. \/ Ends(c)
        \/ \E existing \in {Tenants, {}} :
             existing # Id /\ Goes(c, [req[c] EXCEPT !.step = "insert", !.id = GenerateId(existing)])
    BY DEF List
  <1> QED
    BY <1>1, <1>2, <1>3, GeneratedIdType, ShowsNothing

LEMMA ReadTenantShows ==
  ASSUME TypeInv, Truthful, NEW c \in Client, ReadTenant(c)
  PROVE  Truthful'
  <1>1. /\ UNCHANGED <<rows, monitor>> /\ req[c].step = "admitted" /\ req[c] \in Request
        /\ req[c].id \in Tenants
    BY DEF ReadTenant, api, database, TypeInv, TypeOK, ReqInv, Fit, Routed
  <1>2. CASE Goes(c, [req[c] EXCEPT !.step = "write", !.at = 0, !.value = rows[req[c].id].key])
    <2> DEFINE r == [req[c] EXCEPT !.step = "write", !.at = 0, !.value = rows[req[c].id].key]
    <2>1. rows[req[c].id].key \in Key
      BY <1>1 DEF TypeInv, TypeOK, Tenants, Tenant
    <2>2. /\ r \in Request /\ r.step = "write" /\ r.held = req[c].held
          /\ r.showing = req[c].showing
      BY <1>1, <2>1 DEF Request, Step, Value
    <2>3. Goes(c, r)
      BY <1>2
    <2> HIDE DEF r
    <2>4. Shown(r)
      BY <2>2 DEF Shown, Refresh, Truthful
    <2> QED
      BY <1>1, <2>2, <2>3, <2>4, ShowsAsBefore
  <1> QED
    BY <1>1, <1>2, ShowsNothing DEF ReadTenant

LEMMA InsertShows ==
  ASSUME TypeInv, Truthful, NEW c \in Client, Insert(c), ~late'
  PROVE  Truthful'
  <1>1. /\ UNCHANGED monitor /\ req[c].step = "insert" /\ req[c].id \in Id /\ req[c].value \in Key
        /\ NoRequest \in Request /\ NoRequest.step = "idle" /\ NoRequest.held = Absent
    BY NoRequestFits DEF Insert, api, TypeInv, ReqInv, Fit, NoRequest
  <1>2. CASE \E d \in Cred \cup {Absent} : Upsert(c, NoRequest, req[c].id, req[c].value, d)
             /\ rows[req[c].id] = Absent
    BY <1>1, <1>2, ShowsWhatIsWritten
  <1>3. CASE Ends(c) /\ UNCHANGED rows
    BY <1>1, <1>3, ShowsNothing
  <1> QED
    BY <1>2, <1>3 DEF Insert

\* A request comes to clear the monitor though no row was written: what it read is in force.
LEMMA ClearsWhatIsInForce ==
  ASSUME TypeInv, Truthful, NEW c \in Client, NEW r \in Request, Goes(c, r), UNCHANGED <<rows, monitor>>,
         req[c].step # "clear", r.step = "clear", r.cred = rows[r.id].cred,
         r.held # Absent => r.held.cred \in r.showing
  PROVE  Truthful'
  <1>1. req'[c] = r /\ \A d \in Client : d # c => req'[d] = req[d]
    BY DEF Goes, TypeInv, TypeOK
  <1>2. ASSUME NEW i
        PROVE  InForce(i)' = InForce(i)
    <2>1. ASSUME NEW x
          PROVE  x \in InForce(i)' <=> x \in InForce(i)
      BY <1>1, InForceIs
    <2> QED
      BY <2>1 DEF InForce
  <1>3. ASSUME NEW d \in Client
        PROVE  Shown(req[d])'
    <2>1. CASE d = c
      BY <1>1, <2>1 DEF Shown, Refresh
    <2>2. CASE d # c
      BY <1>1, <1>2, <2>2 DEF Shown, Truthful
    <2> QED
      BY <2>1, <2>2
  <1>4. ASSUME NEW i \in Id, monitor'[i] # Absent
        PROVE  i \in Tenants' /\ monitor'[i].payload.cred \in InForce(i)'
    BY <1>2, <1>4 DEF Truthful, Tenants
  <1> QED
    BY <1>3, <1>4 DEF Truthful

LEMMA WriteTenantShows ==
  ASSUME TypeInv, Truthful, NEW c \in Client, WriteTenant(c), ~late'
  PROVE  Truthful'
  <1> DEFINE i == req[c].id
             clears == [req[c] EXCEPT !.step = "clear", !.value = Absent, !.cred = rows[i].cred]
  <1>1. /\ UNCHANGED monitor /\ req[c].step = "write" /\ req[c].id \in Id /\ req[c].value \in Key
        /\ req[c].id \in Tenants /\ req[c] \in Request
    BY DEF WriteTenant, api, TypeInv, TypeOK, ReqInv, Fit, Routed, Tenants
  <1>2. rows[i].cred \in Cred \cup {Absent}
    BY <1>1 DEF TypeInv, TypeOK, Tenants, Tenant
  <1>3. /\ clears \in Request /\ clears.step = "clear" /\ clears.id = i /\ clears.cred = rows[i].cred
        /\ clears.held = req[c].held /\ clears.showing = req[c].showing
    BY <1>1, <1>2 DEF Request, Step
  <1>4. \/ /\ \E d \in Cred \cup {Absent} : Upsert(c, clears, i, req[c].value, d)
           /\ Refreshing(i, {"fetch", "latest", "record", "store"}) = {}
        \/ Goes(c, clears) /\ UNCHANGED rows
        \/ Ends(c) /\ UNCHANGED rows
    BY DEF WriteTenant
  <1> HIDE DEF clears
  <1>5. Shown(req[c])
    BY DEF Truthful
  <1>6. CASE /\ \E d \in Cred \cup {Absent} : Upsert(c, clears, i, req[c].value, d)
             /\ Refreshing(i, {"fetch", "latest", "record", "store"}) = {}
    BY <1>1, <1>3, <1>5, <1>6, ShowsWhatIsWritten DEF Shown, Refresh
  <1>7. CASE Goes(c, clears) /\ UNCHANGED rows
    BY <1>1, <1>3, <1>5, <1>7, ClearsWhatIsInForce DEF Shown
  <1>8. CASE Ends(c) /\ UNCHANGED rows
    BY <1>1, <1>8, ShowsNothing
  <1> QED
    BY <1>4, <1>6, <1>7, <1>8

LEMMA GetMonitorShows ==
  ASSUME TypeInv, Truthful, NEW c \in Client, GetMonitor(c)
  PROVE  Truthful'
  <1> DEFINE i == req[c].id
             m == monitor[i]
             stale == IF m # Absent /\ m.stale_until > clock THEN m.payload ELSE Absent
             r == [req[c] EXCEPT !.step = "config", !.value = Absent, !.at = 0, !.held = stale]
  <1>1. /\ UNCHANGED <<rows, monitor>> /\ req[c].step = "admitted" /\ req[c].does = "monitors"
        /\ req[c] \in Request /\ i \in Id
    BY DEF GetMonitor, api, database, TypeInv, TypeOK, ReqInv, Fit, Routed, Tenants
  <1>2. m # Absent => m.payload \in Payload
    BY <1>1 DEF TypeInv, TypeOK, Cached
  <1>3. InForce(i) \subseteq req[c].showing
    BY <1>1 DEF Truthful, Shown
  <1>4. m # Absent => m.payload.cred \in req[c].showing
    BY <1>1, <1>3 DEF Truthful
  <1>5. CASE m # Absent /\ Serves(c, m.payload)
    BY <1>1, <1>2, <1>4, <1>5, ShowsPayload
  <1>6. CASE Goes(c, r)
    <2>1. stale \in Payload \cup {Absent} /\ (stale # Absent => stale.cred \in req[c].showing)
      BY <1>2, <1>4
    <2> HIDE DEF stale
    <2>2. /\ r \in Request /\ r.step = "config" /\ r.id = i /\ r.does = "monitors"
          /\ r.held = stale /\ r.showing = req[c].showing
      BY <1>1, <2>1 DEF Request, Step
    <2> HIDE DEF r
    <2>3. Shown(r)
      BY <1>3, <2>1, <2>2 DEF Shown, Refresh
    <2> QED
      BY <1>1, <1>6, <2>2, <2>3, ShowsAsBefore
  <1>7. (m # Absent /\ Serves(c, m.payload)) \/ Goes(c, r)
    BY DEF GetMonitor
  <1> QED
    BY <1>5, <1>6, <1>7

LEMMA ReadConfigShows ==
  ASSUME TypeInv, Truthful, NEW c \in Client, ReadConfig(c), ~late'
  PROVE  Truthful'
  <1> DEFINE i == req[c].id
             r == [req[c] EXCEPT !.step = "fetch", !.cred = rows[i].cred, !.at = refreshes + 1]
  <1>1. /\ UNCHANGED <<rows, monitor>> /\ req[c].step = "config" /\ req[c] \in Request
        /\ i \in Tenants /\ refreshes + 1 \in Nat
    BY DEF ReadConfig, api, database, TypeInv, TypeOK, ReqInv, Fit, Routed
  <1>2. Ends(c) \/ Goes(c, r)
    BY DEF ReadConfig
  <1>3. CASE Goes(c, r)
    <2>1. rows[i].cred \in Cred \cup {Absent}
      BY <1>1 DEF TypeInv, TypeOK, Tenants, Tenant
    <2>2. /\ r \in Request /\ r.step = "fetch" /\ r.id = i /\ r.does = req[c].does
          /\ r.held = req[c].held /\ r.showing = req[c].showing /\ r.cred = rows[i].cred
      BY <1>1, <2>1 DEF Request, Step
    <2> HIDE DEF r
    <2>3. Shown(r)
      BY <1>1, <2>2 DEF Truthful, Shown, Refresh
    <2> QED
      BY <1>1, <1>3, <2>2, <2>3, ShowsAsBefore
  <1> QED
    BY <1>1, <1>2, <1>3, ShowsNothing

\* A refresh goes on with the credentials it has read.
LEMMA RefreshShows ==
  ASSUME TypeInv, Truthful, NEW c \in Client, NEW r \in Request, Goes(c, r), UNCHANGED <<rows, monitor>>,
         req[c].step \in Refresh, r.step \in Refresh, r.id = req[c].id, r.does = req[c].does,
         r.cred = req[c].cred, r.held = req[c].held, r.showing = req[c].showing
  PROVE  Truthful'
  <1>1. Shown(r)
    BY DEF Truthful, Shown, Refresh
  <1> QED
    BY <1>1, ShowsAsBefore DEF Refresh

LEMMA StoreShows ==
  ASSUME TypeInv, Truthful, NEW c \in Client, Goes(c, [req[c] EXCEPT !.step = "store"]),
         UNCHANGED <<rows, monitor>>, req[c].step \in Refresh
  PROVE  Truthful'
  <1> DEFINE r == [req[c] EXCEPT !.step = "store"]
  <1>1. req[c] \in Request
    BY DEF TypeInv, TypeOK
  <1>2. /\ r \in Request /\ r.step = "store" /\ r.id = req[c].id /\ r.does = req[c].does
        /\ r.cred = req[c].cred /\ r.held = req[c].held /\ r.showing = req[c].showing
    BY <1>1 DEF Request, Step
  <1>3. Goes(c, r)
    OBVIOUS
  <1> HIDE DEF r
  <1> QED
    BY <1>2, <1>3, RefreshShows DEF Refresh

LEMMA FetchBalanceShows ==
  ASSUME TypeInv, Truthful, NEW c \in Client, FetchBalance(c)
  PROVE  Truthful'
  <1>1. UNCHANGED <<rows, monitor>> /\ req[c].step = "fetch" /\ req[c] \in Request
    BY DEF FetchBalance, api, database, TypeInv, TypeOK
  <1>2. ASSUME NEW b \in Nat, NEW n \in Nat,
               Goes(c, [req[c] EXCEPT !.step = "latest", !.balance = b, !.spent = n])
        PROVE  Truthful'
    <2> DEFINE r == [req[c] EXCEPT !.step = "latest", !.balance = b, !.spent = n]
    <2>1. /\ r \in Request /\ r.step = "latest" /\ r.id = req[c].id /\ r.does = req[c].does
          /\ r.cred = req[c].cred /\ r.held = req[c].held /\ r.showing = req[c].showing
      BY <1>1 DEF Request, Step
    <2>2. Goes(c, r)
      BY <1>2
    <2> HIDE DEF r
    <2> QED
      BY <1>1, <2>1, <2>2, RefreshShows DEF Refresh
  <1>3. CASE Goes(c, [req[c] EXCEPT !.step = "store"])
    BY <1>1, <1>3, StoreShows DEF Refresh
  <1>4. req[c].cred # Absent => balance[req[c].cred] \in Nat /\ spent[req[c].cred] \in Nat
    BY <1>1, AccountsAssumption DEF TypeInv, TypeOK, Request
  <1>5. CASE Fails(c)
    BY <1>1, <1>5, ShowsStale
  <1> QED
    BY <1>2, <1>3, <1>4, <1>5 DEF FetchBalance

LEMMA ReadLatestShows ==
  ASSUME TypeInv, Truthful, NEW c \in Client, ReadLatest(c)
  PROVE  Truthful'
  <1> DEFINE i == req[c].id
             seen == {events[i][n] : n \in DOMAIN events[i]}
  <1>1. UNCHANGED <<rows, monitor>> /\ req[c].step = "latest" /\ req[c] \in Request /\ i \in Id
    BY DEF ReadLatest, api, database, TypeInv, TypeOK, ReqInv, Fit, Routed, Tenants
  <1>2. seen \subseteq Event
    <2>1. events[i] \in Seq(Event)
      BY <1>1 DEF TypeInv, TypeOK
    <2> QED
      BY <2>1
  <1>3. ASSUME NEW b \in Nat \cup {Absent}, Goes(c, [req[c] EXCEPT !.step = "record", !.latest = b])
        PROVE  Truthful'
    <2> DEFINE r == [req[c] EXCEPT !.step = "record", !.latest = b]
    <2>1. /\ r \in Request /\ r.step = "record" /\ r.id = req[c].id /\ r.does = req[c].does
          /\ r.cred = req[c].cred /\ r.held = req[c].held /\ r.showing = req[c].showing
      BY <1>1 DEF Request, Step
    <2>2. Goes(c, r)
      BY <1>3
    <2> HIDE DEF r
    <2> QED
      BY <1>1, <2>1, <2>2, RefreshShows DEF Refresh
  <1>4. CASE Goes(c, [req[c] EXCEPT !.step = "record"])
    <2> DEFINE r == [req[c] EXCEPT !.step = "record"]
    <2>1. /\ r \in Request /\ r.step = "record" /\ r.id = req[c].id /\ r.does = req[c].does
          /\ r.cred = req[c].cred /\ r.held = req[c].held /\ r.showing = req[c].showing
      BY <1>1 DEF Request, Step
    <2>2. Goes(c, r)
      BY <1>4
    <2> HIDE DEF r
    <2> QED
      BY <1>1, <2>1, <2>2, RefreshShows DEF Refresh
  <1>5. \A e \in seen : e.balance \in Nat
    BY <1>2 DEF Event
  <1>6. CASE Fails(c)
    BY <1>1, <1>6, ShowsStale
  <1> QED
    BY <1>3, <1>4, <1>5, <1>6 DEF ReadLatest

LEMMA RecordUsageShows ==
  ASSUME TypeInv, Truthful, NEW c \in Client, RecordUsage(c)
  PROVE  Truthful'
  <1>1. UNCHANGED <<rows, monitor>> /\ req[c].step = "record"
    BY DEF RecordUsage, api
  <1>2. Goes(c, [req[c] EXCEPT !.step = "store"]) \/ Fails(c)
    BY DEF RecordUsage
  <1> QED
    BY <1>1, <1>2, StoreShows, ShowsStale DEF Refresh

LEMMA StoreMonitorShows ==
  ASSUME TypeInv, Truthful, NEW c \in Client, StoreMonitor(c)
  PROVE  Truthful'
  <1> DEFINE i == req[c].id
             p == [cred |-> req[c].cred, balance |-> req[c].balance]
             m == [payload |-> p, expires_at |-> clock + MonitorTTL,
                   stale_until |-> clock + MonitorStaleTTL]
  <1>1. UNCHANGED rows /\ req[c].step = "store" /\ req[c] \in Request /\ i \in Tenants
    BY DEF StoreMonitor, database, TypeInv, TypeOK, ReqInv, Fit, Routed
  <1>2. \/ monitor' = [monitor EXCEPT ![i] = m] /\ Serves(c, p)
        \/ Fails(c) /\ UNCHANGED monitor
    BY DEF StoreMonitor
  <1>3. p \in Payload /\ p.cred = req[c].cred
    BY <1>1 DEF Request, Payload
  <1>4. p.cred \in InForce(i) /\ p.cred \in req[c].showing
    BY <1>1, <1>3, InForceIs DEF Truthful, Shown, Refresh
  <1>5. CASE monitor' = [monitor EXCEPT ![i] = m] /\ Serves(c, p)
    <2>1. \A j \in Id : monitor'[j] = monitor[j] \/ (j = i /\ monitor'[j].payload = p)
      BY <1>1, <1>5 DEF TypeInv, TypeOK
    <2> HIDE DEF p, m
    <2>2. \A j \in Id : monitor'[j] = monitor[j] \/ (j \in Tenants /\ monitor'[j].payload.cred \in InForce(j))
      BY <1>1, <1>4, <2>1
    <2> QED
      BY <1>1, <1>3, <1>4, <1>5, <2>2, ShowsPayload
  <1>6. CASE Fails(c) /\ UNCHANGED monitor
    BY <1>1, <1>6, ShowsStale
  <1> QED
    BY <1>2, <1>5, <1>6

\* What is no longer in force is no longer cached.
LEMMA ClearMonitorShows ==
  ASSUME TypeInv, Truthful, NEW c \in Client, ClearMonitor(c)
  PROVE  Truthful'
  <1> DEFINE i == req[c].id
  <1>1. /\ UNCHANGED rows /\ req[c].step = "clear" /\ i \in Id
        /\ monitor' = [monitor EXCEPT ![i] = Absent]
        /\ req'[c] = NoRequest /\ \A d \in Client : d # c => req'[d] = req[d]
    BY DEF ClearMonitor, Cleared, Ends, Goes, database, TypeInv, TypeOK, ReqInv, Fit, Routed, Tenants
  <1>2. NoRequest.step = "idle"
    BY DEF NoRequest
  <1>3. ASSUME NEW j, NEW x, x \in InForce(j)'
        PROVE  x \in InForce(j)
    BY <1>1, <1>2, <1>3, InForceIs
  <1>4. ASSUME NEW j, j # i, NEW x \in InForce(j)
        PROVE  x \in InForce(j)'
    BY <1>1, <1>4, InForceIs
  <1>5. ASSUME NEW d \in Client
        PROVE  Shown(req[d])'
    <2>1. CASE d = c
      BY <1>1, <2>1 DEF Shown, Refresh, NoRequest
    <2>2. CASE d # c
      <3>1. Shown(req[d]) /\ req'[d] = req[d]
        BY <1>1, <2>2 DEF Truthful
      <3>2. ASSUME NEW x \in InForce(req[d].id)'
            PROVE  x \in InForce(req[d].id)
        BY <1>3, <3>1, <3>2
      <3> QED
        BY <1>1, <3>1, <3>2 DEF Shown
    <2> QED
      BY <2>1, <2>2
  <1>6. ASSUME NEW j \in Id, monitor'[j] # Absent
        PROVE  j \in Tenants' /\ monitor'[j].payload.cred \in InForce(j)'
    <2> DEFINE x == monitor[j].payload.cred
    <2>1. j # i /\ monitor'[j] = monitor[j] /\ j \in Tenants /\ x \in InForce(j)
      BY <1>1, <1>6 DEF TypeInv, TypeOK, Truthful
    <2>2. x \in InForce(j)'
      BY <1>4, <2>1
    <2> QED
      BY <1>1, <2>1, <2>2 DEF Tenants
  <1> QED
    BY <1>5, <1>6 DEF Truthful

LEMMA ShowStep == ASSUME ShowInv, [Next]_vars PROVE ShowInv'
  <1>1. TypeInv /\ TypeInv'
    BY TypeStep DEF ShowInv
  <1>2. ASSUME ~late', NEW c \in Client, Routes(c)
        PROVE  Truthful'
    <2>1. ~late
      BY <1>2 DEF Routes, Ask, Create, Lookup, List, Insert, ReadTenant, WriteTenant, ClearMonitor,
                  GetMonitor, ReadConfig, FetchBalance, ReadLatest, RecordUsage, StoreMonitor, history
    <2>2. Truthful
      BY <2>1 DEF ShowInv
    <2> QED
      BY <1>1, <1>2, <2>2, AskShows, CreateShows, LookupShows, ListShows, InsertShows, ReadTenantShows,
         WriteTenantShows, ClearMonitorShows, GetMonitorShows, ReadConfigShows, FetchBalanceShows,
         ReadLatestShows, RecordUsageShows, StoreMonitorShows DEF Routes
  <1>3. ASSUME ~late', UNCHANGED <<rows, monitor, req, late>>
        PROVE  Truthful'
    <2>1. \A i : InForce(i)' = InForce(i)
      BY <1>3 DEF InForce
    <2> QED
      BY <1>3, <2>1 DEF ShowInv, Truthful, Shown, Tenants
  <1>4. ASSUME Restart
        PROVE  Truthful'
    <2>1. monitor' = [i \in Id |-> Absent] /\ req' = [c \in Client |-> NoRequest]
      BY <1>4 DEF Restart
    <2>2. \A c \in Client : req'[c] = NoRequest
      BY <2>1
    <2>3. \A i \in Id : monitor'[i] = Absent
      BY <2>1
    <2> QED
      BY <2>2, <2>3 DEF Truthful, Shown, Refresh, NoRequest
  <1>5. UNCHANGED vars \/ Tick \/ (\E d \in Cred : Spend(d) \/ Recharge(d))
          => UNCHANGED <<rows, monitor, req, late>>
    BY DEF vars, Tick, Spend, Recharge, api, database, history
  <1> QED
    BY <1>1, <1>2, <1>3, <1>4, <1>5 DEF Next, ShowInv

\* A monitor shows credentials that were in force while it was asked for, for every
\* number of clients, tenants and credentials and all lifetimes of the cache, but for
\* the three ways that the property names.
THEOREM NewCredentialsAreShown == Spec => []NewCredentialsShow
  <1>1. Init => ShowInv
    BY TypeInit DEF Init, ShowInv, Truthful, Shown, Refresh, NoRequest
  <1>2. ShowInv => NewCredentialsShow
    BY DEF ShowInv, Truthful, Shown, NewCredentialsShow
  <1> QED
    BY <1>1, <1>2, ShowStep, PTL DEF Spec
-----------------------------------------------------------------------------
(* The sum of the amounts of a log.  FoldLeft is a recursion over the subsets *)
(* of the positions; that it has a solution, and what it comes to, is an      *)
(* induction over sets of naturals, each of which has a minimum.              *)

LEMMA MinimumExists ==
  ASSUME NEW T, T \subseteq Nat, T # {}
  PROVE  \E m \in T : \A n \in T : m <= n
  <1> DEFINE less == {ss \in Nat \X Nat : ss[1] < ss[2]}
  <1>0. IsWellFoundedOn(less, Nat)
    BY NatLessThanWellFounded, Zenon DEF OpToRel
  <1>1. PICK m \in T : \A n \in T : <<n, m>> \notin less
    <2> HIDE DEF less
    <2> QED
      BY <1>0, WFMin
  <1>2. ASSUME NEW n \in T PROVE m <= n
    <2>1. n \in Nat /\ m \in Nat
      OBVIOUS
    <2>2. ~(n < m)
      BY <1>1, <2>1
    <2> QED
      BY <2>1, <2>2
  <1> QED
    BY <1>2

\* A set that has 0, and with a number its successor, up to N, has them all.
LEMMA Inductive ==
  ASSUME NEW N \in Nat, NEW P, 0 \in P, \A n \in 1..N : n - 1 \in P => n \in P
  PROVE  0..N \subseteq P
  <1> DEFINE bad == (0..N) \ P
  <1>1. SUFFICES ASSUME bad # {} PROVE FALSE
    OBVIOUS
  <1>2. PICK m \in bad : \A n \in bad : m <= n
    <2>1. bad \subseteq Nat
      OBVIOUS
    <2> HIDE DEF bad
    <2> QED
      BY <1>1, <2>1, MinimumExists
  <1>3. m \in 1..N
    BY <1>2
  <1>4. m - 1 \in P
    BY <1>2, <1>3
  <1> QED
    BY <1>2, <1>3, <1>4

LEMMA MaxOf ==
  ASSUME NEW m \in Nat, NEW s, s \subseteq 1..m, m \in s
  PROVE  Max(s) = m
  <1>1. \A x \in s : x \in Int /\ m >= x
    OBVIOUS
  <1>2. \A x \in s : (\A y \in s : x >= y) => x = m
    BY <1>1
  <1> QED
    BY <1>1, <1>2 DEF Max

\* What FoldLeft is the solution of, for the events at the positions in s.
Folded(g, s, log) == IF s = {} THEN 0 ELSE Adds(g[s \ {Max(s)}], log[Max(s)])

LEMMA FoldSolved ==
  ASSUME NEW log, NEW N \in Nat
  PROVE  \E g : g = [s \in SUBSET (1..N) |-> Folded(g, s, log)]
  <1> DEFINE P == {n \in 0..N : \E g : g = [s \in SUBSET (1..n) |-> Folded(g, s, log)]}
  <1>1. 0 \in P
    <2> DEFINE g == [s \in SUBSET (1..0) |-> 0]
    <2>1. \A s \in SUBSET (1..0) : s = {}
      OBVIOUS
    <2>2. g = [s \in SUBSET (1..0) |-> Folded(g, s, log)]
      BY <2>1 DEF Folded
    <2> HIDE DEF g
    <2>3. 0 \in 0..N /\ \E x : x = [s \in SUBSET (1..0) |-> Folded(x, s, log)]
      BY <2>2
    <2> QED
      BY <2>3
  <1>2. ASSUME NEW n \in 1..N, n - 1 \in P PROVE n \in P
    <2>1. PICK g : g = [s \in SUBSET (1..(n - 1)) |-> Folded(g, s, log)]
      BY <1>2
    <2> DEFINE h == [s \in SUBSET (1..n) |-> IF n \in s THEN Adds(g[s \ {n}], log[n]) ELSE g[s]]
    <2>2. ASSUME NEW s \in SUBSET (1..n), n \notin s
          PROVE  s \in SUBSET (1..(n - 1)) /\ s \in SUBSET (1..n)
      BY <2>2
    <2>3. ASSUME NEW s \in SUBSET (1..n) PROVE h[s] = Folded(h, s, log)
      <3>1. CASE n \in s
        <4>1. Max(s) = n
          <5>1. n \in Nat /\ s \subseteq 1..n
            OBVIOUS
          <5> QED
            BY <3>1, <5>1, MaxOf
        <4>2. h[s \ {n}] = g[s \ {n}] /\ h[s] = Adds(g[s \ {n}], log[n])
          BY <3>1
        <4> HIDE DEF h
        <4> QED
          BY <3>1, <4>1, <4>2 DEF Folded
      <3>2. CASE n \notin s
        <4>1. h[s] = g[s] /\ g[s] = Folded(g, s, log)
          BY <2>1, <2>2, <3>2
        <4>2. h[s \ {Max(s)}] = g[s \ {Max(s)}]
          BY <3>2
        <4> HIDE DEF h
        <4> QED
          BY <4>1, <4>2 DEF Folded
      <3> QED
        BY <3>1, <3>2
    <2>4. h = [s \in SUBSET (1..n) |-> h[s]]
      OBVIOUS
    <2> HIDE DEF h
    <2>5. h = [s \in SUBSET (1..n) |-> Folded(h, s, log)]
      BY <2>3, <2>4
    <2> QED
      BY <2>5
  <1> HIDE DEF P
  <1>3. N \in P
    BY <1>1, <1>2, Inductive
  <1> QED
    BY <1>3 DEF P

\* One event after the other, from nothing.
LEMMA UsedSteps ==
  ASSUME NEW log \in Seq(Event)
  PROVE  \E f : /\ f[0] = 0
                /\ \A k \in 1..Len(log) : f[k] = Adds(f[k - 1], log[k])
                /\ Used(log) = f[Len(log)]
  <1> DEFINE N == Len(log)
             iter == CHOOSE g : g = [s \in SUBSET (1..N) |-> Folded(g, s, log)]
  <1>1. N \in Nat /\ DOMAIN log = 1..N
    OBVIOUS
  <1>2. iter = [s \in SUBSET (1..N) |-> Folded(iter, s, log)]
    BY <1>1, FoldSolved
  <1>3. Used(log) = iter[1..N]
    BY <1>1 DEF Used, FoldLeft, MapThenFoldSet, Folded
  <1> DEFINE f == [k \in 0..N |-> iter[1..k]]
  <1> HIDE DEF iter
  <1>4. f[0] = 0
    BY <1>1, <1>2 DEF Folded
  <1>5. ASSUME NEW k \in 1..N PROVE f[k] = Adds(f[k - 1], log[k])
    <2> HIDE DEF N, f
    <2>1. (1..k) \ {k} = 1..(k - 1) /\ 1..k # {} /\ 1..k \subseteq 1..N
      <3>1. k \in Nat /\ 1 <= k /\ k <= N
        BY <1>1
      <3>2. (1..k) \ {k} = 1..(k - 1)
        BY <3>1
      <3>3. 1 \in 1..k /\ 1..k \subseteq 1..N
        BY <1>1, <3>1
      <3> QED
        BY <3>2, <3>3
    <2>3. Max(1..k) = k
      <3>1. k \in Nat /\ 1..k \subseteq 1..k /\ k \in 1..k
        BY <1>1
      <3> DEFINE s == 1..k
      <3> HIDE DEF s
      <3>2. s \subseteq 1..k /\ k \in s
        BY <3>1 DEF s
      <3>3. Max(s) = k
        BY <3>1, <3>2, MaxOf
      <3> QED
        BY <3>3 DEF s
    <2>2. iter[1..k] = Adds(iter[1..(k - 1)], log[k])
      BY <1>2, <2>1, <2>3 DEF Folded
    <2>4. k \in 0..N /\ k - 1 \in 0..N
      BY <1>1
    <2> QED
      BY <2>2, <2>4 DEF f
  <1> HIDE DEF f
  <1>6. Used(log) = f[N]
    BY <1>1, <1>3 DEF f
  <1> QED
    BY <1>4, <1>5, <1>6

LEMMA UsedOfNone == Used(<<>>) = 0
  <1>1. <<>> \in Seq(Event) /\ Len(<<>>) = 0
    OBVIOUS
  <1>2. PICK f : f[0] = 0 /\ Used(<<>>) = f[Len(<<>>)]
    BY <1>1, UsedSteps
  <1> QED
    BY <1>1, <1>2

LEMMA UsedType ==
  ASSUME NEW log \in Seq(Event)
  PROVE  Used(log) \in Nat
  <1> DEFINE N == Len(log)
  <1>1. PICK f : f[0] = 0 /\ (\A k \in 1..N : f[k] = Adds(f[k - 1], log[k])) /\ Used(log) = f[N]
    BY UsedSteps
  <1> DEFINE P == {k \in 0..N : f[k] \in Nat}
  <1>2. N \in Nat
    OBVIOUS
  <1>3. 0 \in P
    BY <1>1, <1>2
  <1>4. ASSUME NEW k \in 1..N, k - 1 \in P PROVE k \in P
    <2>1. log[k] \in Event /\ k \in 0..N
      BY <1>2
    <2>2. log[k].amount \in Nat
      BY <2>1 DEF Event
    <2>3. f[k - 1] \in Nat /\ f[k] = f[k - 1] + log[k].amount
      BY <1>1, <1>4 DEF Adds
    <2> QED
      BY <2>1, <2>2, <2>3
  <1> HIDE DEF P, N
  <1>5. N \in P
    <2>1. 0..N \subseteq P
      BY <1>2, <1>3, <1>4, Inductive
    <2> QED
      BY <1>2, <2>1
  <1> QED
    BY <1>1, <1>5 DEF P

LEMMA UsedAppends ==
  ASSUME NEW log \in Seq(Event), NEW e \in Event
  PROVE  Used(Append(log, e)) = Used(log) + e.amount
  <1> DEFINE N == Len(log)
             longer == Append(log, e)
  <1>1. N \in Nat /\ longer \in Seq(Event) /\ Len(longer) = N + 1
    OBVIOUS
  <1>2. longer[N + 1] = e /\ \A k \in 1..N : longer[k] = log[k]
    OBVIOUS
  <1> HIDE DEF longer
  <1>3. PICK f : f[0] = 0 /\ (\A k \in 1..N : f[k] = Adds(f[k - 1], log[k])) /\ Used(log) = f[N]
    BY UsedSteps
  <1>4. PICK g : g[0] = 0 /\ (\A k \in 1..(N + 1) : g[k] = Adds(g[k - 1], longer[k])) /\ Used(longer) = g[N + 1]
    BY <1>1, UsedSteps
  <1> DEFINE P == {k \in 0..N : f[k] = g[k]}
  <1> HIDE DEF N
  <1>5. 0 \in P
    BY <1>1, <1>3, <1>4
  <1>6. ASSUME NEW k \in 1..N, k - 1 \in P PROVE k \in P
    <2>1. k \in 0..N /\ k \in 1..(N + 1)
      BY <1>1
    <2>2. f[k] = Adds(f[k - 1], log[k]) /\ g[k] = Adds(g[k - 1], log[k])
      BY <1>2, <1>3, <1>4, <2>1
    <2> QED
      BY <1>6, <2>1, <2>2
  <1> HIDE DEF P
  <1>7. N \in P
    <2>1. N \in Nat
      BY <1>1
    <2>2. 0..N \subseteq P
      BY <1>5, <1>6, <2>1, Inductive
    <2> QED
      BY <2>1, <2>2
  <1>8. g[N + 1] = Adds(g[N], e)
    <2>1. N + 1 \in 1..(N + 1) /\ (N + 1) - 1 = N
      BY <1>1
    <2> QED
      BY <1>2, <1>4, <2>1
  <1> QED
    BY <1>3, <1>4, <1>7, <1>8 DEF P, longer, Adds

-----------------------------------------------------------------------------
(* Amounts are of usage.  What is left of an account and what was spent of it  *)
(* only grow together, so a balance that is asked for later is at least what   *)
(* an earlier one leaves to be spent.  While the refreshes of a tenant do not  *)
(* overlap, the one that runs is the newest, so the latest event it reads is   *)
(* the last row, and stays so until it has recorded its own.                   *)

Runs == {"fetch", "latest", "record"}
Asked == {"latest", "record"}

\* Of a balance b and what was spent s, those of the same account at a later time.
Before(b, s, later, more) == s <= more /\ b + s <= later + more

LastOf(log) == log[Len(log)]

\* The events of a tenant; nothing was spent between them that is not in an amount.
Grows(log) == \A n \in DOMAIN log : n # Len(log) => log[n].occurred_at < LastOf(log).occurred_at

OneAccount(log) == \A n \in DOMAIN log : log[n].cred = log[1].cred

Sums(log) ==
  log # <<>> /\ OneAccount(log) =>
    /\ log[1].spent + Used(log) <= LastOf(log).spent
    /\ log[1].balance + log[1].spent <= LastOf(log).balance + LastOf(log).spent
    /\ log[1].balance + log[1].spent = LastOf(log).balance + LastOf(log).spent
         => log[1].spent + Used(log) = LastOf(log).spent

\* A refresh r, among the events of its tenant.
Newest(r, log) == r.step \in Runs => \A n \in DOMAIN log : log[n].occurred_at < r.at

Knows(r, log) ==
  r.step = "record" => r.latest = IF log = <<>> THEN Absent ELSE LastOf(log).balance

Follows(r, log) ==
  r.step \in Asked /\ log # <<>> /\ LastOf(log).cred = r.cred =>
    Before(LastOf(log).balance, LastOf(log).spent, r.balance, r.spent)

Numbered(r, n) ==
  /\ r.step \notin {"record", "store"} => r.latest = Absent
  /\ r.step \in Runs => r.at <= n

RunInv ==
  /\ \A c \in Client : Numbered(req[c], refreshes)
  /\ \A i \in Id : \A n \in DOMAIN events[i] : events[i][n].occurred_at <= refreshes

AccountInv ==
  /\ \A c \in Client : req[c].step \in Asked =>
       Before(req[c].balance, req[c].spent, balance[req[c].cred], spent[req[c].cred])
  /\ \A i \in Id : \A n \in DOMAIN events[i] :
       Before(events[i][n].balance, events[i][n].spent,
              balance[events[i][n].cred], spent[events[i][n].cred])

Alone == \A c, d \in Client : req[c].step \in Runs /\ req[d].step \in Runs /\ req[c].id = req[d].id => c = d

OrderInv ==
  ~overlapped =>
    /\ Alone
    /\ \A c \in Client : /\ Newest(req[c], events[req[c].id])
                         /\ Knows(req[c], events[req[c].id])
                         /\ Follows(req[c], events[req[c].id])
    /\ \A i \in Id : Grows(events[i]) /\ Sums(events[i])

UsageInv == RunInv /\ AccountInv /\ OrderInv

\* Nothing happens that matters to a refresh.

Same(q, r) ==
  /\ q.step = r.step /\ q.id = r.id /\ q.at = r.at /\ q.cred = r.cred
  /\ q.balance = r.balance /\ q.spent = r.spent /\ q.latest = r.latest

Calm(r) == r.step \notin Runs /\ (r.step # "store" => r.latest = Absent)

Quietly ==
  /\ UNCHANGED <<events, balance, spent, refreshes, overlapped>>
  /\ \A c \in Client : Same(req'[c], req[c]) \/ Calm(req'[c])

Others(c) == \A d \in Client \ {c} : req'[d] = req[d]

LEMMA QuietStep ==
  ASSUME UsageInv, Quietly
  PROVE  UsageInv'
  <1>1. ASSUME NEW c \in Client
        PROVE  Numbered(req'[c], refreshes')
    BY <1>1 DEF UsageInv, RunInv, Quietly, Numbered, Same, Calm, Runs
  <1>2. RunInv'
    BY <1>1 DEF UsageInv, RunInv, Quietly
  <1>3. ASSUME NEW c \in Client, req'[c].step \in Asked
        PROVE  Before(req'[c].balance, req'[c].spent, balance'[req'[c].cred], spent'[req'[c].cred])
    <2>1. Same(req'[c], req[c])
      BY <1>3 DEF Quietly, Calm, Runs, Asked
    <2> QED
      BY <1>3, <2>1 DEF UsageInv, AccountInv, Quietly, Same
  <1>4. AccountInv'
    BY <1>3 DEF UsageInv, AccountInv, Quietly
  <1>5. ASSUME ~overlapped'
        PROVE  /\ Alone'
               /\ \A c \in Client : /\ Newest(req[c], events[req[c].id])'
                                    /\ Knows(req[c], events[req[c].id])'
                                    /\ Follows(req[c], events[req[c].id])'
               /\ \A i \in Id : Grows(events'[i]) /\ Sums(events'[i])
    <2>1. /\ Alone
          /\ \A c \in Client : /\ Newest(req[c], events[req[c].id])
                               /\ Knows(req[c], events[req[c].id])
                               /\ Follows(req[c], events[req[c].id])
          /\ \A i \in Id : Grows(events[i]) /\ Sums(events[i])
      BY <1>5 DEF UsageInv, OrderInv, Quietly
    <2>2. Alone'
      BY <2>1 DEF Alone, Quietly, Same, Calm
    <2>3. ASSUME NEW c \in Client
          PROVE  /\ Newest(req[c], events[req[c].id])'
                 /\ Knows(req[c], events[req[c].id])'
                 /\ Follows(req[c], events[req[c].id])'
      <3>1. CASE Same(req'[c], req[c])
        BY <2>1, <3>1 DEF Quietly, Same, Newest, Knows, Follows
      <3>2. CASE Calm(req'[c])
        BY <3>2 DEF Calm, Newest, Knows, Follows, Runs, Asked
      <3> QED
        BY <3>1, <3>2 DEF Quietly
    <2> QED
      BY <2>1, <2>2, <2>3 DEF Quietly
  <1>6. OrderInv'
    BY <1>5 DEF OrderInv
  <1> QED
    BY <1>2, <1>4, <1>6 DEF UsageInv

\* A refresh begins: its number is the highest yet.
LEMMA BeginStep ==
  ASSUME TypeInv, UsageInv, NEW c \in Client, Others(c), req[c].id \in Id,
         UNCHANGED <<events, balance, spent>>, refreshes' = refreshes + 1,
         overlapped' = (overlapped \/ Refreshing(req[c].id, Runs) # {}),
         NEW r, req'[c] = r, r.step = "fetch", r.id = req[c].id, r.at = refreshes + 1, r.latest = Absent
  PROVE  UsageInv'
  <1>1. refreshes \in Nat /\ \A i \in Id : events[i] \in Seq(Event)
    BY DEF TypeInv, TypeOK
  <1>2. \A d \in Client : req[d].at \in Nat
    BY DEF TypeInv, TypeOK, Request
  <1>3. ASSUME NEW i \in Id, NEW n \in DOMAIN events[i]
        PROVE  events[i][n].occurred_at \in Nat
    <2>1. events[i] \in Seq(Event)
      BY <1>1
    <2>2. events[i][n] \in Event
      BY <2>1
    <2> QED
      BY <2>2 DEF Event
  <1>4. ASSUME NEW d \in Client
        PROVE  Numbered(req'[d], refreshes')
    BY <1>1, <1>2, <1>4 DEF UsageInv, RunInv, Numbered, Others
  <1>5. RunInv'
    BY <1>1, <1>3, <1>4 DEF UsageInv, RunInv
  <1>6. AccountInv'
    BY DEF UsageInv, AccountInv, Others, Asked
  <1>7. ASSUME ~overlapped'
        PROVE  /\ Alone'
               /\ \A d \in Client : /\ Newest(req[d], events[req[d].id])'
                                    /\ Knows(req[d], events[req[d].id])'
                                    /\ Follows(req[d], events[req[d].id])'
               /\ \A i \in Id : Grows(events'[i]) /\ Sums(events'[i])
    <2>1. /\ Alone
          /\ \A d \in Client : /\ Newest(req[d], events[req[d].id])
                               /\ Knows(req[d], events[req[d].id])
                               /\ Follows(req[d], events[req[d].id])
          /\ \A i \in Id : Grows(events[i]) /\ Sums(events[i])
          /\ \A d \in Client : req[d].id = req[c].id => req[d].step \notin Runs
      BY <1>7 DEF UsageInv, OrderInv, Refreshing
    <2>2. Alone'
      BY <2>1 DEF Alone, Others
    <2>3. Newest(r, events[r.id]) /\ Knows(r, events[r.id]) /\ Follows(r, events[r.id])
      <3>1. \A n \in DOMAIN events[r.id] : events[r.id][n].occurred_at < r.at
        BY <1>1, <1>3 DEF UsageInv, RunInv
      <3> QED
        BY <3>1 DEF Newest, Knows, Follows, Asked
    <2> QED
      BY <2>1, <2>2, <2>3 DEF Others
  <1>8. OrderInv'
    BY <1>7 DEF OrderInv
  <1> QED
    BY <1>5, <1>6, <1>8 DEF UsageInv

\* A refresh goes on, and its tenant's events stay: what it knows now has to be so.
LEMMA GoesOnStep ==
  ASSUME UsageInv, NEW c \in Client, Others(c), req[c].step \in Runs,
         UNCHANGED <<events, balance, spent, refreshes, overlapped>>,
         NEW r, req'[c] = r, r.step \in Asked, r.id = req[c].id, r.at = req[c].at,
         r.step # "record" => r.latest = Absent,
         Before(r.balance, r.spent, balance[r.cred], spent[r.cred]),
         ~overlapped => Knows(r, events[r.id]) /\ Follows(r, events[r.id])
  PROVE  UsageInv'
  <1>1. RunInv'
    BY DEF UsageInv, RunInv, Numbered, Others, Runs, Asked
  <1>2. AccountInv'
    BY DEF UsageInv, AccountInv, Others
  <1>3. OrderInv'
    <2>1. SUFFICES ASSUME ~overlapped
                   PROVE  /\ Alone'
                          /\ \A d \in Client : /\ Newest(req[d], events[req[d].id])'
                                               /\ Knows(req[d], events[req[d].id])'
                                               /\ Follows(req[d], events[req[d].id])'
                          /\ \A i \in Id : Grows(events'[i]) /\ Sums(events'[i])
      BY DEF OrderInv
    <2>2. /\ Alone
          /\ \A d \in Client : /\ Newest(req[d], events[req[d].id])
                               /\ Knows(req[d], events[req[d].id])
                               /\ Follows(req[d], events[req[d].id])
          /\ \A i \in Id : Grows(events[i]) /\ Sums(events[i])
      BY <2>1 DEF UsageInv, OrderInv
    <2>3. Alone'
      BY <2>2 DEF Alone, Others
    <2>4. Newest(r, events[r.id])
      BY <2>2 DEF Newest
    <2>5. Knows(r, events[r.id]) /\ Follows(r, events[r.id])
      BY <2>1
    <2> QED
      BY <2>2, <2>3, <2>4, <2>5 DEF Others
  <1> QED
    BY <1>1, <1>2, <1>3 DEF UsageInv

\* Something is spent of an account, or paid into it.
LEMMA AccountStep ==
  ASSUME TypeInv, UsageInv, NEW d \in Cred, Spend(d) \/ Recharge(d)
  PROVE  UsageInv'
  <1>1. /\ UNCHANGED <<events, req, refreshes, overlapped>>
        /\ balance \in [Cred -> Nat] /\ spent \in [Cred -> Nat]
    BY AccountsAssumption DEF Spend, Recharge, database, history, TypeInv, TypeOK
  <1>2. /\ \A e \in Cred : balance'[e] \in Int /\ spent'[e] \in Int
        /\ \A e \in Cred : Before(balance[e], spent[e], balance'[e], spent'[e])
    BY <1>1 DEF Spend, Recharge, Before
  <1>3. ASSUME NEW b \in Nat, NEW s \in Nat, NEW e \in Cred, Before(b, s, balance[e], spent[e])
        PROVE  Before(b, s, balance'[e], spent'[e])
    BY <1>1, <1>2, <1>3 DEF Before
  <1>4. AccountInv'
    <2>1. ASSUME NEW c \in Client, req[c].step \in Asked
          PROVE  req[c].balance \in Nat /\ req[c].spent \in Nat /\ req[c].cred \in Cred
      BY <2>1 DEF TypeInv, TypeOK, ReqInv, Fit, Request, Asked
    <2>2. ASSUME NEW i \in Id, NEW n \in DOMAIN events[i]
          PROVE  events[i][n].balance \in Nat /\ events[i][n].spent \in Nat /\ events[i][n].cred \in Cred
      <3>1. events[i] \in Seq(Event)
        BY DEF TypeInv, TypeOK
      <3>2. events[i][n] \in Event
        BY <3>1
      <3> QED
        BY <3>2 DEF Event
    <2> QED
      BY <1>1, <1>3, <2>1, <2>2 DEF UsageInv, AccountInv
  <1>5. RunInv' /\ OrderInv'
    BY <1>1 DEF UsageInv, RunInv, OrderInv, Alone
  <1> QED
    BY <1>4, <1>5 DEF UsageInv

LEMMA AppendIs ==
  ASSUME NEW S, NEW log \in Seq(S), NEW e \in S
  PROVE  /\ Append(log, e)[Len(log) + 1] = e
         /\ \A n \in 1..Len(log) : Append(log, e)[n] = log[n]
  OBVIOUS

\* An event is recorded of what a refresh knows.
LEMMA SumsGrow ==
  ASSUME NEW log \in Seq(Event), NEW e \in Event, Grows(log), Sums(log),
         \A n \in DOMAIN log : log[n].occurred_at < e.occurred_at,
         e.amount = Delta(IF log = <<>> THEN Absent ELSE LastOf(log).balance, e.balance),
         log # <<>> /\ LastOf(log).cred = e.cred =>
           Before(LastOf(log).balance, LastOf(log).spent, e.balance, e.spent)
  PROVE  Grows(Append(log, e)) /\ Sums(Append(log, e))
  <1> DEFINE N == Len(log)
             longer == Append(log, e)
  <1>1. N \in Nat /\ DOMAIN log = 1..N /\ (log = <<>> <=> N = 0)
    OBVIOUS
  <1>2. DOMAIN longer = 1..(N + 1) /\ Len(longer) = N + 1 /\ longer # <<>>
    <2>1. DOMAIN longer = 1..(N + 1) /\ Len(longer) = N + 1
      OBVIOUS
    <2> QED
      BY <1>1, <2>1
  <1>3. longer[N + 1] = e /\ \A n \in 1..N : longer[n] = log[n]
    BY AppendIs
  <1>4. LastOf(longer) = e
    BY <1>2, <1>3 DEF LastOf
  <1>5. Used(longer) = Used(log) + e.amount /\ Used(log) \in Nat
    BY UsedAppends, UsedType
  <1>6. \A n \in 1..N : /\ log[n].spent \in Nat /\ log[n].balance \in Nat
    <2>1. \A n \in 1..N : log[n] \in Event
      BY <1>1
    <2> QED
      BY <2>1 DEF Event
  <1>7. e.spent \in Nat /\ e.balance \in Nat /\ e.amount \in Nat
    BY DEF Event
  <1> HIDE DEF longer, N
  <1>8. Grows(longer)
    <2>1. ASSUME NEW n \in 1..(N + 1), n # N + 1
          PROVE  longer[n].occurred_at < e.occurred_at
      <3>1. n \in 1..N
        BY <1>1, <2>1
      <3> QED
        BY <1>1, <1>3, <3>1
    <2> QED
      BY <1>2, <1>4, <2>1 DEF Grows
  <1>9. CASE N = 0
    <2>1. log = <<>> /\ Used(log) = 0 /\ longer[1] = e
      BY <1>1, <1>3, <1>9, UsedOfNone
    <2>2. e.amount = 0
      BY <2>1 DEF Delta
    <2> QED
      BY <1>4, <1>5, <1>7, <1>8, <2>1, <2>2 DEF Sums, longer
  <1>10. CASE N # 0
    <2>1. SUFFICES ASSUME OneAccount(longer)
                   PROVE  /\ longer[1].spent + Used(longer) <= e.spent
                          /\ longer[1].balance + longer[1].spent <= e.balance + e.spent
                          /\ longer[1].balance + longer[1].spent = e.balance + e.spent
                               => longer[1].spent + Used(longer) = e.spent
      BY <1>4, <1>8 DEF Sums, longer
    <2> DEFINE first == log[1]
               last == LastOf(log)
    <2>2. log # <<>> /\ N \in 1..N /\ 1 \in 1..N /\ N + 1 \in 1..(N + 1) /\ last = log[N]
      BY <1>1, <1>10 DEF LastOf, N
    <2>3. longer[1] = first
      BY <1>3, <2>2
    <2>4. last.cred = first.cred /\ e.cred = first.cred /\ OneAccount(log)
      <3>1. \A n \in 1..(N + 1) : longer[n].cred = first.cred
        BY <1>2, <2>1, <2>3 DEF OneAccount
      <3>2. \A n \in 1..N : n \in 1..(N + 1)
        BY <1>1
      <3>3. \A n \in 1..N : log[n].cred = first.cred
        BY <1>3, <3>1, <3>2
      <3>4. e.cred = first.cred
        BY <1>3, <2>2, <3>1
      <3> QED
        BY <1>1, <2>2, <3>3, <3>4 DEF OneAccount
    <2>5. /\ first.spent + Used(log) <= last.spent
          /\ first.balance + first.spent <= last.balance + last.spent
          /\ first.balance + first.spent = last.balance + last.spent
               => first.spent + Used(log) = last.spent
      BY <2>2, <2>4 DEF Sums
    <2>6. last.spent <= e.spent /\ last.balance + last.spent <= e.balance + e.spent
      BY <2>2, <2>4 DEF Before
    <2>7. e.amount = IF last.balance <= e.balance THEN 0 ELSE last.balance - e.balance
      BY <1>6, <2>2, AccountsAssumption DEF Delta
    <2>8. /\ first.spent \in Nat /\ first.balance \in Nat
          /\ last.spent \in Nat /\ last.balance \in Nat
      BY <1>6, <2>2
    <2> DEFINE b1 == first.balance
               s1 == first.spent
               b2 == last.balance
               s2 == last.spent
               b3 == e.balance
               s3 == e.spent
               used == Used(log)
               amount == e.amount
    <2>9. /\ b1 \in Nat /\ s1 \in Nat /\ b2 \in Nat /\ s2 \in Nat /\ b3 \in Nat /\ s3 \in Nat
          /\ used \in Nat /\ amount \in Nat
          /\ s1 + used <= s2 /\ b1 + s1 <= b2 + s2 /\ (b1 + s1 = b2 + s2 => s1 + used = s2)
          /\ s2 <= s3 /\ b2 + s2 <= b3 + s3
      BY <1>5, <1>7, <2>5, <2>6, <2>8, Zenon
    <2>10. (b2 <= b3 => amount = 0) /\ (~(b2 <= b3) => amount = b2 - b3)
      BY <2>7
    <2>11. longer[1].spent = s1 /\ longer[1].balance = b1 /\ Used(longer) = used + amount
      BY <1>5, <2>3
    <2> HIDE DEF first, last, b1, s1, b2, s2, b3, s3, used, amount
    <2>12. /\ s1 + (used + amount) <= s3
           /\ b1 + s1 <= b3 + s3
           /\ b1 + s1 = b3 + s3 => s1 + (used + amount) = s3
      <3>1. CASE b2 <= b3
        BY <2>9, <2>10, <3>1
      <3>2. CASE ~(b2 <= b3)
        BY <2>9, <2>10, <3>2
      <3> QED
        BY <3>1, <3>2
    <2> QED
      BY <2>11, <2>12 DEF b3, s3
  <1> QED
    BY <1>8, <1>9, <1>10 DEF longer

LEMMA Appended ==
  ASSUME NEW log \in Seq(Event), NEW e
  PROVE  LET longer == Append(log, e)
         IN  /\ Len(log) \in Nat /\ DOMAIN log = 1..Len(log)
             /\ DOMAIN longer = 1..(Len(log) + 1)
             /\ \A n \in 1..(Len(log) + 1) : longer[n] = e \/ (n \in DOMAIN log /\ longer[n] = log[n])
  OBVIOUS

LEMMA RecordedStep ==
  ASSUME TypeInv, UsageInv, NEW c \in Client, Others(c), req[c].step = "record",
         UNCHANGED <<balance, spent, refreshes, overlapped>>, Calm(req'[c]),
         NEW e \in Event, events' = [events EXCEPT ![req[c].id] = Append(events[req[c].id], e)],
         e.occurred_at = req[c].at, e.cred = req[c].cred, e.balance = req[c].balance,
         e.spent = req[c].spent, e.amount = Delta(req[c].latest, req[c].balance)
  PROVE  UsageInv'
  <1> DEFINE i == req[c].id
             log == events[i]
  <1>1. i \in Id /\ log \in Seq(Event) /\ events \in [Id -> Seq(Event)]
    BY DEF TypeInv, TypeOK, ReqInv, Fit, Routed, Tenants
  <1>2. events'[i] = Append(log, e) /\ \A j \in Id \ {i} : events'[j] = events[j]
    BY <1>1
  <1> HIDE DEF i, log
  <1>3. /\ Len(log) \in Nat /\ DOMAIN log = 1..Len(log)
        /\ DOMAIN events'[i] = 1..(Len(log) + 1)
        /\ \A n \in 1..(Len(log) + 1) : events'[i][n] = e \/ (n \in DOMAIN log /\ events'[i][n] = log[n])
    <2>1. /\ Len(log) \in Nat /\ DOMAIN log = 1..Len(log)
          /\ DOMAIN Append(log, e) = 1..(Len(log) + 1)
          /\ \A n \in 1..(Len(log) + 1) :
               Append(log, e)[n] = e \/ (n \in DOMAIN log /\ Append(log, e)[n] = log[n])
      BY <1>1, Appended
    <2> QED
      BY <1>2, <2>1
  <1>4. RunInv'
    <2>1. \A d \in Client : Numbered(req'[d], refreshes')
      BY DEF UsageInv, RunInv, Numbered, Others, Calm, Runs
    <2>2. e.occurred_at <= refreshes
      BY DEF UsageInv, RunInv, Numbered, Runs
    <2>3. ASSUME NEW j \in Id, NEW n \in DOMAIN events'[j]
          PROVE  events'[j][n].occurred_at <= refreshes
      BY <1>1, <1>2, <1>3, <2>2, <2>3 DEF UsageInv, RunInv, log
    <2> QED
      BY <2>1, <2>3 DEF RunInv
  <1>5. AccountInv'
    <2>1. Before(e.balance, e.spent, balance[e.cred], spent[e.cred])
      BY DEF UsageInv, AccountInv, Asked
    <2>2. ASSUME NEW j \in Id, NEW n \in DOMAIN events'[j]
          PROVE  Before(events'[j][n].balance, events'[j][n].spent,
                        balance[events'[j][n].cred], spent[events'[j][n].cred])
      BY <1>1, <1>2, <1>3, <2>1, <2>2 DEF UsageInv, AccountInv, log
    <2>3. ASSUME NEW d \in Client, req'[d].step \in Asked
          PROVE  Before(req'[d].balance, req'[d].spent, balance[req'[d].cred], spent[req'[d].cred])
      BY <2>3 DEF UsageInv, AccountInv, Others, Calm, Runs, Asked
    <2> QED
      BY <2>2, <2>3 DEF AccountInv
  <1>6. OrderInv'
    <2>1. SUFFICES ASSUME ~overlapped
                   PROVE  /\ Alone'
                          /\ \A d \in Client : /\ Newest(req[d], events[req[d].id])'
                                               /\ Knows(req[d], events[req[d].id])'
                                               /\ Follows(req[d], events[req[d].id])'
                          /\ \A j \in Id : Grows(events'[j]) /\ Sums(events'[j])
      BY DEF OrderInv
    <2>2. /\ Alone
          /\ \A d \in Client : /\ Newest(req[d], events[req[d].id])
                               /\ Knows(req[d], events[req[d].id])
                               /\ Follows(req[d], events[req[d].id])
          /\ \A j \in Id : Grows(events[j]) /\ Sums(events[j])
      BY <2>1 DEF UsageInv, OrderInv
    <2>3. Alone'
      BY <2>2 DEF Alone, Others, Calm
    <2>4. ASSUME NEW d \in Client
          PROVE  /\ Newest(req[d], events[req[d].id])'
                 /\ Knows(req[d], events[req[d].id])'
                 /\ Follows(req[d], events[req[d].id])'
      <3>1. CASE req'[d].step \notin Runs
        BY <3>1 DEF Newest, Knows, Follows, Runs, Asked
      <3>2. CASE req'[d].step \in Runs
        <4>1. d # c /\ req'[d] = req[d]
          BY <3>2 DEF Others, Calm
        <4>2. req[d].id # i
          BY <2>2, <3>2, <4>1 DEF Alone, Runs, i
        <4>3. req[d].id \in Id
          BY <3>2, <4>1 DEF TypeInv, TypeOK, ReqInv, Fit, Routed, Tenants, Runs
        <4>4. events'[req[d].id] = events[req[d].id]
          BY <1>2, <4>2, <4>3
        <4> QED
          BY <2>2, <4>1, <4>4
      <3> QED
        BY <3>1, <3>2
    <2>5. Grows(events'[i]) /\ Sums(events'[i])
      <3>1. Newest(req[c], log) /\ Knows(req[c], log) /\ Follows(req[c], log) /\ Grows(log) /\ Sums(log)
        BY <1>1, <2>2 DEF i, log
      <3>2. /\ \A n \in DOMAIN log : log[n].occurred_at < e.occurred_at
            /\ e.amount = Delta(IF log = <<>> THEN Absent ELSE LastOf(log).balance, e.balance)
            /\ log # <<>> /\ LastOf(log).cred = e.cred =>
                 Before(LastOf(log).balance, LastOf(log).spent, e.balance, e.spent)
        BY <3>1 DEF Newest, Knows, Follows, Runs, Asked
      <3> QED
        BY <1>1, <1>2, <3>1, <3>2, SumsGrow
    <2>6. \A j \in Id : Grows(events'[j]) /\ Sums(events'[j])
      BY <1>2, <2>2, <2>5
    <2> QED
      BY <2>3, <2>4, <2>6
  <1> QED
    BY <1>4, <1>5, <1>6 DEF UsageInv

Accounted == <<events, balance, spent, refreshes, overlapped>>

LEMMA GoesQuietly ==
  ASSUME TypeInv, NEW c \in Client, NEW r, Goes(c, r), Calm(r), UNCHANGED Accounted
  PROVE  Quietly
  <1>1. req'[c] = r /\ \A d \in Client \ {c} : req'[d] = req[d]
    BY DEF Goes, TypeInv, TypeOK
  <1> QED
    BY <1>1 DEF Quietly, Accounted, Same

LEMMA EndsQuietly ==
  ASSUME TypeInv, NEW c \in Client, UNCHANGED Accounted,
         Ends(c) \/ Fails(c) \/ \E p : Serves(c, p)
  PROVE  Quietly
  <1>1. Calm(NoRequest)
    BY DEF Calm, NoRequest, Runs
  <1>2. ASSUME NEW p, Serves(c, p)
        PROVE  Quietly
    <2> DEFINE r == [NoRequest EXCEPT !.step = "served", !.cred = p.cred, !.showing = req[c].showing]
    <2>1. Goes(c, r)
      BY <1>2 DEF Serves
    <2>2. Calm(r)
      BY DEF Calm, NoRequest, Runs
    <2> HIDE DEF r
    <2> QED
      BY <2>1, <2>2, GoesQuietly
  <1>3. CASE Ends(c)
    BY <1>1, <1>3, GoesQuietly DEF Ends
  <1> QED
    BY <1>2, <1>3 DEF Fails

\* A request that goes on and has read no event yet.
LEMMA PlainGoesQuietly ==
  ASSUME TypeInv, UsageInv, NEW c \in Client, NEW r, Goes(c, r), UNCHANGED Accounted,
         r.step \notin Runs, r.latest = req[c].latest \/ r.latest = Absent,
         r.step # "store" => req[c].step \notin {"record", "store"}
  PROVE  Quietly
  <1>1. Calm(r)
    BY DEF UsageInv, RunInv, Numbered, Calm
  <1> QED
    BY <1>1, GoesQuietly

LEMMA UpsertQuietly ==
  ASSUME TypeInv, NEW c \in Client, NEW r, Calm(r), NEW i, NEW k, NEW d, Upsert(c, r, i, k, d),
         UNCHANGED Accounted
  PROVE  Quietly
  <1>1. req'[c] = r
    BY DEF Upsert
  <1>2. ASSUME NEW e \in Client, e # c
        PROVE  Same(req'[e], req[e])
    <2>1. req[e] \in Request
      BY DEF TypeInv, TypeOK
    <2>2. req'[e] = req[e] \/ req'[e] = [req[e] EXCEPT !.showing = @ \cup {d}]
      BY <1>2 DEF Upsert
    <2> QED
      BY <2>1, <2>2 DEF Same, Request
  <1> QED
    BY <1>1, <1>2 DEF Quietly, Accounted

LEMMA AskQuietly ==
  ASSUME TypeInv, UsageInv, NEW c \in Client, NEW v \in Value, NEW what \in {"credentials", "monitors"},
         Ask(c, what, v)
  PROVE  Quietly
  <1> DEFINE r == [NoRequest EXCEPT !.does = what, !.value = v, !.at = clock]
  <1>1. UNCHANGED Accounted
    BY DEF Ask, Accounted, database, provider, history
  <1>2. /\ r.latest = Absent
        /\ \A i, s : [r EXCEPT !.step = "admitted", !.id = i, !.showing = s].latest = Absent
        /\ \A i, s : [r EXCEPT !.step = "admitted", !.id = i, !.showing = s].step = "admitted"
        /\ [r EXCEPT !.step = "lookup"].latest = Absent /\ [r EXCEPT !.step = "lookup"].step = "lookup"
    BY DEF NoRequest
  <1>3. Goes(c, [r EXCEPT !.step = "lookup"]) \/ \E e \in keys : Admitted(c, r, e.id)
    BY DEF Ask
  <1>4. CASE Goes(c, [r EXCEPT !.step = "lookup"])
    <2> DEFINE q == [r EXCEPT !.step = "lookup"]
    <2>1. Calm(q) /\ Goes(c, q)
      BY <1>2, <1>4 DEF Calm, Runs
    <2> HIDE DEF q
    <2> QED
      BY <1>1, <2>1, GoesQuietly
  <1>5. ASSUME NEW e \in keys, Admitted(c, r, e.id)
        PROVE  Quietly
    <2> DEFINE shown == IF r.does = "monitors" THEN InForce(e.id) ELSE {}
               q == [r EXCEPT !.step = "admitted", !.id = e.id, !.showing = shown]
    <2>1. Goes(c, q)
      BY <1>5 DEF Admitted
    <2> HIDE DEF shown, r
    <2>2. Calm(q)
      BY <1>2 DEF Calm, Runs
    <2> HIDE DEF q
    <2> QED
      BY <1>1, <2>1, <2>2, GoesQuietly
  <1> QED
    BY <1>3, <1>4, <1>5

LEMMA LookupQuietly ==
  ASSUME TypeInv, UsageInv, NEW c \in Client, Lookup(c)
  PROVE  Quietly
  <1>1. UNCHANGED Accounted /\ req[c].step = "lookup" /\ req[c] \in Request
    BY DEF Lookup, Accounted, database, provider, history, TypeInv, TypeOK
  <1>2. CASE Ends(c)
    BY <1>1, <1>2, EndsQuietly
  <1>3. ASSUME NEW i, Admitted(c, req[c], i)
        PROVE  Quietly
    <2> DEFINE shown == IF req[c].does = "monitors" THEN InForce(i) ELSE {}
               q == [req[c] EXCEPT !.step = "admitted", !.id = i, !.showing = shown]
    <2>1. Goes(c, q)
      BY <1>3 DEF Admitted
    <2> HIDE DEF shown
    <2>2. q.step = "admitted" /\ q.latest = req[c].latest
      BY <1>1 DEF Request
    <2> HIDE DEF q
    <2> QED
      BY <1>1, <2>1, <2>2, PlainGoesQuietly DEF Runs
  <1> QED
    BY <1>2, <1>3 DEF Lookup

LEMMA TenantsQuietly ==
  ASSUME TypeInv, UsageInv, NEW c \in Client,
         (\E k \in Key : Create(c, k)) \/ List(c) \/ Insert(c) \/ ReadTenant(c) \/ WriteTenant(c) \/ ClearMonitor(c)
  PROVE  Quietly
  <1>1. UNCHANGED Accounted /\ req[c] \in Request
    BY DEF Create, List, Insert, ReadTenant, WriteTenant, ClearMonitor, Accounted,
           database, provider, history, TypeInv, TypeOK
  <1>2. Calm(NoRequest)
    BY DEF Calm, NoRequest, Runs
  <1>3. CASE Ends(c)
    BY <1>1, <1>3, EndsQuietly
  <1>4. ASSUME NEW k, Create(c, k)
        PROVE  Quietly
    <2> DEFINE r == [NoRequest EXCEPT !.step = "list", !.does = "create", !.value = k]
    <2>1. Goes(c, r)
      BY <1>4 DEF Create
    <2>2. Calm(r)
      BY DEF Calm, NoRequest, Runs
    <2> HIDE DEF r
    <2> QED
      BY <1>1, <2>1, <2>2, GoesQuietly
  <1>5. CASE List(c)
    <2>1. req[c].step = "list"
      BY <1>5 DEF List
    <2>2. ASSUME NEW i, Goes(c, [req[c] EXCEPT !.step = "insert", !.id = i])
          PROVE  Quietly
      <3> DEFINE r == [req[c] EXCEPT !.step = "insert", !.id = i]
      <3>1. Goes(c, r) /\ r.step = "insert" /\ r.latest = req[c].latest
        BY <1>1, <2>2 DEF Request
      <3> HIDE DEF r
      <3> QED
        BY <1>1, <2>1, <3>1, PlainGoesQuietly DEF Runs
    <2> QED
      BY <1>3, <1>5, <2>2 DEF List
  <1>6. CASE Insert(c)
    BY <1>1, <1>2, <1>3, <1>6, UpsertQuietly DEF Insert
  <1>7. CASE ReadTenant(c)
    <2>1. req[c].step = "admitted"
      BY <1>7 DEF ReadTenant
    <2>2. ASSUME NEW k, Goes(c, [req[c] EXCEPT !.step = "write", !.at = 0, !.value = k])
          PROVE  Quietly
      <3> DEFINE r == [req[c] EXCEPT !.step = "write", !.at = 0, !.value = k]
      <3>1. Goes(c, r) /\ r.step = "write" /\ r.latest = req[c].latest
        BY <1>1, <2>2 DEF Request
      <3> HIDE DEF r
      <3> QED
        BY <1>1, <2>1, <3>1, PlainGoesQuietly DEF Runs
    <2> QED
      BY <1>3, <1>7, <2>2 DEF ReadTenant
  <1>8. CASE WriteTenant(c)
    <2> DEFINE clears == [req[c] EXCEPT !.step = "clear", !.value = Absent, !.cred = rows[req[c].id].cred]
    <2>1. req[c].step = "write" /\ req[c].latest = Absent
      BY <1>8 DEF WriteTenant, UsageInv, RunInv, Numbered
    <2>2. Calm(clears)
      BY <1>1, <2>1 DEF Calm, Request, Runs
    <2>3. \/ \E i, k, d : Upsert(c, clears, i, k, d) \/ Upsert(c, NoRequest, i, k, d)
          \/ Goes(c, clears) \/ Ends(c)
      BY <1>8 DEF WriteTenant
    <2> HIDE DEF clears
    <2> QED
      BY <1>1, <1>2, <1>3, <2>2, <2>3, UpsertQuietly, GoesQuietly
  <1>9. CASE ClearMonitor(c)
    BY <1>3, <1>9 DEF ClearMonitor
  <1> QED
    BY <1>4, <1>5, <1>6, <1>7, <1>8, <1>9

LEMMA MonitorQuietly ==
  ASSUME TypeInv, UsageInv, NEW c \in Client, GetMonitor(c) \/ StoreMonitor(c)
  PROVE  Quietly
  <1>1. UNCHANGED Accounted /\ req[c] \in Request
    BY DEF GetMonitor, StoreMonitor, Accounted, api, database, provider, history, TypeInv, TypeOK
  <1>2. CASE (\E p : Serves(c, p)) \/ Fails(c)
    BY <1>1, <1>2, EndsQuietly
  <1>3. ASSUME NEW h, Goes(c, [req[c] EXCEPT !.step = "config", !.value = Absent, !.at = 0, !.held = h]),
               req[c].step = "admitted"
        PROVE  Quietly
    <2> DEFINE r == [req[c] EXCEPT !.step = "config", !.value = Absent, !.at = 0, !.held = h]
    <2>1. Goes(c, r) /\ r.step = "config" /\ r.latest = req[c].latest
      BY <1>1, <1>3 DEF Request
    <2> HIDE DEF r
    <2> QED
      BY <1>1, <1>3, <2>1, PlainGoesQuietly DEF Runs
  <1>4. CASE GetMonitor(c)
    BY <1>2, <1>3, <1>4 DEF GetMonitor
  <1>5. CASE StoreMonitor(c)
    BY <1>2, <1>5 DEF StoreMonitor
  <1> QED
    BY <1>4, <1>5

LEMMA ReadConfigUsage ==
  ASSUME TypeInv, UsageInv, NEW c \in Client, ReadConfig(c)
  PROVE  UsageInv'
  <1>1. /\ req[c].step = "config" /\ req[c] \in Request /\ req[c].id \in Id
        /\ UNCHANGED <<events, balance, spent>> /\ req[c].latest = Absent
        /\ req \in [Client -> Request]
    BY DEF ReadConfig, database, provider, TypeInv, TypeOK, ReqInv, Fit, Routed, Tenants,
           UsageInv, RunInv, Numbered
  <1>2. ASSUME NEW d, Goes(c, [req[c] EXCEPT !.step = "fetch", !.cred = d, !.at = refreshes + 1]),
               refreshes' = refreshes + 1,
               overlapped' = (overlapped \/ Refreshing(req[c].id, {"fetch", "latest", "record"}) # {})
        PROVE  UsageInv'
    <2> DEFINE r == [req[c] EXCEPT !.step = "fetch", !.cred = d, !.at = refreshes + 1]
    <2>1. /\ r.step = "fetch" /\ r.id = req[c].id /\ r.at = refreshes + 1 /\ r.latest = Absent
          /\ req' = [req EXCEPT ![c] = r]
      BY <1>1, <1>2 DEF Request, Goes
    <2> HIDE DEF r
    <2>2. req'[c] = r /\ Others(c)
      BY <1>1, <2>1 DEF Others
    <2> QED
      BY <1>1, <1>2, <2>1, <2>2, BeginStep DEF Runs
  <1>3. CASE Ends(c) /\ UNCHANGED <<refreshes, overlapped>>
    BY <1>1, <1>3, EndsQuietly, QuietStep DEF Accounted
  <1> QED
    BY <1>2, <1>3 DEF ReadConfig

LEMMA FetchBalanceUsage ==
  ASSUME TypeInv, UsageInv, NEW c \in Client, FetchBalance(c)
  PROVE  UsageInv'
  <1> DEFINE d == req[c].cred
  <1>1. /\ req[c].step = "fetch" /\ req[c] \in Request /\ req[c].id \in Id
        /\ UNCHANGED Accounted /\ req[c].latest = Absent /\ req \in [Client -> Request]
    BY DEF FetchBalance, Accounted, database, provider, history, TypeInv, TypeOK, ReqInv, Fit, Routed,
           Tenants, UsageInv, RunInv, Numbered
  <1>2. CASE d # Absent /\ Goes(c, [req[c] EXCEPT !.step = "latest", !.balance = balance[d], !.spent = spent[d]])
    <2> DEFINE r == [req[c] EXCEPT !.step = "latest", !.balance = balance[d], !.spent = spent[d]]
    <2>1. /\ r.step = "latest" /\ r.id = req[c].id /\ r.at = req[c].at /\ r.latest = Absent
          /\ r.balance = balance[d] /\ r.spent = spent[d] /\ r.cred = d
          /\ req' = [req EXCEPT ![c] = r]
      BY <1>1, <1>2 DEF Request, Goes
    <2> HIDE DEF r
    <2>2. req'[c] = r /\ Others(c)
      BY <1>1, <2>1 DEF Others
    <2>3. Before(r.balance, r.spent, balance[r.cred], spent[r.cred])
      <3>1. d \in Cred
        BY <1>1, <1>2 DEF Request
      <3>2. balance[d] \in Nat /\ spent[d] \in Nat
        BY <3>1, AccountsAssumption DEF TypeInv, TypeOK
      <3> QED
        BY <2>1, <3>2 DEF Before
    <2>4. Follows(r, events[r.id])
      <3>1. SUFFICES ASSUME events[r.id] # <<>>, LastOf(events[r.id]).cred = d
                     PROVE  Before(LastOf(events[r.id]).balance, LastOf(events[r.id]).spent, r.balance, r.spent)
        BY <2>1 DEF Follows
      <3>2. events[r.id] \in Seq(Event)
        BY <1>1, <2>1 DEF TypeInv, TypeOK
      <3>3. Len(events[r.id]) \in DOMAIN events[r.id]
        BY <3>1, <3>2
      <3> QED
        BY <1>1, <2>1, <3>1, <3>3 DEF UsageInv, AccountInv, LastOf
    <2>5. Knows(r, events[r.id])
      BY <2>1 DEF Knows
    <2> QED
      BY <1>1, <2>1, <2>2, <2>3, <2>4, <2>5, GoesOnStep DEF Accounted, Runs, Asked
  <1>3. CASE Goes(c, [req[c] EXCEPT !.step = "store"])
    <2> DEFINE r == [req[c] EXCEPT !.step = "store"]
    <2>1. Goes(c, r) /\ r.step = "store" /\ r.latest = req[c].latest
      BY <1>1, <1>3 DEF Request
    <2> HIDE DEF r
    <2> QED
      BY <1>1, <2>1, PlainGoesQuietly, QuietStep DEF Runs
  <1>4. CASE Fails(c)
    BY <1>1, <1>4, EndsQuietly, QuietStep
  <1> QED
    BY <1>2, <1>3, <1>4 DEF FetchBalance

LEMMA ReadLatestUsage ==
  ASSUME TypeInv, UsageInv, NEW c \in Client, ReadLatest(c)
  PROVE  UsageInv'
  <1> DEFINE log == events[req[c].id]
             seen == {log[n] : n \in DOMAIN log}
  <1>1. /\ req[c].step = "latest" /\ req[c] \in Request /\ req[c].id \in Id /\ log \in Seq(Event)
        /\ UNCHANGED Accounted /\ req[c].latest = Absent /\ req \in [Client -> Request]
    BY DEF ReadLatest, Accounted, database, provider, history, TypeInv, TypeOK, ReqInv, Fit, Routed,
           Tenants, UsageInv, RunInv, Numbered
  <1>2. /\ Before(req[c].balance, req[c].spent, balance[req[c].cred], spent[req[c].cred])
        /\ ~overlapped => Follows(req[c], log) /\ Grows(log)
    BY <1>1 DEF UsageInv, AccountInv, OrderInv, Asked
  <1>3. ASSUME NEW r, req' = [req EXCEPT ![c] = r], r.step = "record", r.id = req[c].id, r.at = req[c].at,
               r.cred = req[c].cred, r.balance = req[c].balance, r.spent = req[c].spent,
               ~overlapped => Knows(r, log)
        PROVE  UsageInv'
    <2>1. req'[c] = r /\ Others(c)
      BY <1>1, <1>3 DEF Others
    <2>2. ~overlapped => Follows(r, log)
      BY <1>1, <1>2, <1>3 DEF Follows, Asked
    <2> HIDE DEF log
    <2>3. events[r.id] = log
      BY <1>3 DEF log
    <2> QED
      BY <1>1, <1>2, <1>3, <2>1, <2>2, <2>3, GoesOnStep DEF Accounted, Runs, Asked
  <1>4. CASE seen = {} /\ Goes(c, [req[c] EXCEPT !.step = "record"])
    <2> DEFINE r == [req[c] EXCEPT !.step = "record"]
    <2>1. /\ r.step = "record" /\ r.id = req[c].id /\ r.at = req[c].at /\ r.cred = req[c].cred
          /\ r.balance = req[c].balance /\ r.spent = req[c].spent /\ r.latest = Absent
          /\ req' = [req EXCEPT ![c] = r]
      BY <1>1, <1>4 DEF Request, Goes
    <2> HIDE DEF r
    <2>2. log = <<>>
      <3>1. log # <<>> => 1 \in DOMAIN log
        BY <1>1
      <3> QED
        BY <1>4, <3>1
    <2>3. Knows(r, log)
      BY <2>1, <2>2 DEF Knows
    <2> QED
      BY <1>3, <2>1, <2>3
  <1>5. ASSUME NEW e \in seen, \A f \in seen : f.occurred_at <= e.occurred_at,
               Goes(c, [req[c] EXCEPT !.step = "record", !.latest = e.balance])
        PROVE  UsageInv'
    <2> DEFINE r == [req[c] EXCEPT !.step = "record", !.latest = e.balance]
    <2>1. /\ r.step = "record" /\ r.id = req[c].id /\ r.at = req[c].at /\ r.cred = req[c].cred
          /\ r.balance = req[c].balance /\ r.spent = req[c].spent /\ r.latest = e.balance
          /\ req' = [req EXCEPT ![c] = r]
      BY <1>1, <1>5 DEF Request, Goes
    <2> HIDE DEF r
    <2>2. PICK n \in DOMAIN log : e = log[n]
      BY <1>5
    <2>3. /\ Len(log) \in DOMAIN log /\ log # <<>>
          /\ log[n] \in Event /\ LastOf(log) \in Event /\ LastOf(log) \in seen
      <3>1. Len(log) \in DOMAIN log /\ log # <<>>
        BY <1>1, <2>2
      <3>2. log[n] \in Event /\ log[Len(log)] \in Event
        BY <1>1, <2>2, <3>1
      <3> QED
        BY <3>1, <3>2 DEF LastOf
    <2>4. ~overlapped => e = LastOf(log)
      <3>1. LastOf(log).occurred_at \in Nat /\ e.occurred_at \in Nat
        BY <2>2, <2>3 DEF Event
      <3>2. LastOf(log).occurred_at <= e.occurred_at
        BY <1>5, <2>3
      <3>3. CASE n = Len(log)
        BY <2>2, <3>3 DEF LastOf
      <3>4. CASE n # Len(log)
        BY <1>2, <2>2, <3>1, <3>2, <3>4 DEF Grows
      <3> QED
        BY <3>3, <3>4
    <2>5. ~overlapped => Knows(r, log)
      BY <2>1, <2>3, <2>4 DEF Knows
    <2> QED
      BY <1>3, <2>1, <2>5
  <1>6. CASE Fails(c)
    BY <1>1, <1>6, EndsQuietly, QuietStep
  <1> QED
    BY <1>4, <1>5, <1>6 DEF ReadLatest

LEMMA RecordUsageUsage ==
  ASSUME TypeInv, UsageInv, NEW c \in Client, RecordUsage(c)
  PROVE  UsageInv'
  <1> DEFINE r == req[c]
             event == [occurred_at |-> r.at, cred |-> r.cred, balance |-> r.balance,
                       amount |-> Delta(r.latest, r.balance), spent |-> r.spent]
             stores == [r EXCEPT !.step = "store"]
  <1>1. /\ r.step = "record" /\ r \in Request /\ r.cred \in Cred /\ r.balance \in Nat
        /\ req \in [Client -> Request]
        /\ UNCHANGED <<balance, spent, refreshes, overlapped>>
    BY DEF RecordUsage, provider, history, TypeInv, TypeOK, ReqInv, Fit
  <1>2. event \in Event
    <2>1. r.at \in Nat /\ r.spent \in Nat /\ r.latest \in Nat \cup {Absent}
      BY <1>1 DEF Request
    <2>2. Delta(r.latest, r.balance) \in Nat
      BY <1>1, <2>1 DEF Delta
    <2> QED
      BY <1>1, <2>1, <2>2 DEF Event
  <1>3. \/ events' = [events EXCEPT ![r.id] = Append(events[r.id], event)]
        \/ UNCHANGED events
    BY DEF RecordUsage
  <1>4. \E q : Goes(c, q) /\ Calm(q)
    <2>1. CASE Goes(c, stores)
      <3>1. Calm(stores)
        BY <1>1 DEF Calm, Request, Runs
      <3> QED
        BY <2>1, <3>1
    <2>2. CASE Fails(c)
      <3>1. PICK q \in Request : Goes(c, q) /\ q.step \in {"idle", "served"}
        BY <2>2, Failing
      <3>2. q = NoRequest \/ \E p : q = [NoRequest EXCEPT !.step = "served", !.cred = p.cred, !.showing = req[c].showing]
        BY <1>1, <2>2, <3>1 DEF Fails, Ends, Serves, Goes
      <3>3. q.latest = Absent
        <4>1. ASSUME NEW d, NEW shown
              PROVE  [NoRequest EXCEPT !.step = "served", !.cred = d, !.showing = shown].latest = Absent
          BY DEF NoRequest
        <4>2. NoRequest.latest = Absent
          BY DEF NoRequest
        <4>3. ASSUME NEW p, q = [NoRequest EXCEPT !.step = "served", !.cred = p.cred, !.showing = req[c].showing]
              PROVE  q.latest = Absent
          <5> DEFINE d == p.cred
                     shown == req[c].showing
          <5>1. q = [NoRequest EXCEPT !.step = "served", !.cred = d, !.showing = shown]
            BY <4>3
          <5> HIDE DEF d, shown
          <5> QED
            BY <4>1, <5>1
        <4> QED
          BY <3>2, <4>2, <4>3
      <3> QED
        BY <3>1, <3>3 DEF Calm, Runs
    <2> QED
      BY <2>1, <2>2 DEF RecordUsage
  <1>5. PICK q : Goes(c, q) /\ Calm(q)
    BY <1>4
  <1>6. Others(c) /\ req'[c] = q
    BY <1>1, <1>5 DEF Goes, Others
  <1>7. CASE UNCHANGED events
    BY <1>1, <1>5, <1>7, GoesQuietly, QuietStep DEF Accounted
  <1>8. CASE events' = [events EXCEPT ![r.id] = Append(events[r.id], event)]
    <2>1. /\ event.occurred_at = r.at /\ event.cred = r.cred /\ event.balance = r.balance
          /\ event.spent = r.spent /\ event.amount = Delta(r.latest, r.balance)
      OBVIOUS
    <2> HIDE DEF event
    <2> QED
      BY <1>1, <1>2, <1>5, <1>6, <1>8, <2>1, RecordedStep
  <1> QED
    BY <1>3, <1>7, <1>8

LEMMA UsageStep == ASSUME TypeInv, UsageInv, [Next]_vars PROVE UsageInv'
  <1>1. CASE UNCHANGED vars \/ Tick
    <2>1. UNCHANGED <<events, balance, spent, refreshes, overlapped, req>>
      BY <1>1 DEF vars, Tick, api, database, provider, history
    <2>2. Quietly
      BY <2>1 DEF Quietly, Same
    <2> QED
      BY <2>2, QuietStep
  <1>2. CASE Restart
    <2>1. Quietly
      BY <1>2 DEF Quietly, Restart, Calm, NoRequest, Runs, database, provider, history
    <2> QED
      BY <2>1, QuietStep
  <1>3. ASSUME NEW c \in Client, Routes(c)
        PROVE  UsageInv'
    BY <1>3, AskQuietly, LookupQuietly, TenantsQuietly, MonitorQuietly, QuietStep,
       ReadConfigUsage, FetchBalanceUsage, ReadLatestUsage, RecordUsageUsage DEF Routes
  <1> QED
    BY <1>1, <1>2, <1>3, AccountStep DEF Next

LEMMA UsageInit == Init => UsageInv
  <1> SUFFICES ASSUME Init PROVE UsageInv
    OBVIOUS
  <1>1. \A c \in Client : req[c].step = "idle" /\ req[c].latest = Absent
    BY DEF Init, NoRequest
  <1>2. \A i \in Id : events[i] = <<>>
    BY DEF Init
  <1> QED
    BY <1>1, <1>2
    DEF UsageInv, RunInv, AccountInv, OrderInv, Alone, Numbered, Newest, Knows, Follows, Grows, Sums, Runs, Asked

\* For every number of refreshes and of events: while refreshes of a tenant do not
\* overlap, the amounts of its events of one account come to what was spent there
\* between the first of them and the last, or to less if it was recharged; whatever
\* restarts, fails, is lost or is not asked for.
THEOREM AmountsComeToUsage == Spec => []AmountsAreOfUsage
  <1>1. TypeInv /\ UsageInv => AmountsAreOfUsage
    <2> SUFFICES ASSUME TypeInv, UsageInv, NEW i \in Id, ~overlapped, Len(events[i]) > 0,
                        \A n \in DOMAIN events[i] : events[i][n].cred = events[i][1].cred
                 PROVE  /\ events[i][1].spent + Used(events[i]) <= events[i][Len(events[i])].spent
                        /\ events[i][1].balance + events[i][1].spent
                             = events[i][Len(events[i])].balance + events[i][Len(events[i])].spent
                             => events[i][1].spent + Used(events[i]) = events[i][Len(events[i])].spent
      BY DEF AmountsAreOfUsage
    <2>1. events[i] # <<>> /\ OneAccount(events[i])
      BY DEF OneAccount
    <2> QED
      BY <2>1 DEF UsageInv, OrderInv, Sums, LastOf
  <1>2. Init => TypeInv /\ UsageInv
    BY TypeInit, UsageInit
  <1>3. TypeInv /\ UsageInv /\ [Next]_vars => (TypeInv /\ UsageInv)'
    BY TypeStep, UsageStep
  <1> QED
    BY <1>1, <1>2, <1>3, PTL DEF Spec

=============================================================================
