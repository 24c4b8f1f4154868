----------------------------- MODULE MCAccounts -----------------------------
(* An instance of Accounts for TLC. *)
EXTENDS Accounts, Integers, TLC

CONSTANTS c1, c2, k1, k2, d1, d2

Interchangeable == Permutations({c1, c2}) \cup Permutations({k1, k2}) \cup Permutations({d1, d2})

\* How often something was spent of account d, or recharged.
Changes(d) == 2 * spent[d] + balance[d] - MaxBalance

Untouched(d) == Changes(d) = 0

\* A balance of account d is in the events.
Recorded(d) == \E i \in Id : \E n \in DOMAIN events[i] : events[i][n].cred = d

\* Tenants are created, replaced and admitted, or the only one is monitored by its
\* key; once a balance of one of the accounts is recorded, that account changes at
\* the provider, twice.  Nothing is said of a monitor after a late and an
\* overlapping refresh.
TenantsOrMonitors ==
  \/ refreshes = 0 /\ \A d \in Cred : Untouched(d)
  \/ /\ rows[2] = Absent /\ \A c \in Client : req[c].does # "create"
     /\ ~(late /\ overlapped)
     /\ \A c \in Client : req[c].value \notin Id
     /\ \A e \in keys : e.value \notin Id
     /\ \E d \in Cred :
          /\ Changes(d) <= 2 /\ (Untouched(d) \/ Recorded(d))
          /\ \A e \in Cred \ {d} : Untouched(e)
=============================================================================
