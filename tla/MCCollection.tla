---------------------------- MODULE MCCollection ----------------------------
(* An instance of Collection for TLC. *)
EXTENDS Collection, TLC

CONSTANTS b1, b2, d1, a1, a2, a3, c0, c1, n1, n2

Page(notes, more, next) == [notes |-> notes, more |-> more, next |-> next]

\* a1 has two pages, the last of which has a cursor that does not move; a2 shares
\* a post with it and has a cursor that is empty; a3 has no homepage.
Benchmarks == <<a1, a2, a3>>
Pages ==
  (a1 :> ((c0 :> Page(<<n1, Plain>>, TRUE, c1)) @@ (c1 :> Page(<<n1, n2, Blank>>, TRUE, c1))))
    @@ (a2 :> (c0 :> Page(<<n2>>, TRUE, c0)))
    @@ (a3 :> (c0 :> Page(<<n1>>, FALSE, c0)))

Mishaps == faults + crashes + edits

\* One run with all mishaps; two collections, or a collection and a report, one after
\* the other with a mishap, or none; or a report that overlaps a collection, or a
\* collection the last two nodes of another, without.  Requests are repeated.
TwoRuns ==
  \/ status[b2] = "absent" /\ status[d1] = "absent"
  \/ /\ status[b2] # "absent" => status[b1] # "absent" /\ status[d1] = "absent"
     /\ Mishaps <= 1
     /\ \/ \A b, c \in Batch : at[b] # "rest" /\ at[c] # "rest" => b = c
        \/ /\ Mishaps = 0 /\ transients = 0
           /\ at[b1] # "rest" /\ at[b2] # "rest" => node[b1] >= 7
=============================================================================
