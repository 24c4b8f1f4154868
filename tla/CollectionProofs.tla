-------------------------- MODULE CollectionProofs --------------------------
(* Theorems about Collection, for every set of runs, accounts and pages and *)
(* every bound.                                                             *)
EXTENDS Collection, FiniteSetTheorems, WellFoundedInduction, TLAPS

-----------------------------------------------------------------------------
(* Deduped goes through the notes one by one.  FoldLeft is a recursion over  *)
(* the subsets of the positions; that it has a solution, and what it comes   *)
(* to, is an induction over sets of naturals, each of which has a minimum.   *)

LEMMA MinimumExists ==
  ASSUME NEW T, T \subseteq Nat, T # {}
  PROVE  \E m \in T : \A n \in T : m <= n
  <1> DEFINE less == {ss \in Nat \X Nat : ss[1] < ss[2]}
  <1>0. IsWellFoundedOn(less, Nat)
    BY NatLessThanWellFounded, Zenon DEF OpToRel
  <1>1. PICK m \in T : \A n \in T : <<n, m>> \notin less
    <2> HIDE DEF less
    <2> QED
      BY <1>0, WFMin
  <1>2. ASSUME NEW n \in T PROVE m <= n
    <2>1. n \in Nat /\ m \in Nat
      OBVIOUS
    <2>2. ~(n < m)
      BY <1>1, <2>1
    <2> QED
      BY <2>1, <2>2
  <1> QED
    BY <1>2

\* A set that has 0, and with a number its successor, up to N, has them all.
LEMMA Inductive ==
  ASSUME NEW N \in Nat, NEW P, 0 \in P, \A n \in 1..N : n - 1 \in P => n \in P
  PROVE  0..N \subseteq P
  <1> DEFINE bad == (0..N) \ P
  <1>1. SUFFICES ASSUME bad # {} PROVE FALSE
    OBVIOUS
  <1>2. PICK m \in bad : \A n \in bad : m <= n
    <2>1. bad \subseteq Nat
      OBVIOUS
    <2> HIDE DEF bad
    <2> QED
      BY <1>1, <2>1, MinimumExists
  <1>3. m \in 1..N
    BY <1>2
  <1>4. m - 1 \in P
    BY <1>2, <1>3
  <1> QED
    BY <1>2, <1>3, <1>4

LEMMA MaxOf ==
  ASSUME NEW m \in Nat, NEW s, s \subseteq 1..m, m \in s
  PROVE  Max(s) = m
  <1>1. \A x \in s : x \in Int /\ m >= x
    OBVIOUS
  <1>2. \A x \in s : (\A y \in s : x >= y) => x = m
    BY <1>1
  <1> QED
    BY <1>1, <1>2 DEF Max

\* What FoldLeft is the solution of, for the notes at the positions in s.
Folded(g, s, rows, notes) ==
  IF s = {} THEN rows ELSE Keep(g[s \ {Max(s)}], notes[Max(s)])

LEMMA FoldSolved ==
  ASSUME NEW rows, NEW notes, NEW N \in Nat
  PROVE  \E g : g = [s \in SUBSET (1..N) |-> Folded(g, s, rows, notes)]
  <1> DEFINE P == {n \in 0..N : \E g : g = [s \in SUBSET (1..n) |-> Folded(g, s, rows, notes)]}
  <1>1. 0 \in P
    <2> DEFINE g == [s \in SUBSET (1..0) |-> rows]
    <2>1. \A s \in SUBSET (1..0) : s = {}
      OBVIOUS
    <2>2. g = [s \in SUBSET (1..0) |-> Folded(g, s, rows, notes)]
      BY <2>1 DEF Folded
    <2> HIDE DEF g
    <2>3. 0 \in 0..N /\ \E x : x = [s \in SUBSET (1..0) |-> Folded(x, s, rows, notes)]
      BY <2>2
    <2> QED
      BY <2>3
  <1>2. ASSUME NEW n \in 1..N, n - 1 \in P PROVE n \in P
    <2>1. PICK g : g = [s \in SUBSET (1..(n - 1)) |-> Folded(g, s, rows, notes)]
      BY <1>2
    <2> DEFINE h == [s \in SUBSET (1..n) |-> IF n \in s THEN Keep(g[s \ {n}], notes[n]) ELSE g[s]]
    <2>2. ASSUME NEW s \in SUBSET (1..n), n \notin s
          PROVE  s \in SUBSET (1..(n - 1)) /\ s \in SUBSET (1..n)
      BY <2>2
    <2>3. ASSUME NEW s \in SUBSET (1..n) PROVE h[s] = Folded(h, s, rows, notes)
      <3>1. CASE n \in s
        <4>1. Max(s) = n
          <5>1. n \in Nat /\ s \subseteq 1..n
            OBVIOUS
          <5> QED
            BY <3>1, <5>1, MaxOf
        <4>2. h[s \ {n}] = g[s \ {n}] /\ h[s] = Keep(g[s \ {n}], notes[n])
          BY <3>1
        <4> HIDE DEF h
        <4> QED
          BY <3>1, <4>1, <4>2 DEF Folded
      <3>2. CASE n \notin s
        <4>1. h[s] = g[s] /\ g[s] = Folded(g, s, rows, notes)
          BY <2>1, <2>2, <3>2
        <4>2. h[s \ {Max(s)}] = g[s \ {Max(s)}]
          BY <3>2
        <4> HIDE DEF h
        <4> QED
          BY <4>1, <4>2 DEF Folded
      <3> QED
        BY <3>1, <3>2
    <2>4. h = [s \in SUBSET (1..n) |-> h[s]]
      OBVIOUS
    <2> HIDE DEF h
    <2>5. h = [s \in SUBSET (1..n) |-> Folded(h, s, rows, notes)]
      BY <2>3, <2>4
    <2> QED
      BY <2>5
  <1> HIDE DEF P
  <1>3. N \in P
    BY <1>1, <1>2, Inductive
  <1> QED
    BY <1>3 DEF P

\* One note after the other, from the rows there are.
LEMMA DedupedSteps ==
  ASSUME NEW rows, NEW notes \in Seq(Post)
  PROVE  \E f : /\ f[0] = rows
                /\ \A k \in 1..Len(notes) : f[k] = Keep(f[k - 1], notes[k])
                /\ Deduped(rows, notes) = f[Len(notes)]
  <1> DEFINE N == Len(notes)
             iter == CHOOSE g : g = [s \in SUBSET (1..N) |-> Folded(g, s, rows, notes)]
  <1>1. N \in Nat /\ DOMAIN notes = 1..N
    OBVIOUS
  <1>2. iter = [s \in SUBSET (1..N) |-> Folded(iter, s, rows, notes)]
    BY <1>1, FoldSolved
  <1>3. Deduped(rows, notes) = iter[1..N]
    BY <1>1 DEF Deduped, FoldLeft, MapThenFoldSet, Folded
  <1> DEFINE f == [k \in 0..N |-> iter[1..k]]
  <1> HIDE DEF iter
  <1>4. f[0] = rows
    BY <1>1, <1>2 DEF Folded
  <1>5. ASSUME NEW k \in 1..N PROVE f[k] = Keep(f[k - 1], notes[k])
    <2> HIDE DEF N, f
    <2>1. (1..k) \ {k} = 1..(k - 1) /\ 1..k # {} /\ 1..k \subseteq 1..N
      <3>1. k \in Nat /\ 1 <= k /\ k <= N
        BY <1>1
      <3>2. (1..k) \ {k} = 1..(k - 1)
        BY <3>1
      <3>3. 1 \in 1..k /\ 1..k \subseteq 1..N
        BY <1>1, <3>1
      <3> QED
        BY <3>2, <3>3
    <2>3. Max(1..k) = k
      <3>1. k \in Nat /\ 1..k \subseteq 1..k /\ k \in 1..k
        BY <1>1
      <3> DEFINE s == 1..k
      <3> HIDE DEF s
      <3>2. s \subseteq 1..k /\ k \in s
        BY <3>1 DEF s
      <3>3. Max(s) = k
        BY <3>1, <3>2, MaxOf
      <3> QED
        BY <3>3 DEF s
    <2>2. iter[1..k] = Keep(iter[1..(k - 1)], notes[k])
      BY <1>2, <2>1, <2>3 DEF Folded
    <2>4. k \in 0..N /\ k - 1 \in 0..N
      BY <1>1
    <2> QED
      BY <2>2, <2>4 DEF f
  <1> HIDE DEF f
  <1>6. Deduped(rows, notes) = f[N]
    BY <1>1, <1>3 DEF f
  <1> QED
    BY <1>4, <1>5, <1>6

\* No link twice.
Distinct(rows) ==
  \A i, j \in DOMAIN rows : rows[i].note = rows[j].note /\ i # j => rows[i].note = Plain

Among(p, rows) == \E i \in DOMAIN rows : p = rows[i]

LEMMA KeepStep ==
  ASSUME NEW kept \in Seq(Post), NEW p \in Post
  PROVE  /\ Keep(kept, p) \in Seq(Post)
         /\ \A i \in DOMAIN Keep(kept, p) : Among(Keep(kept, p)[i], kept) \/ Keep(kept, p)[i] = p
         /\ Links(Keep(kept, p)) = Links(kept) \cup ({p.note} \ {Blank})
         /\ Distinct(kept) => Distinct(Keep(kept, p))
  <1> DEFINE known == p.note # Plain /\ \E i \in DOMAIN kept : kept[i].note = p.note
             new == Append(kept, p)
  <1>1. CASE p.note = Blank \/ known
    <2>1. Keep(kept, p) = kept
      BY <1>1 DEF Keep
    <2>2. Links(kept) = Links(kept) \cup ({p.note} \ {Blank})
      BY <1>1 DEF Links
    <2> QED
      BY <2>1, <2>2 DEF Among
  <1>2. CASE p.note # Blank /\ ~known
    <2>1. Keep(kept, p) = new
      BY <1>2 DEF Keep
    <2>2. /\ new \in Seq(Post) /\ DOMAIN new = 1..(Len(kept) + 1) /\ DOMAIN kept = 1..Len(kept)
          /\ new[Len(kept) + 1] = p /\ Len(kept) \in Nat
          /\ \A i \in DOMAIN kept : new[i] = kept[i]
      OBVIOUS
    <2> HIDE DEF new
    <2>3. \A i \in DOMAIN new : i \in DOMAIN kept \/ i = Len(kept) + 1
      BY <2>2
    <2>4. \A i \in DOMAIN new : Among(new[i], kept) \/ new[i] = p
      BY <2>2, <2>3 DEF Among
    <2>5. Links(new) = Links(kept) \cup {p.note}
      <3>1. ASSUME NEW n \in Links(new) PROVE n \in Links(kept) \cup {p.note}
        BY <2>2, <2>3 DEF Links
      <3>2. ASSUME NEW n \in Links(kept) PROVE n \in Links(new)
        <4>1. PICK i \in DOMAIN kept : n = kept[i].note
          BY DEF Links
        <4>2. i \in DOMAIN new /\ n = new[i].note
          BY <2>2, <4>1
        <4> QED
          BY <4>2 DEF Links
      <3>3. p.note \in Links(new)
        <4>1. Len(kept) + 1 \in DOMAIN new
          BY <2>2
        <4> QED
          BY <2>2, <4>1 DEF Links
      <3> QED
        BY <3>1, <3>2, <3>3
    <2>6. ASSUME Distinct(kept), NEW i \in DOMAIN new, NEW j \in DOMAIN new,
                 new[i].note = new[j].note, i # j
          PROVE  new[i].note = Plain
      <3>1. CASE i \in DOMAIN kept /\ j \in DOMAIN kept
        BY <2>2, <2>6, <3>1 DEF Distinct
      <3>2. CASE i \notin DOMAIN kept \/ j \notin DOMAIN kept
        BY <1>2, <2>2, <2>3, <2>6, <3>2
      <3> QED
        BY <3>1, <3>2
    <2> QED
      BY <1>2, <2>1, <2>2, <2>4, <2>5, <2>6 DEF Distinct
  <1> QED
    BY <1>1, <1>2

\* Of the rows and the notes all links are left, each of them once.
LEMMA DedupedIs ==
  ASSUME NEW rows \in Seq(Post), NEW notes \in Seq(Post)
  PROVE  /\ Deduped(rows, notes) \in Seq(Post)
         /\ \A i \in DOMAIN Deduped(rows, notes) :
              Among(Deduped(rows, notes)[i], rows) \/ Among(Deduped(rows, notes)[i], notes)
         /\ Links(Deduped(rows, notes)) = Links(rows) \cup (Links(notes) \ {Blank})
         /\ Distinct(rows) => Distinct(Deduped(rows, notes))
  <1> DEFINE N == Len(notes)
             Upto(k) == {notes[j].note : j \in 1..k}
  <1>1. N \in Nat /\ DOMAIN notes = 1..N /\ \A k \in 1..N : notes[k] \in Post
    OBVIOUS
  <1>2. PICK f : /\ f[0] = rows
                 /\ \A k \in 1..N : f[k] = Keep(f[k - 1], notes[k])
                 /\ Deduped(rows, notes) = f[N]
    BY DedupedSteps
  <1> DEFINE Good(g, k) ==
               /\ g \in Seq(Post)
               /\ \A i \in DOMAIN g : Among(g[i], rows) \/ Among(g[i], notes)
               /\ Links(g) = Links(rows) \cup (Upto(k) \ {Blank})
               /\ Distinct(rows) => Distinct(g)
             P == {k \in 0..N : Good(f[k], k)}
  <1>3. 0 \in P
    <2>1. Upto(0) = {}
      OBVIOUS
    <2>2. \A i \in DOMAIN rows : Among(rows[i], rows)
      BY DEF Among
    <2> QED
      BY <1>1, <1>2, <2>1, <2>2
  <1>4. ASSUME NEW k \in 1..N, k - 1 \in P PROVE k \in P
    <2> DEFINE g == f[k - 1]
               h == f[k]
               p == notes[k]
    <2>1. Good(g, k - 1) /\ p \in Post /\ h = Keep(g, p)
      BY <1>1, <1>2, <1>4
    <2>2. Upto(k) = Upto(k - 1) \cup {p.note}
      <3>1. 1..k = 1..(k - 1) \cup {k}
        BY <1>1
      <3> QED
        BY <3>1
    <2>3. Among(p, notes)
      BY <1>1 DEF Among
    <2> HIDE DEF g, h, p, Upto
    <2>4. /\ h \in Seq(Post)
          /\ \A i \in DOMAIN h : Among(h[i], g) \/ h[i] = p
          /\ Links(h) = Links(g) \cup ({p.note} \ {Blank})
          /\ Distinct(g) => Distinct(h)
      BY <2>1, KeepStep
    <2>5. \A i \in DOMAIN h : Among(h[i], rows) \/ Among(h[i], notes)
      BY <2>1, <2>3, <2>4 DEF Among
    <2>6. Links(h) = Links(rows) \cup (Upto(k) \ {Blank})
      BY <2>1, <2>2, <2>4
    <2>7. Good(h, k)
      BY <2>1, <2>4, <2>5, <2>6
    <2>8. k \in 0..N
      BY <1>1
    <2> QED
      BY <2>7, <2>8 DEF h
  <1> HIDE DEF P
  <1>5. N \in P
    <2> HIDE DEF N
    <2>1. 0..N \subseteq P
      BY <1>1, <1>3, <1>4, Inductive
    <2> QED
      BY <1>1, <2>1
  <1>6. Upto(N) = Links(notes)
    BY <1>1 DEF Links
  <1> HIDE DEF Upto
  <1>7. Good(f[N], N)
    BY <1>5 DEF P
  <1> QED
    BY <1>2, <1>6, <1>7

-----------------------------------------------------------------------------
(* Where a worker is, and what it then holds.                                *)

Writers == {2, 3, 4, 6, 7, 8, 9}

Placed(b) ==
  /\ at[b] = "rest" => read[b] = <<>>
  /\ at[b] \in {"rest", "read"} => crawl[b] = NoCrawl /\ product[b] = {}
  /\ at[b] \in {"account", "page"} => node[b] = 4 /\ product[b] = {}
  /\ at[b] = "page" => crawl[b].account <= Len(Accounts) /\ crawl[b].cursor \in DOMAIN Site[Turn(b)]
  /\ at[b] \in {"clear", "write"} => node[b] \in Writers
  /\ at[b] = "clear" => Output[node[b]] \in Tables
  /\ done[b] \subseteq Chain(b)
  /\ status[b] = "absent" =>
       at[b] = "rest" /\ done[b] = {} /\ ~resumed[b] /\ b \notin disturbed /\ b \notin reposted

TypeInv == TypeOK /\ \A b \in Batch : Placed(b)

\* A step of worker b leaves the other workers alone.
Moves(b) ==
  /\ status' = [status EXCEPT ![b] = status'[b]]
  /\ done' = [done EXCEPT ![b] = done'[b]]
  /\ resumed' = [resumed EXCEPT ![b] = resumed'[b]]
  /\ node' = [node EXCEPT ![b] = node'[b]]
  /\ at' = [at EXCEPT ![b] = at'[b]]
  /\ read' = [read EXCEPT ![b] = read'[b]]
  /\ crawl' = [crawl EXCEPT ![b] = crawl'[b]]
  /\ product' = [product EXCEPT ![b] = product'[b]]

\* It goes on at the first of the nodes that are open, or is completed.
Advances(b, open) ==
  /\ read'[b] = <<>> /\ crawl'[b] = NoCrawl /\ product'[b] = {}
  /\ \/ /\ open = {} /\ at'[b] = "rest" /\ node'[b] = node[b] /\ status'[b] = "completed"
     \/ /\ at'[b] = "read" /\ status'[b] = "running"
        /\ node'[b] \in open /\ \A m \in open : node'[b] <= m

Stops(b) ==
  /\ read'[b] = <<>> /\ crawl'[b] = NoCrawl /\ product'[b] = {}
  /\ at'[b] = "rest" /\ status'[b] \in {"blocked", "failed"}
  /\ node'[b] = node[b] /\ done'[b] = done[b] /\ resumed'[b] = resumed[b]

Outside == <<docs, billed, disturbed, reposted>>

BoundsMove ==
  /\ faults' \in 0..MaxFaults /\ transients' \in 0..MaxTransients
  /\ crashes' \in 0..MaxCrashes /\ edits' \in 0..MaxEdits
  /\ faults <= faults' /\ transients <= transients'

LEMMA ChainIs ==
  ASSUME NEW b \in Batch
  PROVE  Chain(b) \subseteq Node /\ First(b) \in Chain(b) /\ First(b) \in Node /\ Node \subseteq Nat
  BY DEF Chain, First, Node

LEMMA BoundsStay == TypeInv /\ UNCHANGED bounds => BoundsMove
  BY CollectionAssumption DEF TypeInv, TypeOK, bounds, BoundsMove

LEMMA FaultMoves == TypeInv /\ Fault => BoundsMove
  BY CollectionAssumption DEF TypeInv, TypeOK, Fault, BoundsMove

LEMMA TransientMoves ==
  TypeInv /\ transients < MaxTransients /\ transients' = transients + 1 /\ UNCHANGED <<faults, crashes, edits>>
    => BoundsMove
  BY CollectionAssumption DEF TypeInv, TypeOK, BoundsMove

LEMMA ProceedAdvances ==
  ASSUME TypeInv, NEW b \in Batch, NEW ns, ns \subseteq Chain(b), NEW D, NEW again \in BOOLEAN,
         Proceed(b, ns, D, again), done' = [done EXCEPT ![b] = done'[b]],
         resumed' = [resumed EXCEPT ![b] = resumed'[b]]
  PROVE  Moves(b) /\ Advances(b, IF again THEN ns \ D ELSE ns)
  <1> DEFINE open == IF again THEN ns \ D ELSE ns
             least == CHOOSE n \in open : \A m \in open : n <= m
  <1>1. open \subseteq Chain(b)
    OBVIOUS
  <1>2. Proceed(b, ns, D, again) <=>
          /\ IF open = {}
               THEN /\ Goto(b, "rest") /\ UNCHANGED node
                    /\ status' = [status EXCEPT ![b] = "completed"]
               ELSE /\ Goto(b, "read")
                    /\ node' = [node EXCEPT ![b] = least]
                    /\ status' = [status EXCEPT ![b] = "running"]
          /\ Forget(b)
    BY DEF Proceed
  <1>3. /\ done' = [done EXCEPT ![b] = done'[b]]
        /\ resumed' = [resumed EXCEPT ![b] = resumed'[b]]
    OBVIOUS
  <1>4. Forget(b)
    BY <1>2
  <1>5. /\ read'[b] = <<>> /\ read' = [read EXCEPT ![b] = read'[b]]
        /\ crawl'[b] = NoCrawl /\ crawl' = [crawl EXCEPT ![b] = crawl'[b]]
        /\ product'[b] = {} /\ product' = [product EXCEPT ![b] = product'[b]]
    BY <1>4 DEF Forget, TypeInv, TypeOK
  <1> HIDE DEF open
  <1>6. CASE open = {}
    <2>1. /\ at' = [at EXCEPT ![b] = "rest"] /\ node' = node
          /\ status' = [status EXCEPT ![b] = "completed"]
      BY <1>2, <1>6 DEF Goto
    <2>2. /\ at'[b] = "rest" /\ node'[b] = node[b] /\ status'[b] = "completed"
          /\ at' = [at EXCEPT ![b] = at'[b]] /\ node' = [node EXCEPT ![b] = node'[b]]
          /\ status' = [status EXCEPT ![b] = status'[b]]
      BY <2>1 DEF TypeInv, TypeOK
    <2>3. Moves(b)
      BY <1>3, <1>5, <2>2 DEF Moves
    <2>4. Advances(b, open)
      BY <1>5, <1>6, <2>2 DEF Advances
    <2> QED
      BY <1>3, <2>3, <2>4 DEF open
  <1>7. CASE open # {}
    <2>1. /\ at' = [at EXCEPT ![b] = "read"] /\ node' = [node EXCEPT ![b] = least]
          /\ status' = [status EXCEPT ![b] = "running"]
      BY <1>2, <1>7 DEF Goto
    <2>2. least \in open /\ \A m \in open : least <= m
      <3>1. open \subseteq Nat
        BY <1>1, ChainIs
      <3> QED
        BY <1>7, <3>1, MinimumExists
    <2> HIDE DEF least
    <2>3. /\ at'[b] = "read" /\ node'[b] = least /\ status'[b] = "running"
          /\ at' = [at EXCEPT ![b] = at'[b]] /\ node' = [node EXCEPT ![b] = node'[b]]
          /\ status' = [status EXCEPT ![b] = status'[b]]
      BY <2>1 DEF TypeInv, TypeOK
    <2>4. Moves(b)
      BY <1>3, <1>5, <2>3 DEF Moves
    <2>5. Advances(b, open)
      BY <1>5, <2>2, <2>3 DEF Advances
    <2> QED
      BY <1>3, <2>4, <2>5 DEF open
  <1> QED
    BY <1>6, <1>7

LEMMA EndsStops ==
  ASSUME TypeInv, NEW b \in Batch, NEW how \in {"blocked", "failed"}, Ends(b, how)
  PROVE  Moves(b) /\ Stops(b)
  <1>1. /\ at' = [at EXCEPT ![b] = "rest"] /\ node' = node /\ done' = done /\ resumed' = resumed
        /\ status' = [status EXCEPT ![b] = how]
        /\ read' = [read EXCEPT ![b] = <<>>] /\ crawl' = [crawl EXCEPT ![b] = NoCrawl]
        /\ product' = [product EXCEPT ![b] = {}]
    BY DEF Ends, Goto, Forget
  <1>2. /\ at'[b] = "rest" /\ status'[b] = how
        /\ read'[b] = <<>> /\ crawl'[b] = NoCrawl /\ product'[b] = {}
    BY <1>1 DEF TypeInv, TypeOK
  <1>3. Stops(b)
    BY <1>1, <1>2 DEF Stops
  <1>4. Moves(b)
    BY <1>1, <1>2 DEF Moves, TypeInv, TypeOK
  <1> QED
    BY <1>3, <1>4

\* The kinds of steps a worker takes, by what they do to its own variables.

TextNode == {2, 3, 6, 7, 8}

Passes(b) ==
  /\ at[b] = "read" /\ node[b] \in {1, 5} /\ at'[b] = "save"
  /\ UNCHANGED <<record, node, read, crawl, product, Outside>>

ReadsOn(b) ==
  /\ at[b] = "read" /\ node[b] \in Writers
  /\ \E r \in Reading :
       /\ read'[b] = Append(read[b], r)
       /\ r = "another's" => \E m \in TextNode : m < node[b] /\ r = Reads(b, Output[m])
  /\ UNCHANGED <<record, node, at, crawl, product, Outside>>

Rows(b) == [by |-> b, own |-> TRUE, paid |-> TRUE, posts |-> crawl[b].rows]

Makes(b) ==
  /\ node[b] \in Writers
  /\ \/ at[b] = "read" /\ node[b] # 4 /\ product'[b] = {Generated(b, TRUE)}
     \/ at[b] = "read" /\ node[b] = 8 /\ product'[b] = {}
     \/ Crawling(b, "account") /\ crawl[b].account > Len(Accounts) /\ product'[b] = {Rows(b)}
  /\ at'[b] = IF Output[node[b]] \in Tables THEN "clear" ELSE "write"
  /\ UNCHANGED <<record, node, read, crawl, Outside>>

Rests(b) == at[b] # "rest" /\ Stops(b) /\ UNCHANGED Outside

Skips(b) ==
  /\ at[b] # "rest" /\ node[b] \in {4, 5}
  /\ Advances(b, IF resumed[b] THEN Later(b) \ done[b] ELSE Later(b))
  /\ UNCHANGED <<done, resumed, Outside>>

\* The posts of a page.
PagePosts(a, c) ==
  [i \in DOMAIN Site[a][c].notes |-> [note |-> Site[a][c].notes[i], account |-> a, cursor |-> c]]

\* What there is of the account whose turn it is once the page has been read.
Gathered(b) == crawl[b].notes \o PagePosts(Turn(b), crawl[b].cursor)

Charges(b) == billed' = billed \cup {<<b, Turn(b), crawl[b].cursor>>}

Begins(b) == at[b] = "read" /\ at'[b] = "account" /\ UNCHANGED <<crawl, billed>>

\* The next account's turn: whatever there is of this one is left out.
NextTurn(b) ==
  /\ crawl'[b] = [crawl[b] EXCEPT !.account = crawl[b].account + 1, !.notes = <<>>]
  /\ at'[b] = "account"

LeavesOut(b) ==
  /\ at[b] \in {"account", "page"} /\ NextTurn(b)
  /\ \/ at[b] = "account" /\ Turn(b) \in NoHomepage
     \/ faults' = faults + 1
     \/ at[b] = "page" /\ crawl[b].tries = MaxRetries /\ transients' = transients + 1

Opens(b) ==
  /\ at[b] = "account" /\ at'[b] = "page" /\ Turn(b) \notin NoHomepage
  /\ crawl'[b] = [crawl[b] EXCEPT !.cursor = Start, !.tries = 0]

Retries(b) ==
  /\ at[b] = "page" /\ at'[b] = "page" /\ transients' = transients + 1
  /\ crawl'[b] = [crawl[b] EXCEPT !.tries = crawl[b].tries + 1]

TurnsPage(b) ==
  /\ at[b] = "page" /\ at'[b] = "page" /\ Continues(Turn(b), crawl[b].cursor) /\ Charges(b)
  /\ crawl'[b] = [crawl[b] EXCEPT !.cursor = Site[Turn(b)][crawl[b].cursor].next, !.tries = 0,
                                  !.notes = Gathered(b)]

Finishes(b) ==
  /\ at[b] = "page" /\ at'[b] = "account" /\ ~Continues(Turn(b), crawl[b].cursor) /\ Charges(b)
  /\ crawl'[b] = [crawl[b] EXCEPT !.account = crawl[b].account + 1, !.notes = <<>>,
                                  !.rows = Deduped(crawl[b].rows, Gathered(b)),
                                  !.complete = crawl[b].complete \cup {Turn(b)}]

Crawls(b) ==
  /\ node[b] = 4 /\ at[b] \in {"read", "account", "page"} /\ at'[b] \in {"account", "page"}
  /\ at[b] # "read" => crawl[b].account <= Len(Accounts)
  /\ UNCHANGED <<record, node, read, product, docs, disturbed, reposted>>
  /\ billed \subseteq billed' /\ billed' \subseteq Batch \X Account \X Cursor
  /\ crawl'[b] \in Crawl
  /\ at'[b] = "page" =>
       /\ crawl'[b].account <= Len(Accounts)
       /\ crawl'[b].cursor \in DOMAIN Site[Accounts[crawl'[b].account]]
  /\ Begins(b) \/ LeavesOut(b) \/ Opens(b) \/ Retries(b) \/ TurnsPage(b) \/ Finishes(b)

Clears(b) ==
  /\ at[b] = "clear" /\ at'[b] = "write"
  /\ docs' = [docs EXCEPT ![Output[node[b]]] = {}]
  /\ disturbed' = disturbed \cup (Begun \ {b})
  /\ UNCHANGED <<record, node, read, crawl, product, billed, reposted>>

Writes(b) ==
  /\ at[b] = "write" /\ at'[b] = "save"
  /\ docs' = [docs EXCEPT ![Output[node[b]]] =
                product[b] \cup (IF Output[node[b]] \in Docs THEN {} ELSE docs[Output[node[b]]])]
  /\ disturbed' = disturbed \cup (Begun \ {b})
  /\ UNCHANGED <<record, node, read, crawl, product, billed, reposted>>

Loses(b) ==
  /\ \/ at[b] = "clear" /\ at'[b] = "write"
     \/ at[b] = "write" /\ at'[b] = "save"
  /\ disturbed' = disturbed \cup {b}
  /\ UNCHANGED <<record, node, read, crawl, product, docs, billed, reposted>>

Saves(b) ==
  /\ at[b] = "save"
  /\ done'[b] = done[b] \cup {node[b]} /\ resumed'[b] = resumed[b]
  /\ Advances(b, IF resumed[b] THEN Later(b) \ done'[b] ELSE Later(b))
  /\ UNCHANGED Outside

Posted(b) ==
  /\ at[b] = "rest" /\ status[b] \in {"absent", "running"}
  /\ done'[b] = done[b] /\ resumed'[b] = resumed[b]
  /\ Advances(b, IF resumed[b] THEN Chain(b) \ done[b] ELSE Chain(b))
  /\ reposted' = IF status[b] = "running" /\ ~resumed[b] THEN reposted \cup {b} ELSE reposted
  /\ UNCHANGED <<docs, billed, disturbed>>

Resumes(b) ==
  /\ at[b] = "rest" /\ status[b] \in {"blocked", "failed"}
  /\ done'[b] = done[b] /\ resumed'[b] = TRUE
  /\ Advances(b, Chain(b) \ done[b])
  /\ UNCHANGED Outside

Worker(b) ==
  \/ Passes(b) \/ ReadsOn(b) \/ Makes(b) \/ Rests(b) \/ Skips(b) \/ Crawls(b)
  \/ Clears(b) \/ Writes(b) \/ Loses(b) \/ Saves(b) \/ Posted(b) \/ Resumes(b)

\* What is left as it was has moved nowhere.
LEMMA StillMoves ==
  ASSUME TypeInv, NEW b \in Batch
  PROVE  /\ UNCHANGED status => status' = [status EXCEPT ![b] = status'[b]]
         /\ UNCHANGED done => done' = [done EXCEPT ![b] = done'[b]]
         /\ UNCHANGED resumed => resumed' = [resumed EXCEPT ![b] = resumed'[b]]
         /\ UNCHANGED node => node' = [node EXCEPT ![b] = node'[b]]
         /\ UNCHANGED at => at' = [at EXCEPT ![b] = at'[b]]
         /\ UNCHANGED read => read' = [read EXCEPT ![b] = read'[b]]
         /\ UNCHANGED crawl => crawl' = [crawl EXCEPT ![b] = crawl'[b]]
         /\ UNCHANGED product => product' = [product EXCEPT ![b] = product'[b]]
  BY DEF TypeInv, TypeOK

LEMMA GotoMoves ==
  ASSUME TypeInv, NEW b \in Batch, NEW label, Goto(b, label)
  PROVE  at'[b] = label /\ at' = [at EXCEPT ![b] = at'[b]]
  BY DEF Goto, TypeInv, TypeOK

LEMMA SoftFailSkips ==
  ASSUME TypeInv, NEW b \in Batch, at[b] # "rest", node[b] \in {4, 5}, SoftFail(b),
         UNCHANGED <<docs, billed, disturbed, reposted>>
  PROVE  Moves(b) /\ Skips(b)
  <1>1. Later(b) \subseteq Chain(b) /\ resumed[b] \in BOOLEAN
    BY DEF Later, TypeInv, TypeOK
  <1>2. done' = [done EXCEPT ![b] = done'[b]] /\ resumed' = [resumed EXCEPT ![b] = resumed'[b]]
        /\ done' = done /\ resumed' = resumed
    BY StillMoves DEF SoftFail
  <1>3. Moves(b) /\ Advances(b, IF resumed[b] THEN Later(b) \ done[b] ELSE Later(b))
    <2>1. Proceed(b, Later(b), done[b], resumed[b])
      BY DEF SoftFail
    <2> QED
      BY <1>1, <1>2, <2>1, ProceedAdvances
  <1> QED
    BY <1>2, <1>3 DEF Skips, Outside

LEMMA StoreMakes ==
  ASSUME TypeInv, NEW b \in Batch, NEW V, Store(b, V)
  PROVE  /\ Moves(b) /\ product'[b] = V
         /\ at'[b] = IF Output[node[b]] \in Tables THEN "clear" ELSE "write"
         /\ UNCHANGED <<record, node, read, crawl>>
  <1>1. UNCHANGED <<record, node, read, crawl>> /\ product' = [product EXCEPT ![b] = V]
        /\ Goto(b, IF Output[node[b]] \in Tables THEN "clear" ELSE "write")
    BY DEF Store
  <1>2. product'[b] = V /\ product' = [product EXCEPT ![b] = product'[b]]
    BY <1>1 DEF TypeInv, TypeOK
  <1> QED
    BY <1>1, <1>2, StillMoves, GotoMoves DEF Moves, record

\* The inputs of the nodes are posts or the texts of earlier nodes.
Earlier(n, d) == d = "posts" \/ \E m \in TextNode : m < n /\ d = Output[m]

LEMMA ReadInputReads ==
  ASSUME TypeInv, NEW b \in Batch, NEW inputs \in Seq(Dataset), ReadInput(b, inputs),
         at[b] = "read", node[b] \in Writers, UNCHANGED <<docs, billed, disturbed, reposted>>,
         \A i \in DOMAIN inputs : Earlier(node[b], inputs[i])
  PROVE  Moves(b) /\ ReadsOn(b) /\ BoundsMove
  <1> DEFINE i == Len(read[b]) + 1
  <1>1. read[b] \in Seq(Reading)
    BY DEF TypeInv, TypeOK
  <1>2. i \in DOMAIN inputs /\ UNCHANGED <<record, node, at, crawl, product>>
    BY <1>1 DEF ReadInput
  <1>3. BoundsMove
    BY BoundsStay, FaultMoves DEF ReadInput
  <1>4. PICK r \in {Reads(b, inputs[i]), "nothing"} : read' = [read EXCEPT ![b] = Append(read[b], r)]
    BY DEF ReadInput, TypeInv, TypeOK
  <1>5. r \in Reading
    BY <1>4 DEF Reads, Reading
  <1>6. r = "another's" => \E m \in TextNode : m < node[b] /\ r = Reads(b, Output[m])
    <2>1. SUFFICES ASSUME r = "another's" PROVE \E m \in TextNode : m < node[b] /\ r = Reads(b, Output[m])
      OBVIOUS
    <2>2. r = Reads(b, inputs[i]) /\ inputs[i] # "posts"
      BY <1>4, <2>1 DEF Reads
    <2> QED
      BY <1>2, <2>2 DEF Earlier
  <1>7. read'[b] = Append(read[b], r) /\ read' = [read EXCEPT ![b] = read'[b]]
    BY <1>4 DEF TypeInv, TypeOK
  <1>8. Moves(b)
    BY <1>2, <1>7, StillMoves DEF Moves, record
  <1>9. ReadsOn(b)
    BY <1>2, <1>5, <1>6, <1>7 DEF ReadsOn, Outside
  <1> QED
    BY <1>3, <1>8, <1>9

LEMMA TextAnswerKinds ==
  ASSUME TypeInv, NEW b \in Batch, at[b] = "read", node[b] \in Writers \ {4}, TextAnswer(b),
         UNCHANGED <<docs, billed, disturbed, reposted>>
  PROVE  Moves(b) /\ BoundsMove /\ (Makes(b) \/ Rests(b))
  <1>1. CASE Store(b, {Generated(b, TRUE)}) /\ UNCHANGED bounds
    BY <1>1, StoreMakes, BoundsStay DEF Makes, Outside
  <1>2. CASE Fault /\ Fail(b)
    BY <1>2, EndsStops, FaultMoves DEF Fail, Rests, Outside
  <1> QED
    BY <1>1, <1>2 DEF TextAnswer

LEMMA TopicsAnswerKinds ==
  ASSUME TypeInv, NEW b \in Batch, at[b] = "read", node[b] = 8, TopicsAnswer(b),
         UNCHANGED <<docs, billed, disturbed, reposted>>
  PROVE  Moves(b) /\ BoundsMove /\ (Makes(b) \/ Rests(b))
  <1>1. CASE Store(b, {}) /\ UNCHANGED bounds
    BY <1>1, StoreMakes, BoundsStay DEF Makes, Outside, Writers
  <1>2. CASE TextAnswer(b)
    BY <1>2, TextAnswerKinds DEF Writers
  <1> QED
    BY <1>1, <1>2 DEF TopicsAnswer, JsonAnswer

LEMMA ReportAnswerKinds ==
  ASSUME TypeInv, NEW b \in Batch, at[b] = "read", node[b] \in Writers \ {4}, ReportAnswer(b),
         UNCHANGED <<docs, billed, disturbed, reposted>>
  PROVE  Moves(b) /\ BoundsMove /\ (Makes(b) \/ Rests(b))
  <1>1. CASE Fault /\ Block(b)
    BY <1>1, EndsStops, FaultMoves DEF Block, Rests, Outside
  <1>2. CASE TextAnswer(b)
    BY <1>2, TextAnswerKinds
  <1> QED
    BY <1>1, <1>2 DEF ReportAnswer, JsonAnswer

LEMMA GenerationKinds ==
  ASSUME TypeInv, NEW b \in Batch,
         \/ IndustryKeywords(b) \/ IndustryReport(b) \/ MarketingPlan(b) \/ KeywordMatrix(b)
         \/ TopicBank(b) \/ DailyReport(b)
  PROVE  Moves(b) /\ BoundsMove /\ (ReadsOn(b) \/ Makes(b) \/ Rests(b))
  <1> DEFINE Result == Moves(b) /\ BoundsMove /\ (ReadsOn(b) \/ Makes(b) \/ Rests(b))
  <1>0. ASSUME UNCHANGED <<docs, billed, disturbed, reposted>>, at[b] = "read",
               \/ Fault /\ Fail(b)
               \/ Block(b) /\ UNCHANGED bounds
        PROVE  Result
    BY <1>0, EndsStops, FaultMoves, BoundsStay DEF Fail, Block, Rests, Outside
  <1>1. CASE IndustryKeywords(b)
    <2> DEFINE inputs == <<>>
    <2>1. /\ node[b] = 2 /\ at[b] = "read" /\ UNCHANGED <<docs, billed, disturbed, reposted>>
          /\ \/ ReadInput(b, inputs)
             \/ Fault /\ Fail(b)
             \/ Block(b) /\ UNCHANGED bounds
             \/ TextAnswer(b)
      BY <1>1 DEF IndustryKeywords, Generation, JsonAnswer
    <2>2. inputs \in Seq(Dataset) /\ \A i \in DOMAIN inputs : Earlier(node[b], inputs[i])
      OBVIOUS
    <2> HIDE DEF inputs
    <2> QED
      BY <1>0, <2>1, <2>2, ReadInputReads, TextAnswerKinds DEF Writers
  <1>2. CASE IndustryReport(b)
    <2> DEFINE inputs == <<"keywords">>
    <2>1. /\ node[b] = 3 /\ at[b] = "read" /\ UNCHANGED <<docs, billed, disturbed, reposted>>
          /\ \/ ReadInput(b, inputs)
             \/ Fault /\ Fail(b)
             \/ Block(b) /\ UNCHANGED bounds
             \/ TextAnswer(b)
      BY <1>2 DEF IndustryReport, Generation
    <2>2. inputs \in Seq(Dataset) /\ \A i \in DOMAIN inputs : Earlier(3, inputs[i])
      BY DEF Dataset, Tables, Docs, Earlier, Output, TextNode
    <2> HIDE DEF inputs
    <2> QED
      BY <1>0, <2>1, <2>2, ReadInputReads, TextAnswerKinds DEF Writers
  <1>3. CASE MarketingPlan(b)
    <2> DEFINE inputs == <<"report", "posts">>
    <2>1. /\ node[b] = 6 /\ at[b] = "read" /\ UNCHANGED <<docs, billed, disturbed, reposted>>
          /\ \/ ReadInput(b, inputs)
             \/ Fault /\ Fail(b)
             \/ Block(b) /\ UNCHANGED bounds
             \/ TextAnswer(b)
      BY <1>3 DEF MarketingPlan, Generation
    <2>2. inputs \in Seq(Dataset) /\ \A i \in DOMAIN inputs : Earlier(6, inputs[i])
      BY DEF Dataset, Tables, Docs, Earlier, Output, TextNode
    <2> HIDE DEF inputs
    <2> QED
      BY <1>0, <2>1, <2>2, ReadInputReads, TextAnswerKinds DEF Writers
  <1>4. CASE KeywordMatrix(b)
    <2> DEFINE inputs == <<"plan">>
    <2>1. /\ node[b] = 7 /\ at[b] = "read" /\ UNCHANGED <<docs, billed, disturbed, reposted>>
          /\ \/ ReadInput(b, inputs)
             \/ Fault /\ Fail(b)
             \/ Block(b) /\ UNCHANGED bounds
             \/ TextAnswer(b)
      BY <1>4 DEF KeywordMatrix, Generation
    <2>2. inputs \in Seq(Dataset) /\ \A i \in DOMAIN inputs : Earlier(7, inputs[i])
      BY DEF Dataset, Tables, Docs, Earlier, Output, TextNode
    <2> HIDE DEF inputs
    <2> QED
      BY <1>0, <2>1, <2>2, ReadInputReads, TextAnswerKinds DEF Writers
  <1>5. CASE TopicBank(b)
    <2> DEFINE inputs == <<"plan", "report">>
    <2>1. /\ node[b] = 8 /\ at[b] = "read" /\ UNCHANGED <<docs, billed, disturbed, reposted>>
          /\ \/ ReadInput(b, inputs)
             \/ Fault /\ Fail(b)
             \/ Block(b) /\ UNCHANGED bounds
             \/ TopicsAnswer(b)
      BY <1>5 DEF TopicBank, Generation
    <2>2. inputs \in Seq(Dataset) /\ \A i \in DOMAIN inputs : Earlier(8, inputs[i])
      BY DEF Dataset, Tables, Docs, Earlier, Output, TextNode
    <2> HIDE DEF inputs
    <2> QED
      BY <1>0, <2>1, <2>2, ReadInputReads, TopicsAnswerKinds DEF Writers
  <1>6. CASE DailyReport(b)
    <2> DEFINE inputs == <<"plan", "matrix", "topics">>
    <2>1. /\ node[b] = 9 /\ at[b] = "read" /\ UNCHANGED <<docs, billed, disturbed, reposted>>
          /\ \/ ReadInput(b, inputs)
             \/ Fault /\ Fail(b)
             \/ Block(b) /\ UNCHANGED bounds
             \/ ReportAnswer(b)
      BY <1>6 DEF DailyReport, Generation
    <2>2. inputs \in Seq(Dataset) /\ \A i \in DOMAIN inputs : Earlier(9, inputs[i])
      BY DEF Dataset, Tables, Docs, Earlier, Output, TextNode
    <2> HIDE DEF inputs
    <2> QED
      BY <1>0, <2>1, <2>2, ReadInputReads, ReportAnswerKinds DEF Writers
  <1> QED
    BY <1>1, <1>2, <1>3, <1>4, <1>5, <1>6

LEMMA PassKinds ==
  ASSUME TypeInv, NEW b \in Batch, CoordinatorCheck(b) \/ DailyHotspots(b)
  PROVE  Moves(b) /\ BoundsMove /\ (Passes(b) \/ Rests(b) \/ Skips(b))
  <1>1. /\ at[b] = "read" /\ node[b] \in {1, 5}
        /\ UNCHANGED <<docs, billed, disturbed, reposted>>
    BY DEF CoordinatorCheck, DailyHotspots
  <1>2. \/ Goto(b, "save") /\ UNCHANGED <<record, node, read, crawl, product, bounds>>
        \/ (Fault \/ UNCHANGED bounds) /\ (Block(b) \/ Fail(b))
        \/ node[b] = 5 /\ Fault /\ SoftFail(b)
    BY DEF CoordinatorCheck, DailyHotspots
  <1>3. CASE Goto(b, "save") /\ UNCHANGED <<record, node, read, crawl, product, bounds>>
    <2>1. Moves(b)
      BY <1>3, GotoMoves, StillMoves DEF Moves, record
    <2>2. Passes(b)
      BY <1>1, <1>3, GotoMoves DEF Passes, Outside
    <2> QED
      BY <1>3, <2>1, <2>2, BoundsStay
  <1>4. CASE (Fault \/ UNCHANGED bounds) /\ (Block(b) \/ Fail(b))
    <2>1. Moves(b) /\ Stops(b)
      BY <1>4, EndsStops DEF Block, Fail
    <2> QED
      BY <1>1, <1>4, <2>1, FaultMoves, BoundsStay DEF Rests, Outside
  <1>5. CASE node[b] = 5 /\ Fault /\ SoftFail(b)
    <2>1. Moves(b) /\ Skips(b)
      BY <1>1, <1>5, SoftFailSkips
    <2> QED
      BY <1>5, <2>1, FaultMoves
  <1> QED
    BY <1>2, <1>3, <1>4, <1>5

\* What the crawl is made of.
LEMMA CrawlIs ==
  /\ NoCrawl \in Crawl
  /\ \A c \in Crawl :
       /\ c.account \in 1..(Len(Accounts) + 1) /\ c.cursor \in Cursor /\ c.tries \in 0..MaxRetries
       /\ c.notes \in Seq(Post) /\ c.rows \in Seq(Post) /\ c.complete \subseteq Account
  /\ \A i \in 1..Len(Accounts) : Accounts[i] \in Account
  /\ \A a \in Account : Start \in DOMAIN Site[a] /\ DOMAIN Site[a] \subseteq Cursor
  /\ Len(Accounts) \in Nat
  <1>1. Accounts \in Seq(Account) /\ Len(Accounts) \in Nat /\ MaxRetries \in Nat
    BY CollectionAssumption
  <1>2. NoCrawl \in Crawl
    BY <1>1 DEF NoCrawl, Crawl, Cursor
  <1>3. \A c \in Crawl :
          /\ c.account \in 1..(Len(Accounts) + 1) /\ c.cursor \in Cursor /\ c.tries \in 0..MaxRetries
          /\ c.notes \in Seq(Post) /\ c.rows \in Seq(Post) /\ c.complete \subseteq Account
    BY DEF Crawl
  <1>4. \A i \in 1..Len(Accounts) : Accounts[i] \in Account
    BY <1>1
  <1>5. \A a \in Account : Start \in DOMAIN Site[a] /\ DOMAIN Site[a] \subseteq Cursor
    BY CollectionAssumption DEF Cursor
  <1> QED
    BY <1>1, <1>2, <1>3, <1>4, <1>5

LEMMA PageIs ==
  ASSUME NEW a \in Account, NEW c \in DOMAIN Site[a]
  PROVE  /\ PagePosts(a, c) \in Seq(Post)
         /\ \A i \in DOMAIN PagePosts(a, c) : PagePosts(a, c)[i].account = a /\ PagePosts(a, c)[i].cursor = c
         /\ Links(PagePosts(a, c)) = Range(Site[a][c].notes)
         /\ Site[a][c].next \in DOMAIN Site[a]
  <1> DEFINE ns == Site[a][c].notes
  <1>1. ns \in Seq(Note) /\ Site[a][c].next \in DOMAIN Site[a] /\ c \in Cursor
    BY CollectionAssumption, CrawlIs
  <1>2. PagePosts(a, c) = [i \in DOMAIN ns |-> [note |-> ns[i], account |-> a, cursor |-> c]]
    BY DEF PagePosts
  <1> HIDE DEF ns
  <1>3. DOMAIN ns = 1..Len(ns) /\ Len(ns) \in Nat /\ \A i \in DOMAIN ns : ns[i] \in Note
    BY <1>1
  <1>4. \A i \in DOMAIN ns : [note |-> ns[i], account |-> a, cursor |-> c] \in Post
    BY <1>1, <1>3 DEF Post
  <1>5. PagePosts(a, c) \in Seq(Post)
    BY <1>2, <1>3, <1>4
  <1>6. Links(PagePosts(a, c)) = Range(ns)
    BY <1>2 DEF Links, Range
  <1> QED
    BY <1>1, <1>2, <1>5, <1>6 DEF ns

LEMMA NextAccountTurns ==
  ASSUME TypeInv, NEW b \in Batch, NextAccount(b)
  PROVE  Moves(b) /\ NextTurn(b) /\ UNCHANGED <<record, node, read, product>>
  <1> DEFINE c == [crawl[b] EXCEPT !.account = crawl[b].account + 1, !.notes = <<>>]
  <1>1. crawl' = [crawl EXCEPT ![b] = c] /\ Goto(b, "account") /\ UNCHANGED <<record, node, read, product>>
    <2>1. Goto(b, "account") /\ UNCHANGED <<record, node, read, product>>
      BY DEF NextAccount
    <2>2. crawl' = [crawl EXCEPT ![b] = c]
      BY DEF NextAccount
    <2> QED
      BY <2>1, <2>2
  <1>2. crawl'[b] = c /\ crawl' = [crawl EXCEPT ![b] = crawl'[b]]
    <2> HIDE DEF c
    <2> QED
      BY <1>1 DEF TypeInv, TypeOK
  <1>3. Moves(b)
    <2> HIDE DEF c
    <2> QED
      BY <1>1, <1>2, StillMoves, GotoMoves DEF Moves, record
  <1> QED
    BY <1>1, <1>2, <1>3, GotoMoves DEF NextTurn

LEMMA TurnTyped ==
  ASSUME TypeInv, NEW b \in Batch, crawl[b].account <= Len(Accounts)
  PROVE  /\ crawl[b] \in Crawl /\ crawl[b].account \in 1..Len(Accounts) /\ Turn(b) \in Account
         /\ [crawl[b] EXCEPT !.account = crawl[b].account + 1, !.notes = <<>>] \in Crawl
  <1>1. crawl[b] \in Crawl
    BY DEF TypeInv, TypeOK
  <1>2. crawl[b].account \in 1..Len(Accounts) /\ crawl[b].account + 1 \in 1..(Len(Accounts) + 1)
    BY <1>1, CrawlIs
  <1>3. Turn(b) \in Account
    BY <1>2, CrawlIs DEF Turn
  <1>4. [crawl[b] EXCEPT !.account = crawl[b].account + 1, !.notes = <<>>] \in Crawl
    <2> DEFINE n == crawl[b].account + 1
    <2>1. n \in 1..(Len(Accounts) + 1) /\ <<>> \in Seq(Post)
      BY <1>2
    <2> HIDE DEF n
    <2>2. [crawl[b] EXCEPT !.account = n, !.notes = <<>>] \in Crawl
      BY <1>1, <2>1 DEF Crawl
    <2> QED
      BY <2>2 DEF n
  <1> QED
    BY <1>1, <1>2, <1>3, <1>4

LEMMA ReadAccountsKinds ==
  ASSUME TypeInv, NEW b \in Batch, ReadAccounts(b)
  PROVE  Moves(b) /\ BoundsMove /\ (Rests(b) \/ Crawls(b))
  <1>1. /\ node[b] = 4 /\ at[b] = "read" /\ UNCHANGED <<docs, billed, disturbed, reposted>>
    BY DEF ReadAccounts, Crawling, Rest
  <1>2. CASE Goto(b, "account") /\ UNCHANGED <<record, node, read, crawl, product, bounds>>
    <2>1. Moves(b)
      BY <1>2, GotoMoves, StillMoves DEF Moves, record
    <2>2. crawl'[b] \in Crawl /\ billed' \subseteq Batch \X Account \X Cursor /\ at'[b] = "account"
      BY <1>1, <1>2, GotoMoves DEF TypeInv, TypeOK
    <2>3. Crawls(b)
      BY <1>1, <1>2, <2>2 DEF Crawls, Begins
    <2> QED
      BY <1>2, <2>1, <2>3, BoundsStay
  <1>3. CASE (Fault \/ UNCHANGED bounds) /\ (Block(b) \/ Fail(b))
    <2>1. Moves(b) /\ Stops(b)
      BY <1>3, EndsStops DEF Block, Fail
    <2> QED
      BY <1>1, <1>3, <2>1, FaultMoves, BoundsStay DEF Rests, Outside
  <1> QED
    BY <1>2, <1>3 DEF ReadAccounts

LEMMA ResolveProfileKinds ==
  ASSUME TypeInv, NEW b \in Batch, ResolveProfile(b)
  PROVE  Moves(b) /\ BoundsMove /\ Crawls(b)
  <1>1. /\ node[b] = 4 /\ at[b] = "account" /\ UNCHANGED <<docs, billed, disturbed, reposted>>
        /\ crawl[b].account <= Len(Accounts) /\ billed \subseteq Batch \X Account \X Cursor
    BY DEF ResolveProfile, Crawling, Rest, TypeInv, TypeOK
  <1>2. /\ crawl[b] \in Crawl /\ crawl[b].account \in 1..Len(Accounts) /\ Turn(b) \in Account
        /\ [crawl[b] EXCEPT !.account = crawl[b].account + 1, !.notes = <<>>] \in Crawl
    BY <1>1, TurnTyped
  <1>3. ASSUME NextAccount(b), BoundsMove, Turn(b) \in NoHomepage \/ faults' = faults + 1
        PROVE  Moves(b) /\ Crawls(b)
    <2>1. Moves(b) /\ NextTurn(b) /\ UNCHANGED <<record, node, read, product>>
      BY <1>3, NextAccountTurns
    <2>2. LeavesOut(b)
      BY <1>1, <1>3, <2>1 DEF LeavesOut
    <2>3. Crawls(b)
      BY <1>1, <1>2, <2>1, <2>2 DEF Crawls, NextTurn
    <2> QED
      BY <2>1, <2>3
  <1>4. CASE /\ Turn(b) \notin NoHomepage
             /\ crawl' = [crawl EXCEPT ![b].cursor = Start, ![b].tries = 0]
             /\ Goto(b, "page")
             /\ UNCHANGED <<record, node, read, product, bounds>>
    <2> DEFINE c == [crawl[b] EXCEPT !.cursor = Start, !.tries = 0]
    <2>1. Start \in Cursor /\ 0 \in 0..MaxRetries /\ Start \in DOMAIN Site[Turn(b)]
      BY <1>2, CrawlIs, CollectionAssumption
    <2>2. c \in Crawl /\ c.account = crawl[b].account /\ c.cursor = Start
      BY <1>2, <2>1 DEF Crawl
    <2>3. crawl' = [crawl EXCEPT ![b] = c]
      BY <1>4 DEF TypeInv, TypeOK
    <2> HIDE DEF c
    <2>4. crawl'[b] = c /\ crawl' = [crawl EXCEPT ![b] = crawl'[b]]
      BY <2>3 DEF TypeInv, TypeOK
    <2>5. Moves(b)
      BY <1>4, <2>4, GotoMoves, StillMoves DEF Moves, record
    <2>6. Opens(b)
      BY <1>1, <1>4, <2>4, GotoMoves DEF Opens, c
    <2>7. Crawls(b)
      BY <1>1, <1>2, <1>4, <2>1, <2>2, <2>4, <2>6, GotoMoves DEF Crawls, Turn
    <2> QED
      BY <1>4, <2>5, <2>7, BoundsStay
  <1>5. CASE Turn(b) \in NoHomepage
    <2>1. NextAccount(b) /\ UNCHANGED bounds
      BY <1>5 DEF ResolveProfile
    <2> QED
      BY <1>3, <1>5, <2>1, BoundsStay
  <1>6. CASE Turn(b) \notin NoHomepage
    <2>1. CASE Fault /\ NextAccount(b)
      <3>1. faults' = faults + 1 /\ BoundsMove
        BY <2>1, FaultMoves DEF Fault
      <3> QED
        BY <1>3, <2>1, <3>1
    <2>2. CASE ~(Fault /\ NextAccount(b))
      <3>1. Goto(b, "page") /\ UNCHANGED <<record, node, read, product, bounds>>
        BY <1>6, <2>2 DEF ResolveProfile
      <3>2. crawl' = [crawl EXCEPT ![b].cursor = Start, ![b].tries = 0]
        BY <1>6, <2>2 DEF ResolveProfile
      <3> QED
        BY <1>4, <1>6, <3>1, <3>2
    <2> QED
      BY <2>1, <2>2
  <1> QED
    BY <1>5, <1>6

LEMMA AtPage ==
  ASSUME TypeInv, NEW b \in Batch, Crawling(b, "page")
  PROVE  /\ node[b] = 4 /\ at[b] = "page" /\ crawl[b].account <= Len(Accounts)
         /\ crawl[b] \in Crawl /\ Turn(b) \in Account /\ crawl[b].cursor \in DOMAIN Site[Turn(b)]
         /\ crawl[b].cursor \in Cursor /\ billed \subseteq Batch \X Account \X Cursor
         /\ billed \cup {<<b, Turn(b), crawl[b].cursor>>} \subseteq Batch \X Account \X Cursor
  <1>1. /\ node[b] = 4 /\ at[b] = "page" /\ crawl[b].account <= Len(Accounts)
        /\ crawl[b].cursor \in DOMAIN Site[Turn(b)] /\ billed \subseteq Batch \X Account \X Cursor
    BY DEF Crawling, TypeInv, TypeOK, Placed
  <1>2. crawl[b] \in Crawl /\ Turn(b) \in Account
    BY <1>1, TurnTyped
  <1>3. crawl[b].cursor \in Cursor
    BY <1>2, CrawlIs
  <1> QED
    BY <1>1, <1>2, <1>3

LEMMA RetryPageKinds ==
  ASSUME TypeInv, NEW b \in Batch, RetryPage(b)
  PROVE  Moves(b) /\ BoundsMove /\ Crawls(b)
  <1>1. Crawling(b, "page") /\ UNCHANGED <<docs, billed, disturbed, reposted, record, node, at, read, product>>
    BY DEF RetryPage, Rest
  <1>2. BoundsMove
    BY TransientMoves DEF RetryPage
  <1> DEFINE n == crawl[b].tries + 1
             c == [crawl[b] EXCEPT !.tries = n]
  <1>3. crawl[b] \in Crawl /\ n \in 0..MaxRetries
    BY <1>1, AtPage, CrawlIs, CollectionAssumption DEF RetryPage
  <1> HIDE DEF n
  <1>4. c \in Crawl /\ c.account = crawl[b].account /\ c.cursor = crawl[b].cursor
    BY <1>3 DEF Crawl
  <1>5. crawl' = [crawl EXCEPT ![b] = c]
    BY DEF RetryPage, TypeInv, TypeOK, n
  <1> HIDE DEF c
  <1>6. crawl'[b] = c /\ crawl' = [crawl EXCEPT ![b] = crawl'[b]]
    BY <1>5 DEF TypeInv, TypeOK
  <1>7. Moves(b)
    BY <1>1, <1>6, StillMoves DEF Moves, record
  <1>8. Retries(b)
    BY <1>1, <1>6 DEF Retries, RetryPage, Crawling, c, n
  <1>9. Crawls(b)
    BY <1>1, <1>4, <1>6, <1>8, AtPage DEF Crawls, Turn
  <1> QED
    BY <1>2, <1>7, <1>9

LEMMA PageFailsKinds ==
  ASSUME TypeInv, NEW b \in Batch, PageFails(b)
  PROVE  Moves(b) /\ BoundsMove /\ Crawls(b)
  <1>1. Crawling(b, "page") /\ UNCHANGED <<docs, disturbed, reposted>>
    BY DEF PageFails
  <1>2. Moves(b) /\ NextTurn(b) /\ UNCHANGED <<record, node, read, product>>
    BY NextAccountTurns DEF PageFails, GiveUpAccount
  <1>3. BoundsMove
    BY TransientMoves, FaultMoves DEF PageFails
  <1>4. billed' \in {billed, billed \cup {<<b, Turn(b), crawl[b].cursor>>}}
    BY DEF PageFails
  <1>5. /\ billed \subseteq Batch \X Account \X Cursor
        /\ billed \cup {<<b, Turn(b), crawl[b].cursor>>} \subseteq Batch \X Account \X Cursor
        /\ node[b] = 4 /\ at[b] = "page" /\ crawl[b].account <= Len(Accounts)
    BY <1>1, AtPage
  <1>6. billed \subseteq billed' /\ billed' \subseteq Batch \X Account \X Cursor
    BY <1>4, <1>5
  <1>7. crawl'[b] \in Crawl
    BY <1>2, <1>5, TurnTyped DEF NextTurn
  <1>8. LeavesOut(b)
    BY <1>2, <1>5 DEF LeavesOut, PageFails, Fault
  <1>9. Crawls(b)
    BY <1>1, <1>2, <1>5, <1>6, <1>7, <1>8 DEF Crawls, NextTurn
  <1> QED
    BY <1>2, <1>3, <1>9


LEMMA FetchPageKinds ==
  ASSUME TypeInv, NEW b \in Batch, FetchPage(b)
  PROVE  Moves(b) /\ BoundsMove /\ Crawls(b)
  <1> DEFINE a == Turn(b)
             c == crawl[b].cursor
             more == [crawl[b] EXCEPT !.cursor = Site[a][c].next, !.tries = 0, !.notes = Gathered(b)]
             whole == [crawl[b] EXCEPT !.account = crawl[b].account + 1, !.notes = <<>>,
                                       !.rows = Deduped(crawl[b].rows, Gathered(b)),
                                       !.complete = crawl[b].complete \cup {a}]
  <1>1. /\ Crawling(b, "page") /\ Charges(b)
        /\ UNCHANGED <<docs, disturbed, reposted, record, node, read, product, bounds>>
        /\ \/ Continues(a, c) /\ crawl' = [crawl EXCEPT ![b] = more] /\ UNCHANGED at
           \/ ~Continues(a, c) /\ crawl' = [crawl EXCEPT ![b] = whole] /\ Goto(b, "account")
    <2>1. Gathered(b) = crawl[b].notes \o [i \in DOMAIN Site[a][c].notes |->
                                    [note |-> Site[a][c].notes[i], account |-> a, cursor |-> c]]
      BY DEF Gathered, PagePosts
    <2>2. crawl \in [Batch -> Crawl]
      BY DEF TypeInv, TypeOK
    <2>3. CASE Continues(a, c)
      <3>1. crawl' = [crawl EXCEPT ![b].cursor = Site[a][c].next, ![b].tries = 0, ![b].notes = Gathered(b)]
        BY <2>1, <2>3 DEF FetchPage
      <3>2. crawl' = [crawl EXCEPT ![b] = more]
        BY <2>2, <3>1
      <3> QED
        BY <2>3, <3>2 DEF FetchPage, Charges
    <2>4. CASE ~Continues(a, c)
      <3>1. crawl' = [crawl EXCEPT ![b].account = @ + 1, ![b].notes = <<>>,
                                   ![b].rows = Deduped(@, Gathered(b)), ![b].complete = @ \cup {a}]
        BY <2>1, <2>4 DEF FetchPage
      <3>2. crawl' = [crawl EXCEPT ![b] = whole]
        BY <2>2, <3>1
      <3> QED
        BY <2>4, <3>2 DEF FetchPage, Charges
    <2> QED
      BY <2>3, <2>4
  <1>2. /\ node[b] = 4 /\ at[b] = "page" /\ crawl[b].account <= Len(Accounts)
        /\ crawl[b] \in Crawl /\ a \in Account /\ c \in DOMAIN Site[a] /\ c \in Cursor
        /\ billed \cup {<<b, a, c>>} \subseteq Batch \X Account \X Cursor
        /\ crawl[b].account \in 1..Len(Accounts)
    BY <1>1, AtPage, TurnTyped
  <1> HIDE DEF a, c
  <1>3. PagePosts(a, c) \in Seq(Post) /\ Site[a][c].next \in DOMAIN Site[a]
    BY <1>2, PageIs
  <1>4. crawl[b].notes \in Seq(Post) /\ crawl[b].rows \in Seq(Post) /\ crawl[b].complete \subseteq Account
    BY <1>2, CrawlIs
  <1>5. Gathered(b) \in Seq(Post)
    BY <1>3, <1>4 DEF Gathered, a, c
  <1>6. billed \subseteq billed' /\ billed' \subseteq Batch \X Account \X Cursor
    BY <1>1, <1>2 DEF Charges, a, c
  <1>7. CASE Continues(a, c) /\ crawl' = [crawl EXCEPT ![b] = more] /\ UNCHANGED at
    <2>1. Site[a][c].next \in Cursor /\ 0 \in 0..MaxRetries
      BY <1>2, <1>3, CrawlIs, CollectionAssumption
    <2>2. more \in Crawl /\ more.account = crawl[b].account /\ more.cursor = Site[a][c].next
      BY <1>2, <1>5, <2>1 DEF Crawl
    <2> HIDE DEF more
    <2>3. crawl'[b] = more /\ crawl' = [crawl EXCEPT ![b] = crawl'[b]]
      BY <1>7 DEF TypeInv, TypeOK
    <2>4. Moves(b)
      BY <1>1, <1>7, <2>3, StillMoves DEF Moves, record
    <2>5. TurnsPage(b)
      BY <1>1, <1>2, <1>7, <2>3 DEF TurnsPage, more, a, c
    <2>6. Accounts[more.account] = a
      BY <2>2 DEF a, Turn
    <2>7. Crawls(b)
      BY <1>1, <1>2, <1>3, <1>6, <1>7, <2>2, <2>3, <2>5, <2>6 DEF Crawls
    <2> QED
      BY <1>1, <2>4, <2>7, BoundsStay
  <1>8. CASE ~Continues(a, c) /\ crawl' = [crawl EXCEPT ![b] = whole] /\ Goto(b, "account")
    <2> DEFINE n == crawl[b].account + 1
               rows == Deduped(crawl[b].rows, Gathered(b))
    <2>1. rows \in Seq(Post) /\ n \in 1..(Len(Accounts) + 1) /\ <<>> \in Seq(Post)
      BY <1>2, <1>4, <1>5, DedupedIs, CrawlIs
    <2> HIDE DEF n, rows
    <2>2. [crawl[b] EXCEPT !.account = n, !.notes = <<>>, !.rows = rows,
                           !.complete = crawl[b].complete \cup {a}] \in Crawl
      BY <1>2, <1>4, <2>1 DEF Crawl
    <2>3. whole \in Crawl
      BY <2>2 DEF n, rows
    <2> HIDE DEF whole
    <2>4. crawl'[b] = whole /\ crawl' = [crawl EXCEPT ![b] = crawl'[b]]
      BY <1>8 DEF TypeInv, TypeOK
    <2>5. Moves(b)
      BY <1>1, <1>8, <2>4, StillMoves, GotoMoves DEF Moves, record
    <2>6. Finishes(b)
      BY <1>1, <1>2, <1>8, <2>4, GotoMoves DEF Finishes, whole, a, c
    <2>7. Crawls(b)
      BY <1>1, <1>2, <1>6, <1>8, <2>3, <2>4, <2>6, GotoMoves DEF Crawls
    <2> QED
      BY <1>1, <2>5, <2>7, BoundsStay
  <1> QED
    BY <1>1, <1>7, <1>8

LEMMA BenchmarkPostsKinds ==
  ASSUME TypeInv, NEW b \in Batch, BenchmarkPosts(b)
  PROVE  Moves(b) /\ BoundsMove /\ (Skips(b) \/ Makes(b))
  <1>1. /\ Crawling(b, "account") /\ crawl[b].account > Len(Accounts)
        /\ node[b] = 4 /\ at[b] = "account"
        /\ UNCHANGED <<docs, billed, disturbed, reposted, bounds>>
    BY DEF BenchmarkPosts, Crawling, Rest
  <1>2. CASE SoftFail(b)
    BY <1>1, <1>2, SoftFailSkips, BoundsStay
  <1>3. CASE Store(b, {Rows(b)})
    BY <1>1, <1>3, StoreMakes, BoundsStay DEF Makes, Writers, Outside
  <1> QED
    BY <1>2, <1>3 DEF BenchmarkPosts, Rows

LEMMA StatementKinds ==
  ASSUME TypeInv, NEW b \in Batch, NEW V, NEW label, at[b] # "rest",
         Statement(b, V, label), UNCHANGED <<billed, reposted>>
  PROVE  /\ Moves(b) /\ BoundsMove
         /\ \/ /\ docs' = [docs EXCEPT ![Output[node[b]]] = V]
               /\ disturbed' = disturbed \cup (Begun \ {b}) /\ at'[b] = label
               /\ UNCHANGED <<record, node, read, crawl, product>>
            \/ Rests(b)
            \/ /\ disturbed' = disturbed \cup {b} /\ at'[b] = label
               /\ UNCHANGED <<docs, record, node, read, crawl, product>>
  <1>1. CASE /\ docs' = [docs EXCEPT ![Output[node[b]]] = V]
             /\ disturbed' = disturbed \cup (Begun \ {b}) /\ Goto(b, label)
             /\ UNCHANGED <<record, node, read, crawl, product, bounds>>
    <2>1. Moves(b)
      BY <1>1, GotoMoves, StillMoves DEF Moves, record
    <2> QED
      BY <1>1, <2>1, GotoMoves, BoundsStay
  <1>2. CASE Fault /\ Fail(b) /\ UNCHANGED <<docs, disturbed>>
    BY <1>2, EndsStops, FaultMoves DEF Fail, Rests, Outside
  <1>3. CASE /\ Fault /\ disturbed' = disturbed \cup {b} /\ Goto(b, label)
             /\ UNCHANGED <<docs, record, node, read, crawl, product>>
    <2>1. Moves(b)
      BY <1>3, GotoMoves, StillMoves DEF Moves, record
    <2> QED
      BY <1>3, <2>1, GotoMoves, FaultMoves
  <1> QED
    BY <1>1, <1>2, <1>3 DEF Statement

LEMMA WriteKinds ==
  ASSUME TypeInv, NEW b \in Batch, ClearTable(b) \/ Write(b)
  PROVE  Moves(b) /\ BoundsMove /\ (Clears(b) \/ Writes(b) \/ Rests(b) \/ Loses(b))
  <1>1. CASE ClearTable(b)
    BY <1>1, StatementKinds DEF ClearTable, Clears, Loses
  <1>2. CASE Write(b)
    <2> DEFINE V == product[b] \cup (IF Output[node[b]] \in Docs THEN {} ELSE docs[Output[node[b]]])
    <2>1. at[b] = "write" /\ Statement(b, V, "save") /\ UNCHANGED <<billed, reposted>>
      BY <1>2 DEF Write
    <2>2. /\ Moves(b) /\ BoundsMove
          /\ \/ /\ docs' = [docs EXCEPT ![Output[node[b]]] = V]
                /\ disturbed' = disturbed \cup (Begun \ {b}) /\ at'[b] = "save"
                /\ UNCHANGED <<record, node, read, crawl, product>>
             \/ Rests(b)
             \/ /\ disturbed' = disturbed \cup {b} /\ at'[b] = "save"
                /\ UNCHANGED <<docs, record, node, read, crawl, product>>
      <3> HIDE DEF V
      <3> QED
        BY <2>1, StatementKinds
    <2> QED
      BY <2>1, <2>2 DEF Writes, Loses
  <1> QED
    BY <1>1, <1>2

LEMMA SaveNodeKinds ==
  ASSUME TypeInv, NEW b \in Batch, SaveNode(b)
  PROVE  Moves(b) /\ BoundsMove /\ Saves(b)
  <1>1. /\ at[b] = "save" /\ done' = [done EXCEPT ![b] = done[b] \cup {node[b]}]
        /\ Proceed(b, Later(b), done'[b], resumed[b])
        /\ UNCHANGED <<docs, billed, resumed, disturbed, reposted, bounds>>
    BY DEF SaveNode
  <1>2. /\ done'[b] = done[b] \cup {node[b]} /\ done' = [done EXCEPT ![b] = done'[b]]
        /\ resumed' = [resumed EXCEPT ![b] = resumed'[b]] /\ resumed[b] \in BOOLEAN
        /\ Later(b) \subseteq Chain(b)
    BY <1>1, StillMoves DEF TypeInv, TypeOK, Later
  <1>3. Moves(b) /\ Advances(b, IF resumed[b] THEN Later(b) \ done'[b] ELSE Later(b))
    <2> DEFINE ns == Later(b)
               D == done'[b]
               again == resumed[b]
    <2>1. /\ ns \subseteq Chain(b) /\ again \in BOOLEAN /\ Proceed(b, ns, D, again)
          /\ done' = [done EXCEPT ![b] = done'[b]] /\ resumed' = [resumed EXCEPT ![b] = resumed'[b]]
      BY <1>1, <1>2
    <2> HIDE DEF ns, D, again
    <2>2. Moves(b) /\ Advances(b, IF again THEN ns \ D ELSE ns)
      BY <2>1, ProceedAdvances
    <2> QED
      BY <2>2 DEF ns, D, again
  <1> QED
    BY <1>1, <1>2, <1>3, BoundsStay DEF Saves, Outside

LEMMA PostRunKinds ==
  ASSUME TypeInv, NEW b \in Batch, PostRun(b)
  PROVE  Moves(b) /\ BoundsMove /\ Posted(b)
  <1>1. /\ at[b] = "rest" /\ status[b] \in {"absent", "running"}
        /\ Proceed(b, Chain(b), done[b], resumed[b])
        /\ reposted' = IF status[b] = "running" /\ ~resumed[b] THEN reposted \cup {b} ELSE reposted
        /\ UNCHANGED <<docs, billed, done, resumed, disturbed, bounds>>
    BY DEF PostRun
  <1>2. /\ done' = [done EXCEPT ![b] = done'[b]] /\ resumed' = [resumed EXCEPT ![b] = resumed'[b]]
        /\ resumed[b] \in BOOLEAN
    BY <1>1, StillMoves DEF TypeInv, TypeOK
  <1>3. Moves(b) /\ Advances(b, IF resumed[b] THEN Chain(b) \ done[b] ELSE Chain(b))
    BY <1>1, <1>2, ProceedAdvances
  <1> QED
    BY <1>1, <1>2, <1>3, BoundsStay DEF Posted

LEMMA ResumeRunKinds ==
  ASSUME TypeInv, NEW b \in Batch, ResumeRun(b)
  PROVE  Moves(b) /\ BoundsMove /\ Resumes(b)
  <1>1. /\ at[b] = "rest" /\ status[b] \in {"blocked", "failed"}
        /\ resumed' = [resumed EXCEPT ![b] = TRUE] /\ Proceed(b, Chain(b), done[b], TRUE)
        /\ UNCHANGED <<docs, billed, done, disturbed, reposted, bounds>>
    BY DEF ResumeRun
  <1>2. /\ done' = [done EXCEPT ![b] = done'[b]] /\ resumed' = [resumed EXCEPT ![b] = resumed'[b]]
        /\ resumed'[b] = TRUE
    BY <1>1, StillMoves DEF TypeInv, TypeOK
  <1>3. Moves(b) /\ Advances(b, Chain(b) \ done[b])
    BY <1>1, <1>2, ProceedAdvances
  <1> QED
    BY <1>1, <1>2, <1>3, BoundsStay DEF Resumes, Outside

\* Whatever a run does is of one of the kinds.
LEMMA RunKinds ==
  ASSUME TypeInv, NEW b \in Batch, PostRun(b) \/ ResumeRun(b) \/ Step(b)
  PROVE  Moves(b) /\ BoundsMove /\ Worker(b) /\ ready' \in BOOLEAN
  <1>1. CASE CoordinatorCheck(b) \/ DailyHotspots(b)
    BY <1>1, PassKinds DEF Worker, CoordinatorCheck, DailyHotspots, TypeInv, TypeOK
  <1>2. CASE \/ IndustryKeywords(b) \/ IndustryReport(b) \/ MarketingPlan(b) \/ KeywordMatrix(b)
             \/ TopicBank(b) \/ DailyReport(b)
    <2>1. UNCHANGED ready
      BY <1>2 DEF IndustryKeywords, IndustryReport, MarketingPlan, KeywordMatrix, TopicBank, DailyReport,
           Generation
    <2> QED
      BY <1>2, <2>1, GenerationKinds DEF Worker, TypeInv, TypeOK
  <1>3. CASE ReadAccounts(b) \/ ResolveProfile(b) \/ RetryPage(b) \/ PageFails(b) \/ FetchPage(b)
             \/ BenchmarkPosts(b)
    <2>1. UNCHANGED ready
      BY <1>3 DEF ReadAccounts, ResolveProfile, RetryPage, PageFails, FetchPage, BenchmarkPosts, Rest
    <2> QED
      BY <1>3, <2>1, ReadAccountsKinds, ResolveProfileKinds, RetryPageKinds, PageFailsKinds, FetchPageKinds,
         BenchmarkPostsKinds DEF Worker, TypeInv, TypeOK
  <1>4. CASE ClearTable(b) \/ Write(b)
    BY <1>4, WriteKinds DEF Worker, ClearTable, Write, TypeInv, TypeOK
  <1>5. CASE SaveNode(b)
    BY <1>5, SaveNodeKinds DEF Worker, SaveNode, TypeInv, TypeOK
  <1>6. CASE PostRun(b)
    BY <1>6, PostRunKinds DEF Worker, PostRun, TypeInv, TypeOK
  <1>7. CASE ResumeRun(b)
    BY <1>7, ResumeRunKinds DEF Worker, ResumeRun, TypeInv, TypeOK
  <1> QED
    BY <1>1, <1>2, <1>3, <1>4, <1>5, <1>6, <1>7 DEF Step

-----------------------------------------------------------------------------
(* Types.                                                                    *)

\* A request of a client.
Edits ==
  /\ \E d \in Dataset \ Docs : \E V :
       docs' = [docs EXCEPT ![d] = V] /\ V \subseteq docs[d] \cup {Edited}
  /\ disturbed' = disturbed \cup Begun

LEMMA EditKinds ==
  ASSUME TypeInv, UserEdits
  PROVE  /\ BoundsMove /\ ready' \in BOOLEAN /\ UNCHANGED <<billed, reposted, record, worker>>
         /\ UNCHANGED <<docs, disturbed>> \/ Edits
  <1>1. BoundsMove
    BY CollectionAssumption DEF UserEdits, BoundsMove, TypeInv, TypeOK
  <1>2. CASE ready' = ~ready /\ UNCHANGED <<docs, disturbed>>
    BY <1>1, <1>2 DEF UserEdits
  <1>3. CASE /\ \E d \in Dataset \ Docs :
                  /\ \E gone \in {{}} \cup {{v} : v \in docs[d]}, new \in {{}, {Edited}} :
                       docs' = [docs EXCEPT ![d] = (@ \ gone) \cup new]
                  /\ disturbed' = disturbed \cup Begun
                  /\ UNCHANGED ready
    <2>1. PICK d \in Dataset \ Docs :
                  /\ \E gone \in {{}} \cup {{v} : v \in docs[d]}, new \in {{}, {Edited}} :
                       docs' = [docs EXCEPT ![d] = (@ \ gone) \cup new]
                  /\ disturbed' = disturbed \cup Begun
                  /\ UNCHANGED ready
      BY <1>3
    <2>2. PICK gone \in {{}} \cup {{v} : v \in docs[d]}, new \in {{}, {Edited}} :
                 docs' = [docs EXCEPT ![d] = (docs[d] \ gone) \cup new]
      BY <2>1 DEF TypeInv, TypeOK
    <2> DEFINE V == (docs[d] \ gone) \cup new
    <2>3. docs' = [docs EXCEPT ![d] = V] /\ V \subseteq docs[d] \cup {Edited}
      BY <2>2
    <2> HIDE DEF V
    <2>4. Edits
      BY <2>1, <2>3 DEF Edits
    <2> QED
      BY <1>1, <2>1, <2>4 DEF UserEdits, TypeInv, TypeOK
  <1> QED
    BY <1>2, <1>3 DEF UserEdits

LEMMA EditedIsVersion ==
  Edited \in Version /\ Edited.by = User
  <1>1. <<>> \in Seq(Post)
    OBVIOUS
  <1> QED
    BY <1>1 DEF Edited, Version, Writer

LEMMA VersionIs ==
  ASSUME NEW v, NEW b \in Batch, NEW o \in BOOLEAN, NEW posts \in Seq(Post),
         v = [by |-> b, own |-> o, paid |-> TRUE, posts |-> posts]
  PROVE  v \in Version /\ v.by = b /\ v.own = o /\ v.paid /\ v.posts = posts
  BY DEF Version, Writer

LEMMA GeneratedIsVersion ==
  ASSUME TypeInv, NEW b \in Batch
  PROVE  /\ Generated(b, TRUE) \in Version /\ Generated(b, TRUE).by = b /\ Generated(b, TRUE).paid
         /\ Generated(b, TRUE).posts = <<>>
         /\ Generated(b, TRUE).own <=> "another's" \notin Range(read[b])
  <1> DEFINE v == Generated(b, TRUE)
             o == "another's" \notin Range(read[b])
             none == <<>>
  <1>1. o \in BOOLEAN /\ none \in Seq(Post) /\ v = [by |-> b, own |-> o, paid |-> TRUE, posts |-> none]
    BY DEF Generated
  <1> HIDE DEF v, o, none
  <1>2. v \in Version /\ v.by = b /\ v.own = o /\ v.paid /\ v.posts = none
    BY <1>1, VersionIs
  <1> QED
    BY <1>1, <1>2 DEF v, o, none

LEMMA RowsAreVersion ==
  ASSUME TypeInv, NEW b \in Batch
  PROVE  /\ Rows(b) \in Version /\ Rows(b).by = b /\ Rows(b).paid /\ Rows(b).own
         /\ Rows(b).posts = crawl[b].rows
  <1>1. crawl[b].rows \in Seq(Post)
    BY CrawlIs DEF TypeInv, TypeOK
  <1> QED
    BY <1>1 DEF Rows, Version, Writer

LEMMA OutputIs ==
  ASSUME NEW n \in Writers
  PROVE  Output[n] \in Dataset /\ (Output[n] \in Tables \/ Output[n] \in Docs \/ n = 9)
  BY DEF Writers, Output, Dataset, Tables, Docs

\* What a run does to its own variables keeps their types.
Typed(b) ==
  /\ status'[b] \in {"absent", "running", "completed", "blocked", "failed"}
  /\ done'[b] \subseteq Node
  /\ resumed'[b] \in BOOLEAN
  /\ node'[b] \in Node
  /\ at'[b] \in At
  /\ read'[b] \in Seq(Reading)
  /\ crawl'[b] \in Crawl
  /\ product'[b] \subseteq Version
  /\ at'[b] # "rest" => status'[b] = "running" /\ node'[b] \in Chain(b)

LEMMA TypesHold ==
  ASSUME TypeInv, NEW b \in Batch, Moves(b), BoundsMove, ready' \in BOOLEAN, Typed(b),
         docs' \in [Dataset -> SUBSET Version], billed' \subseteq Batch \X Account \X Cursor,
         disturbed' \subseteq Batch, reposted' \subseteq Batch
  PROVE  TypeOK'
  <1>1. /\ status' \in [Batch -> {"absent", "running", "completed", "blocked", "failed"}]
        /\ done' \in [Batch -> SUBSET Node]
        /\ resumed' \in [Batch -> BOOLEAN]
        /\ node' \in [Batch -> Node]
    BY DEF Moves, Typed, TypeInv, TypeOK
  <1>2. /\ at' \in [Batch -> At]
        /\ read' \in [Batch -> Seq(Reading)]
        /\ crawl' \in [Batch -> Crawl]
        /\ product' \in [Batch -> SUBSET Version]
    BY DEF Moves, Typed, TypeInv, TypeOK
  <1>3. \A c \in Batch : at'[c] # "rest" => status'[c] = "running" /\ node'[c] \in Chain(c)
    <2>1. ASSUME NEW c \in Batch, c # b, at'[c] # "rest" PROVE status'[c] = "running" /\ node'[c] \in Chain(c)
      BY <2>1 DEF Moves, TypeInv, TypeOK
    <2> QED
      BY <2>1 DEF Typed
  <1>4. /\ faults' \in 0..MaxFaults /\ transients' \in 0..MaxTransients
        /\ crashes' \in 0..MaxCrashes /\ edits' \in 0..MaxEdits
    BY DEF BoundsMove
  <1> QED
    BY <1>1, <1>2, <1>3, <1>4 DEF TypeOK, Chain

\* The others' places stay theirs.
LEMMA PlacesHold ==
  ASSUME TypeInv, NEW b \in Batch, Moves(b), Placed(b)',
         disturbed' \subseteq disturbed \cup Begun \cup {b}, reposted' \subseteq reposted \cup {b}
  PROVE  \A c \in Batch : Placed(c)'
  <1>1. SUFFICES ASSUME NEW c \in Batch, c # b PROVE Placed(c)'
    OBVIOUS
  <1>2. Placed(c)
    BY DEF TypeInv
  <1>3. /\ status'[c] = status[c] /\ done'[c] = done[c] /\ resumed'[c] = resumed[c] /\ node'[c] = node[c]
        /\ at'[c] = at[c] /\ read'[c] = read[c] /\ crawl'[c] = crawl[c] /\ product'[c] = product[c]
    BY <1>1 DEF Moves, TypeInv, TypeOK
  <1>4. Turn(c)' = Turn(c)
    BY <1>3 DEF Turn
  <1>5. status[c] = "absent" => c \notin disturbed' /\ c \notin reposted'
    BY <1>1, <1>2 DEF Placed, Begun
  <1> QED
    BY <1>2, <1>3, <1>4, <1>5 DEF Placed

\* Where a run goes on, or ends.
LEMMA AdvancesTyped ==
  ASSUME TypeInv, NEW b \in Batch, NEW open, open \subseteq Chain(b), Advances(b, open),
         done'[b] \subseteq Chain(b), resumed'[b] \in BOOLEAN
  PROVE  Typed(b) /\ Placed(b)'
  <1>1. /\ read'[b] = <<>> /\ crawl'[b] = NoCrawl /\ product'[b] = {}
        /\ at'[b] \in {"rest", "read"} /\ status'[b] \in {"running", "completed"}
        /\ node'[b] \in Node /\ (at'[b] # "rest" => status'[b] = "running" /\ node'[b] \in Chain(b))
    BY ChainIs DEF Advances, TypeInv, TypeOK
  <1>2. <<>> \in Seq(Reading) /\ NoCrawl \in Crawl /\ done'[b] \subseteq Node
    BY ChainIs, CrawlIs
  <1>3. Typed(b)
    BY <1>1, <1>2 DEF Typed, At
  <1>4. Placed(b)'
    BY <1>1 DEF Placed
  <1> QED
    BY <1>3, <1>4

LEMMA StopsTyped ==
  ASSUME TypeInv, NEW b \in Batch, Stops(b)
  PROVE  Typed(b) /\ Placed(b)'
  <1>1. <<>> \in Seq(Reading) /\ NoCrawl \in Crawl
    BY CrawlIs
  <1>2. Typed(b)
    BY <1>1 DEF Typed, Stops, At, TypeInv, TypeOK
  <1>3. Placed(b)'
    BY DEF Stops, Placed, TypeInv
  <1> QED
    BY <1>2, <1>3

\* Every kind of step.
LEMMA WorkerTyped ==
  ASSUME TypeInv, NEW b \in Batch, Worker(b)
  PROVE  Typed(b) /\ Placed(b)'
  <1>1. /\ status[b] \in {"absent", "running", "completed", "blocked", "failed"}
        /\ done[b] \subseteq Chain(b) /\ done[b] \subseteq Node /\ resumed[b] \in BOOLEAN
        /\ node[b] \in Node /\ at[b] \in At /\ read[b] \in Seq(Reading) /\ crawl[b] \in Crawl
        /\ product[b] \subseteq Version
        /\ at[b] # "rest" => status[b] = "running" /\ node[b] \in Chain(b)
        /\ Placed(b)
    BY DEF TypeInv, TypeOK, Placed
  <1>2. CASE Passes(b)
    <2>1. /\ at[b] = "read" /\ at'[b] = "save"
          /\ UNCHANGED <<status, done, resumed, node, read, crawl, product>>
      BY <1>2 DEF Passes, record
    <2> QED
      BY <1>1, <2>1 DEF Typed, Placed, At
  <1>3. CASE ReadsOn(b)
    <2>1. /\ at[b] = "read"
          /\ UNCHANGED <<status, done, resumed, node, at, crawl, product>>
      BY <1>3 DEF ReadsOn, record
    <2>2. read'[b] \in Seq(Reading)
      BY <1>1, <1>3 DEF ReadsOn
    <2> QED
      BY <1>1, <2>1, <2>2 DEF Typed, Placed
  <1>4. CASE Makes(b)
    <2>1. /\ at[b] \in {"read", "account"} /\ node[b] \in Writers
          /\ at'[b] = (IF Output[node[b]] \in Tables THEN "clear" ELSE "write")
          /\ UNCHANGED <<status, done, resumed, node, read, crawl>>
      BY <1>4 DEF Makes, Crawling, record
    <2>2. product'[b] \subseteq {Generated(b, TRUE), Rows(b)}
      BY <1>4 DEF Makes
    <2>3. Generated(b, TRUE) \in Version /\ Rows(b) \in Version
      BY GeneratedIsVersion, RowsAreVersion
    <2>4. product'[b] \subseteq Version
      BY <2>2, <2>3
    <2> QED
      BY <1>1, <2>1, <2>4 DEF Typed, Placed, At
  <1>5. CASE Rests(b)
    BY <1>5, StopsTyped DEF Rests
  <1>6. CASE Skips(b)
    <2>1. Later(b) \subseteq Chain(b)
      BY DEF Later
    <2>2. (IF resumed[b] THEN Later(b) \ done[b] ELSE Later(b)) \subseteq Chain(b)
      BY <2>1
    <2> QED
      BY <1>1, <1>6, <2>2, AdvancesTyped DEF Skips
  <1>7. CASE Crawls(b)
    <2>1. /\ node[b] = 4 /\ at[b] \in {"read", "account", "page"} /\ at'[b] \in {"account", "page"}
          /\ UNCHANGED <<status, done, resumed, node, read, product>> /\ crawl'[b] \in Crawl
          /\ at'[b] = "page" =>
               /\ crawl'[b].account <= Len(Accounts)
               /\ crawl'[b].cursor \in DOMAIN Site[Accounts[crawl'[b].account]]
      BY <1>7 DEF Crawls, record
    <2>2. Typed(b)
      BY <1>1, <2>1 DEF Typed, At
    <2>3. Turn(b)' = Accounts[crawl'[b].account]
      BY DEF Turn
    <2>4. Placed(b)'
      BY <1>1, <2>1, <2>3 DEF Placed
    <2> QED
      BY <2>2, <2>4
  <1>8. CASE Clears(b) \/ Writes(b) \/ Loses(b)
    <2>1. /\ \/ at[b] = "clear" /\ at'[b] = "write"
             \/ at[b] = "write" /\ at'[b] = "save"
          /\ UNCHANGED <<status, done, resumed, node, read, crawl, product>>
      BY <1>8 DEF Clears, Writes, Loses, record
    <2> QED
      BY <1>1, <2>1 DEF Typed, Placed, At
  <1>9. CASE Saves(b)
    <2>1. Later(b) \subseteq Chain(b)
      BY DEF Later
    <2> DEFINE open == IF resumed[b] THEN Later(b) \ done'[b] ELSE Later(b)
    <2>2. open \subseteq Chain(b)
      BY <2>1
    <2>3. done'[b] \subseteq Chain(b) /\ resumed'[b] \in BOOLEAN /\ Advances(b, open)
      BY <1>1, <1>9 DEF Saves
    <2> HIDE DEF open
    <2> QED
      BY <2>2, <2>3, AdvancesTyped
  <1>10. CASE Posted(b)
    <2> DEFINE open == IF resumed[b] THEN Chain(b) \ done[b] ELSE Chain(b)
    <2>2. open \subseteq Chain(b)
      OBVIOUS
    <2>3. done'[b] \subseteq Chain(b) /\ resumed'[b] \in BOOLEAN /\ Advances(b, open)
      BY <1>1, <1>10 DEF Posted
    <2> HIDE DEF open
    <2> QED
      BY <2>2, <2>3, AdvancesTyped
  <1>11. CASE Resumes(b)
    <2> DEFINE open == Chain(b) \ done[b]
    <2>2. open \subseteq Chain(b)
      OBVIOUS
    <2>3. done'[b] \subseteq Chain(b) /\ resumed'[b] \in BOOLEAN /\ Advances(b, open)
      BY <1>1, <1>11 DEF Resumes
    <2> HIDE DEF open
    <2> QED
      BY <2>2, <2>3, AdvancesTyped
  <1> QED
    BY <1>2, <1>3, <1>4, <1>5, <1>6, <1>7, <1>8, <1>9, <1>10, <1>11 DEF Worker

\* The datasets, the ledger and the history a step leaves.
LEMMA WorkerData ==
  ASSUME TypeInv, NEW b \in Batch, Worker(b)
  PROVE  /\ docs' \in [Dataset -> SUBSET Version] /\ billed' \subseteq Batch \X Account \X Cursor
         /\ disturbed \subseteq disturbed' /\ disturbed' \subseteq disturbed \cup Begun \cup {b}
         /\ disturbed' \subseteq Batch
         /\ reposted \subseteq reposted' /\ reposted' \subseteq reposted \cup {b} /\ reposted' \subseteq Batch
  <1>1. /\ docs \in [Dataset -> SUBSET Version] /\ billed \subseteq Batch \X Account \X Cursor
        /\ disturbed \subseteq Batch /\ reposted \subseteq Batch /\ product[b] \subseteq Version
        /\ Begun \subseteq Batch
    BY DEF TypeInv, TypeOK, Begun
  <1>2. CASE UNCHANGED Outside
    BY <1>1, <1>2 DEF Outside
  <1>3. CASE Crawls(b)
    BY <1>1, <1>3 DEF Crawls
  <1>4. CASE Clears(b)
    BY <1>1, <1>4 DEF Clears
  <1>5. CASE Writes(b)
    <2> DEFINE V == product[b] \cup (IF Output[node[b]] \in Docs THEN {} ELSE docs[Output[node[b]]])
    <2>1. node[b] \in Writers
      BY <1>5 DEF Writes, TypeInv, Placed
    <2>2. V \subseteq Version
      BY <1>1, <2>1, OutputIs
    <2>3. docs' = [docs EXCEPT ![Output[node[b]]] = V]
      BY <1>5 DEF Writes
    <2> HIDE DEF V
    <2>4. docs' \in [Dataset -> SUBSET Version]
      BY <1>1, <2>2, <2>3
    <2> QED
      BY <1>1, <1>5, <2>4 DEF Writes
  <1>6. CASE Loses(b)
    BY <1>1, <1>6 DEF Loses
  <1>7. CASE Posted(b)
    BY <1>1, <1>7 DEF Posted
  <1> QED
    BY <1>2, <1>3, <1>4, <1>5, <1>6, <1>7
       DEF Worker, Passes, ReadsOn, Makes, Rests, Skips, Saves, Resumes

LEMMA TypeInit == Init => TypeInv
  <1> SUFFICES ASSUME Init PROVE TypeInv
    OBVIOUS
  <1>1. NoCrawl \in Crawl /\ <<>> \in Seq(Reading)
    BY CrawlIs
  <1>2. 0 \in 0..MaxFaults /\ 0 \in 0..MaxTransients /\ 0 \in 0..MaxCrashes /\ 0 \in 0..MaxEdits
    BY CollectionAssumption
  <1>3. \A b \in Batch : First(b) \in Node
    BY ChainIs
  <1>4. TypeOK
    <2>1. /\ docs \in [Dataset -> SUBSET Version] /\ ready \in BOOLEAN
          /\ billed \subseteq Batch \X Account \X Cursor
          /\ status \in [Batch -> {"absent", "running", "completed", "blocked", "failed"}]
          /\ done \in [Batch -> SUBSET Node] /\ resumed \in [Batch -> BOOLEAN]
          /\ disturbed \subseteq Batch /\ reposted \subseteq Batch
          /\ \A b \in Batch : at[b] # "rest" => status[b] = "running" /\ node[b] \in Chain(b)
      BY DEF Init
    <2>2. /\ node \in [Batch -> Node] /\ at \in [Batch -> At] /\ read \in [Batch -> Seq(Reading)]
          /\ crawl \in [Batch -> Crawl] /\ product \in [Batch -> SUBSET Version]
      BY <1>1, <1>3 DEF Init, At
    <2>3. /\ faults \in 0..MaxFaults /\ transients \in 0..MaxTransients
          /\ crashes \in 0..MaxCrashes /\ edits \in 0..MaxEdits
      BY <1>2 DEF Init
    <2> QED
      BY <2>1, <2>2, <2>3 DEF TypeOK
  <1>5. \A b \in Batch : Placed(b)
    BY DEF Init, Placed
  <1> QED
    BY <1>4, <1>5 DEF TypeInv

\* Those who move, or nobody.
CrashKind ==
  /\ at' = [b \in Batch |-> "rest"] /\ read' = [b \in Batch |-> <<>>]
  /\ crawl' = [b \in Batch |-> NoCrawl] /\ product' = [b \in Batch |-> {}]
  /\ UNCHANGED <<docs, ready, billed, status, done, resumed, node, disturbed, reposted>>
  /\ BoundsMove

EditKind ==
  /\ UNCHANGED <<billed, reposted, status, done, resumed, worker>> /\ ready' \in BOOLEAN
  /\ UNCHANGED <<docs, disturbed>> \/ Edits
  /\ BoundsMove

RunKind(b) == Moves(b) /\ BoundsMove /\ Worker(b) /\ ready' \in BOOLEAN

LEMMA NextKinds ==
  ASSUME TypeInv, [Next]_vars
  PROVE  (\E b \in Batch : RunKind(b)) \/ EditKind \/ CrashKind
  <1>1. CASE \E b \in Batch : PostRun(b) \/ ResumeRun(b) \/ Step(b)
    BY <1>1, RunKinds DEF RunKind
  <1>2. CASE UserEdits
    BY <1>2, EditKinds DEF EditKind, record
  <1>3. CASE Crash
    <2>1. BoundsMove
      BY <1>3, CollectionAssumption DEF Crash, BoundsMove, TypeInv, TypeOK
    <2> QED
      BY <1>3, <2>1 DEF Crash, CrashKind, record
  <1>4. CASE UNCHANGED vars
    <2>1. BoundsMove
      BY <1>4, BoundsStay DEF vars
    <2> QED
      BY <1>4, <2>1 DEF vars, EditKind, record, TypeInv, TypeOK
  <1> QED
    BY <1>1, <1>2, <1>3, <1>4 DEF Next

LEMMA TypeNext == TypeInv /\ [Next]_vars => TypeInv'
  <1> SUFFICES ASSUME TypeInv, [Next]_vars PROVE TypeInv'
    OBVIOUS
  <1>1. ASSUME NEW b \in Batch, RunKind(b) PROVE TypeInv'
    <2>1. Typed(b) /\ Placed(b)'
      BY <1>1, WorkerTyped DEF RunKind
    <2>2. /\ docs' \in [Dataset -> SUBSET Version] /\ billed' \subseteq Batch \X Account \X Cursor
          /\ disturbed' \subseteq disturbed \cup Begun \cup {b} /\ disturbed' \subseteq Batch
          /\ reposted' \subseteq reposted \cup {b} /\ reposted' \subseteq Batch
      BY <1>1, WorkerData DEF RunKind
    <2>3. TypeOK'
      BY <1>1, <2>1, <2>2, TypesHold DEF RunKind
    <2>4. \A c \in Batch : Placed(c)'
      BY <1>1, <2>1, <2>2, PlacesHold DEF RunKind
    <2> QED
      BY <2>3, <2>4 DEF TypeInv
  <1>2. CASE EditKind
    <2>1. docs' \in [Dataset -> SUBSET Version] /\ disturbed' \subseteq disturbed \cup Begun
          /\ disturbed' \subseteq Batch
      <3>1. CASE UNCHANGED <<docs, disturbed>>
        BY <3>1 DEF TypeInv, TypeOK
      <3>2. CASE Edits
        <4>0. PICK d \in Dataset \ Docs :
                \E V : docs' = [docs EXCEPT ![d] = V] /\ V \subseteq docs[d] \cup {Edited}
          BY <3>2 DEF Edits
        <4>1. PICK V : docs' = [docs EXCEPT ![d] = V] /\ V \subseteq docs[d] \cup {Edited}
          BY <4>0
        <4>2. V \subseteq Version
          BY <4>1, EditedIsVersion DEF TypeInv, TypeOK
        <4>3. docs' \in [Dataset -> SUBSET Version]
          BY <4>1, <4>2 DEF TypeInv, TypeOK
        <4> QED
          BY <3>2, <4>3 DEF Edits, Begun, TypeInv, TypeOK
      <3> QED
        BY <1>2, <3>1, <3>2 DEF EditKind
    <2>2. UNCHANGED <<billed, reposted, status, done, resumed, node, at, read, crawl, product>>
      BY <1>2 DEF EditKind, worker
    <2>3. TypeOK'
      BY <1>2, <2>1, <2>2 DEF EditKind, BoundsMove, TypeInv, TypeOK, Chain
    <2>4. ASSUME NEW c \in Batch PROVE Placed(c)'
      <3>1. Turn(c)' = Turn(c)
        BY <2>2 DEF Turn
      <3>2. Placed(c) /\ (status[c] = "absent" => c \notin disturbed')
        BY <2>1 DEF TypeInv, Placed, Begun
      <3> QED
        BY <2>2, <3>1, <3>2 DEF Placed
    <2> QED
      BY <2>3, <2>4 DEF TypeInv
  <1>3. CASE CrashKind
    <2>1. NoCrawl \in Crawl /\ <<>> \in Seq(Reading)
      BY CrawlIs
    <2>2. /\ at' \in [Batch -> At] /\ read' \in [Batch -> Seq(Reading)]
          /\ crawl' \in [Batch -> Crawl] /\ product' \in [Batch -> SUBSET Version]
          /\ \A c \in Batch : at'[c] = "rest" /\ read'[c] = <<>> /\ crawl'[c] = NoCrawl /\ product'[c] = {}
      BY <1>3, <2>1 DEF CrashKind, At
    <2>3. /\ docs' \in [Dataset -> SUBSET Version] /\ ready' \in BOOLEAN
          /\ billed' \subseteq Batch \X Account \X Cursor
          /\ status' \in [Batch -> {"absent", "running", "completed", "blocked", "failed"}]
          /\ done' \in [Batch -> SUBSET Node] /\ resumed' \in [Batch -> BOOLEAN]
          /\ node' \in [Batch -> Node] /\ disturbed' \subseteq Batch /\ reposted' \subseteq Batch
      BY <1>3 DEF CrashKind, TypeInv, TypeOK
    <2>4. TypeOK'
      BY <1>3, <2>2, <2>3 DEF CrashKind, BoundsMove, TypeOK
    <2>5. \A c \in Batch : Placed(c)'
      BY <1>3, <2>2 DEF CrashKind, TypeInv, Placed
    <2> QED
      BY <2>4, <2>5 DEF TypeInv
  <1> QED
    BY <1>1, <1>2, <1>3, NextKinds

LEMMA TypeAlways == Spec => []TypeInv
  BY TypeInit, TypeNext, PTL DEF Spec

\* The datasets, the ledger, the runs' records and what their workers hold have their
\* types, and only a running run has a worker.
THEOREM TypeCorrect == Spec => []TypeOK
  <1>1. TypeInv => TypeOK
    BY DEF TypeInv
  <1> QED
    BY <1>1, TypeAlways, PTL

-----------------------------------------------------------------------------
(* Nothing is published that was not charged.                                *)

\* The pages of the posts are in ledger L, for batch b.
Charged(L, b, posts) == \A i \in DOMAIN posts : <<b, posts[i].account, posts[i].cursor>> \in L

Paid(L, b, v) == v.by = b /\ v.paid /\ Charged(L, b, v.posts)

ChargeInv ==
  /\ \A d \in Dataset : \A v \in docs[d] : v.by \in Batch => Paid(billed, v.by, v)
  /\ \A b \in Batch : \A v \in product[b] : Paid(billed, b, v)
  /\ \A b \in Batch : Charged(billed, b, crawl[b].rows) /\ Charged(billed, b, crawl[b].notes)

LEMMA ChargedStays ==
  ASSUME NEW L, NEW M, L \subseteq M, NEW b
  PROVE  /\ \A posts : Charged(L, b, posts) => Charged(M, b, posts)
         /\ \A v : Paid(L, b, v) => Paid(M, b, v)
  BY DEF Charged, Paid

LEMMA ChargedAmong ==
  ASSUME NEW L, NEW b, NEW r, NEW s, NEW t, Charged(L, b, s), Charged(L, b, t),
         \A i \in DOMAIN r : Among(r[i], s) \/ Among(r[i], t)
  PROVE  Charged(L, b, r)
  BY DEF Charged, Among

LEMMA Joined ==
  ASSUME NEW s \in Seq(Post), NEW t \in Seq(Post)
  PROVE  /\ s \o t \in Seq(Post)
         /\ \A i \in DOMAIN (s \o t) : Among((s \o t)[i], s) \/ Among((s \o t)[i], t)
         /\ Links(s \o t) = Links(s) \cup Links(t)
  <1> DEFINE r == s \o t
             m == Len(s)
             n == Len(t)
  <1>1. /\ r \in Seq(Post) /\ m \in Nat /\ n \in Nat /\ DOMAIN r = 1..(m + n)
        /\ DOMAIN s = 1..m /\ DOMAIN t = 1..n
        /\ \A i \in 1..(m + n) : r[i] = IF i <= m THEN s[i] ELSE t[i - m]
    OBVIOUS
  <1> HIDE DEF r, m, n
  <1>2. \A i \in DOMAIN r : (i \in DOMAIN s /\ r[i] = s[i]) \/ (i - m \in DOMAIN t /\ r[i] = t[i - m])
    BY <1>1
  <1>3. \A i \in DOMAIN s : i \in DOMAIN r /\ r[i] = s[i]
    BY <1>1
  <1>4. ASSUME NEW i \in DOMAIN t PROVE i + m \in DOMAIN r /\ r[i + m] = t[i]
    <2>1. i + m \in 1..(m + n) /\ ~(i + m <= m) /\ (i + m) - m = i
      BY <1>1
    <2> QED
      BY <1>1, <2>1
  <1>5. \A i \in DOMAIN r : Among(r[i], s) \/ Among(r[i], t)
    BY <1>2 DEF Among
  <1>6. Links(r) = Links(s) \cup Links(t)
    <2>1. Links(r) \subseteq Links(s) \cup Links(t)
      BY <1>2 DEF Links
    <2>2. Links(s) \subseteq Links(r)
      <3>1. ASSUME NEW i \in DOMAIN s PROVE s[i].note \in Links(r)
        BY <1>3 DEF Links
      <3> QED
        BY <3>1 DEF Links
    <2>3. Links(t) \subseteq Links(r)
      <3>1. ASSUME NEW i \in DOMAIN t PROVE t[i].note \in Links(r)
        <4>1. i + m \in DOMAIN r /\ r[i + m].note = t[i].note
          BY <1>4
        <4> QED
          BY <4>1 DEF Links
      <3> QED
        BY <3>1 DEF Links
    <2> QED
      BY <2>1, <2>2, <2>3
  <1> QED
    BY <1>1, <1>5, <1>6 DEF r

\* A run writes what it has made, and the ledger only grows.
LEMMA WorkerWrites ==
  ASSUME TypeInv, NEW b \in Batch, Worker(b)
  PROVE  billed \subseteq billed' /\ \A d \in Dataset : docs'[d] \subseteq docs[d] \cup product[b]
  <1>1. docs \in [Dataset -> SUBSET Version]
    BY DEF TypeInv, TypeOK
  <1>2. CASE UNCHANGED <<docs, billed>>
    BY <1>1, <1>2
  <1>3. CASE Crawls(b)
    BY <1>1, <1>3 DEF Crawls
  <1>4. CASE Clears(b)
    BY <1>1, <1>4 DEF Clears
  <1>5. CASE Writes(b)
    <2> DEFINE V == product[b] \cup (IF Output[node[b]] \in Docs THEN {} ELSE docs[Output[node[b]]])
    <2>1. V \subseteq product[b] \cup docs[Output[node[b]]]
      OBVIOUS
    <2>2. docs' = [docs EXCEPT ![Output[node[b]]] = V] /\ UNCHANGED billed
      BY <1>5 DEF Writes
    <2> HIDE DEF V
    <2> QED
      BY <1>1, <2>1, <2>2
  <1> QED
    BY <1>2, <1>3, <1>4, <1>5
       DEF Worker, Passes, ReadsOn, Makes, Rests, Skips, Saves, Posted, Resumes, Loses, Outside

LEMMA WorkerMakes ==
  ASSUME TypeInv, NEW b \in Batch, Worker(b)
  PROVE  /\ product'[b] \subseteq product[b] \cup {Generated(b, TRUE), Rows(b)}
         /\ crawl'[b] = crawl[b] \/ crawl'[b] = NoCrawl \/ Crawls(b)
  BY DEF Worker, Passes, ReadsOn, Makes, Rests, Stops, Skips, Advances, Crawls, Clears, Writes, Loses,
         Saves, Posted, Resumes

LEMMA CrawlCharged ==
  ASSUME TypeInv, NEW b \in Batch, Crawls(b), Charged(billed, b, crawl[b].rows), Charged(billed, b, crawl[b].notes)
  PROVE  Charged(billed', b, crawl'[b].rows) /\ Charged(billed', b, crawl'[b].notes)
  <1> DEFINE L == billed'
             c == crawl[b]
             d == crawl'[b]
  <1>1. Charged(L, b, c.rows) /\ Charged(L, b, c.notes) /\ c \in Crawl
    BY ChargedStays DEF Crawls, TypeInv, TypeOK
  <1>2. Charged(L, b, <<>>)
    BY DEF Charged
  <1>3. CASE d.rows = c.rows /\ d.notes \in {c.notes, <<>>}
    BY <1>1, <1>2, <1>3
  <1>4. CASE TurnsPage(b) \/ Finishes(b)
    <2>1. at[b] = "page" /\ node[b] = 4 /\ Charges(b)
      BY <1>4 DEF TurnsPage, Finishes, Crawls
    <2>2. Turn(b) \in Account /\ c.cursor \in DOMAIN Site[Turn(b)]
      BY <2>1, AtPage DEF Crawling
    <2> DEFINE page == PagePosts(Turn(b), c.cursor)
               rows == Deduped(c.rows, Gathered(b))
    <2>3. /\ page \in Seq(Post)
          /\ \A i \in DOMAIN page : page[i].account = Turn(b) /\ page[i].cursor = c.cursor
      BY <2>2, PageIs
    <2>4. Charged(L, b, page)
      <3> HIDE DEF page
      <3> QED
        BY <2>1, <2>3 DEF Charged, Charges
    <2>5. c.notes \in Seq(Post) /\ c.rows \in Seq(Post)
      BY <1>1, CrawlIs
    <2>6. Gathered(b) = c.notes \o page
      BY DEF Gathered
    <2> HIDE DEF page
    <2>7. Gathered(b) \in Seq(Post) /\ Charged(L, b, Gathered(b))
      <3>1. /\ Gathered(b) \in Seq(Post)
            /\ \A i \in DOMAIN Gathered(b) : Among(Gathered(b)[i], c.notes) \/ Among(Gathered(b)[i], page)
        BY <2>3, <2>5, <2>6, Joined
      <3> QED
        BY <1>1, <2>4, <3>1, ChargedAmong
    <2>8. Charged(L, b, rows)
      <3>1. \A i \in DOMAIN rows : Among(rows[i], c.rows) \/ Among(rows[i], Gathered(b))
        BY <2>5, <2>7, DedupedIs
      <3> HIDE DEF rows
      <3> QED
        BY <1>1, <2>7, <3>1, ChargedAmong
    <2> HIDE DEF rows, L
    <2>9. CASE TurnsPage(b)
      <3>1. d.rows = c.rows /\ d.notes = Gathered(b)
        BY <1>1, <2>9 DEF TurnsPage, Crawl
      <3> QED
        BY <1>1, <2>7, <3>1 DEF L
    <2>10. CASE Finishes(b)
      <3>1. d.rows = rows /\ d.notes = <<>>
        BY <1>1, <2>10 DEF Finishes, Crawl, rows
      <3> QED
        BY <1>2, <2>8, <3>1 DEF L
    <2> QED
      BY <1>4, <2>9, <2>10
  <1>5. CASE Begins(b) \/ LeavesOut(b) \/ Opens(b) \/ Retries(b)
    <2>1. d.rows = c.rows /\ d.notes \in {c.notes, <<>>}
      BY <1>1, <1>5 DEF Begins, LeavesOut, NextTurn, Opens, Retries, Crawl
    <2> QED
      BY <1>3, <2>1
  <1> QED
    BY <1>4, <1>5 DEF Crawls

LEMMA ChargeNext == TypeInv /\ ChargeInv /\ [Next]_vars => ChargeInv'
  <1> SUFFICES ASSUME TypeInv, ChargeInv, [Next]_vars PROVE ChargeInv'
    OBVIOUS
  <1>1. ASSUME NEW b \in Batch, RunKind(b) PROVE ChargeInv'
    <2>1. /\ billed \subseteq billed' /\ \A d \in Dataset : docs'[d] \subseteq docs[d] \cup product[b]
          /\ product'[b] \subseteq product[b] \cup {Generated(b, TRUE), Rows(b)}
          /\ crawl'[b] = crawl[b] \/ crawl'[b] = NoCrawl \/ Crawls(b)
      BY <1>1, WorkerWrites, WorkerMakes DEF RunKind
    <2>2. \A c \in Batch : c # b => product'[c] = product[c] /\ crawl'[c] = crawl[c]
      BY <1>1 DEF RunKind, Moves, TypeInv, TypeOK
    <2>3. /\ \A c \in Batch : \A v : Paid(billed, c, v) => Paid(billed', c, v)
          /\ \A c \in Batch : \A posts : Charged(billed, c, posts) => Charged(billed', c, posts)
      BY <2>1, ChargedStays
    <2>4. \A d \in Dataset : \A v \in docs'[d] : v.by \in Batch => Paid(billed', v.by, v)
      <3>1. SUFFICES ASSUME NEW d \in Dataset, NEW v \in docs'[d], v.by \in Batch PROVE Paid(billed', v.by, v)
        OBVIOUS
      <3>2. v \in docs[d] => Paid(billed, v.by, v)
        BY <3>1 DEF ChargeInv
      <3>3. v \in product[b] => Paid(billed, b, v) /\ v.by = b
        BY DEF ChargeInv, Paid
      <3> QED
        BY <2>1, <2>3, <3>1, <3>2, <3>3
    <2>5. Paid(billed', b, Generated(b, TRUE)) /\ Paid(billed', b, Rows(b))
      <3>1. Charged(billed', b, <<>>)
        BY DEF Charged
      <3>2. Charged(billed', b, crawl[b].rows)
        BY <2>3 DEF ChargeInv
      <3> QED
        BY <3>1, <3>2, GeneratedIsVersion, RowsAreVersion DEF Paid
    <2>6. \A c \in Batch : \A v \in product'[c] : Paid(billed', c, v)
      BY <2>1, <2>2, <2>3, <2>5 DEF ChargeInv
    <2>7. Charged(billed', b, crawl'[b].rows) /\ Charged(billed', b, crawl'[b].notes)
      <3>1. Charged(billed, b, crawl[b].rows) /\ Charged(billed, b, crawl[b].notes)
        BY DEF ChargeInv
      <3>2. CASE crawl'[b] = crawl[b]
        BY <2>3, <3>1, <3>2
      <3>3. CASE crawl'[b] = NoCrawl
        BY <3>3 DEF NoCrawl, Charged
      <3>4. CASE Crawls(b)
        BY <3>1, <3>4, CrawlCharged
      <3> QED
        BY <2>1, <3>2, <3>3, <3>4
    <2>8. \A c \in Batch : Charged(billed', c, crawl'[c].rows) /\ Charged(billed', c, crawl'[c].notes)
      <3>1. ASSUME NEW c \in Batch, c # b
            PROVE  Charged(billed', c, crawl'[c].rows) /\ Charged(billed', c, crawl'[c].notes)
        <4>1. Charged(billed, c, crawl[c].rows) /\ Charged(billed, c, crawl[c].notes)
          BY DEF ChargeInv
        <4> QED
          BY <2>2, <2>3, <3>1, <4>1
      <3> QED
        BY <2>7, <3>1
    <2> QED
      BY <2>4, <2>6, <2>8 DEF ChargeInv
  <1>2. CASE EditKind
    <2>1. UNCHANGED <<billed, crawl, product>>
      BY <1>2 DEF EditKind, worker
    <2>2. \A d \in Dataset : docs'[d] \subseteq docs[d] \cup {Edited}
      <3>1. CASE UNCHANGED docs
        BY <3>1
      <3>2. CASE Edits
        BY <3>2 DEF Edits, TypeInv, TypeOK
      <3> QED
        BY <1>2, <3>1, <3>2 DEF EditKind
    <2>3. Edited.by \notin Batch
      BY EditedIsVersion, CollectionAssumption
    <2>4. \A d \in Dataset : \A v \in docs'[d] : v.by \in Batch => Paid(billed', v.by, v)
      BY <2>1, <2>2, <2>3 DEF ChargeInv
    <2> QED
      BY <2>1, <2>4 DEF ChargeInv
  <1>3. CASE CrashKind
    <2>1. /\ UNCHANGED <<docs, billed>>
          /\ \A c \in Batch : product'[c] = {} /\ crawl'[c] = NoCrawl
      BY <1>3 DEF CrashKind
    <2>2. \A c \in Batch : Charged(billed', c, NoCrawl.rows) /\ Charged(billed', c, NoCrawl.notes)
      BY DEF Charged, NoCrawl
    <2> QED
      BY <2>1, <2>2 DEF ChargeInv
  <1> QED
    BY <1>1, <1>2, <1>3, NextKinds

LEMMA ChargeInit == Init => ChargeInv
  BY DEF Init, ChargeInv, Charged, NoCrawl

\* Every text in the datasets was paid for and every post's page is in the ledger, for
\* any runs at once, whatever raises: a model call and a page are charged before the
\* code looks at the answer, and nothing is stored from a call whose charge failed.
THEOREM AllPublishedAreCharged == Spec => []PublishedAreCharged
  <1>1. Init => TypeInv /\ ChargeInv
    BY TypeInit, ChargeInit
  <1>2. TypeInv /\ ChargeInv /\ [Next]_vars => (TypeInv /\ ChargeInv)'
    BY TypeNext, ChargeNext
  <1>3. ChargeInv => PublishedAreCharged
    BY DEF ChargeInv, PublishedAreCharged, Paid, Charged
  <1> QED
    BY <1>1, <1>2, <1>3, PTL DEF Spec

-----------------------------------------------------------------------------
(* What is written of the benchmark accounts is whole.                       *)

\* The notes of the first k pages of a path.
NotesUpto(a, path, k) == UNION {Range(Site[a][path[i]].notes) : i \in 1..k}

\* Of a crawl c, after f faults and t requests that had to be repeated.
Whole(c, f, t) ==
  /\ Links(c.rows) = UNION {Posts(a) : a \in c.complete}
  /\ Distinct(c.rows)
  /\ f = 0 /\ t <= MaxRetries => c.complete = {Accounts[i] : i \in 1..(c.account - 1)} \ NoHomepage

\* It has all pages of the account before the one it asks for.
Reaches(c, t) ==
  LET a == Accounts[c.account]
  IN  /\ a \notin NoHomepage /\ c.tries <= t
      /\ \E n \in Nat \ {0} : \E path \in [1..n -> DOMAIN Site[a]] : \E k \in 1..n :
           /\ Leads(a, n, path)
           /\ c.cursor = path[k] /\ Links(c.notes) = NotesUpto(a, path, k - 1)

CrawlOk(c, label, f, t) ==
  /\ Whole(c, f, t)
  /\ label = "account" => c.notes = <<>>
  /\ label = "page" => Reaches(c, t)
  /\ label \in {"clear", "write"} => c.account > Len(Accounts)

CrawlInv ==
  \A b \in Batch :
    node[b] = 4 /\ at[b] \in {"account", "page", "clear", "write"} =>
      CrawlOk(crawl[b], at[b], faults, transients)

LEMMA CrawlOkStays ==
  ASSUME NEW c \in Crawl, NEW label, NEW f \in Nat, NEW g \in Nat, f <= g, NEW t \in Nat, NEW u \in Nat, t <= u,
         CrawlOk(c, label, f, t)
  PROVE  CrawlOk(c, label, g, u)
  <1>1. Whole(c, g, u)
    <2>1. g = 0 /\ u <= MaxRetries => f = 0 /\ t <= MaxRetries
      BY CollectionAssumption
    <2> QED
      BY <2>1 DEF CrawlOk, Whole
  <1>2. label = "page" => Reaches(c, u)
    <2>1. c.tries \in Nat /\ (c.tries <= t => c.tries <= u)
      BY CrawlIs, CollectionAssumption
    <2> QED
      BY <2>1 DEF CrawlOk, Reaches
  <1> QED
    BY <1>1, <1>2 DEF CrawlOk

LEMMA BoundsAreNat ==
  ASSUME TypeInv, BoundsMove
  PROVE  /\ faults \in Nat /\ faults' \in Nat /\ faults <= faults'
         /\ transients \in Nat /\ transients' \in Nat /\ transients <= transients'
  BY CollectionAssumption DEF TypeInv, TypeOK, BoundsMove

LEMMA AccountPath ==
  ASSUME NEW a \in Account
  PROVE  \E n \in Nat \ {0} : \E path \in [1..n -> DOMAIN Site[a]] : Leads(a, n, path)
  <1> DEFINE S == DOMAIN Site[a]
             m == Cardinality(S)
  <1>1. IsFiniteSet(S) /\ \E n \in 1..m : \E path \in [1..n -> S] : Leads(a, n, path)
    BY SiteAssumption
  <1>2. m \in Nat
    BY <1>1, FS_CardinalityType
  <1> HIDE DEF S, m
  <1>3. \E n \in Nat \ {0} : \E path \in [1..n -> S] : Leads(a, n, path)
    BY <1>1, <1>2
  <1> QED
    BY <1>3 DEF S

LEMMA PathPosts ==
  ASSUME NEW a, NEW n \in Nat \ {0}, NEW path \in [1..n -> DOMAIN Site[a]], Leads(a, n, path)
  PROVE  NotesUpto(a, path, n) \ {Blank} = Posts(a)
  <1> DEFINE S == DOMAIN Site[a]
             N(c) == Range(Site[a][c].notes)
  <1>1. S = {path[i] : i \in 1..n}
    BY DEF Leads, Range
  <1>2. NotesUpto(a, path, n) = UNION {N(path[i]) : i \in 1..n} /\ Posts(a) = (UNION {N(c) : c \in S}) \ {Blank}
    BY DEF NotesUpto, Posts
  <1> HIDE DEF S, N
  <1>3. UNION {N(path[i]) : i \in 1..n} = UNION {N(c) : c \in S}
    BY <1>1
  <1> QED
    BY <1>2, <1>3

LEMMA NoLinks == Links(<<>>) = {} /\ Distinct(<<>>)
  BY DEF Links, Distinct

\* The steps of the crawl.
LEMMA BeginsOk ==
  ASSUME NEW f \in Nat, NEW t \in Nat
  PROVE  CrawlOk(NoCrawl, "account", f, t)
  <1>1. NoCrawl.rows = <<>> /\ NoCrawl.notes = <<>> /\ NoCrawl.complete = {} /\ NoCrawl.account = 1
    BY DEF NoCrawl
  <1>2. {Accounts[i] : i \in 1..(1 - 1)} = {}
    OBVIOUS
  <1>3. Whole(NoCrawl, f, t)
    BY <1>1, <1>2, NoLinks DEF Whole
  <1> QED
    BY <1>1, <1>3 DEF CrawlOk

LEMMA LeavesOutOk ==
  ASSUME TypeInv, BoundsMove, NEW b \in Batch, Crawls(b), LeavesOut(b), at[b] # "read",
         CrawlOk(crawl[b], at[b], faults, transients)
  PROVE  CrawlOk(crawl'[b], "account", faults', transients')
  <1> DEFINE c == crawl[b]
             d == crawl'[b]
             A(n) == {Accounts[i] : i \in 1..n}
  <1>1. c \in Crawl /\ c.account \in 1..Len(Accounts) /\ c.tries \in Nat
    <2>1. c.account <= Len(Accounts)
      BY DEF Crawls
    <2>2. c \in Crawl /\ c.account \in 1..Len(Accounts)
      BY <2>1, TurnTyped
    <2> QED
      BY <2>2, CrawlIs, CollectionAssumption
  <1>2. d.rows = c.rows /\ d.complete = c.complete /\ d.account = c.account + 1 /\ d.notes = <<>>
    BY <1>1 DEF LeavesOut, NextTurn, Crawl
  <1>3. /\ faults \in Nat /\ faults' \in Nat /\ faults <= faults'
        /\ transients \in Nat /\ transients' \in Nat /\ transients <= transients'
    BY BoundsAreNat
  <1>4. Whole(c, faults, transients) /\ (at[b] = "page" => c.tries <= transients)
    BY DEF CrawlOk, Reaches
  <1>5. ASSUME faults' = 0, transients' <= MaxRetries PROVE c.complete = A(d.account - 1) \ NoHomepage
    <2>1. Turn(b) \in NoHomepage
      BY <1>1, <1>3, <1>4, <1>5, CollectionAssumption DEF LeavesOut
    <2>2. c.complete = A(c.account - 1) \ NoHomepage
      BY <1>3, <1>4, <1>5, CollectionAssumption DEF Whole
    <2>3. A(c.account) = A(c.account - 1) \cup {Turn(b)}
      <3>1. 1..c.account = 1..(c.account - 1) \cup {c.account}
        BY <1>1
      <3> QED
        BY <3>1 DEF Turn
    <2>4. d.account - 1 = c.account
      BY <1>1, <1>2
    <2> QED
      BY <2>1, <2>2, <2>3, <2>4
  <1>6. Whole(d, faults', transients')
    BY <1>2, <1>4, <1>5 DEF Whole
  <1> QED
    BY <1>2, <1>6 DEF CrawlOk

LEMMA OpensOk ==
  ASSUME TypeInv, BoundsMove, NEW b \in Batch, Crawls(b), Opens(b),
         CrawlOk(crawl[b], at[b], faults, transients)
  PROVE  CrawlOk(crawl'[b], "page", faults', transients')
  <1> DEFINE c == crawl[b]
             d == crawl'[b]
             a == Turn(b)
  <1>1. c \in Crawl /\ a \in Account
    BY TurnTyped DEF Crawls, Opens
  <1>2. /\ d.rows = c.rows /\ d.complete = c.complete /\ d.account = c.account /\ d.notes = c.notes
        /\ d.cursor = Start /\ d.tries = 0
    BY <1>1 DEF Opens, Crawl
  <1>3. CrawlOk(c, at[b], faults', transients') /\ transients' \in Nat
    BY <1>1, BoundsAreNat, CrawlOkStays
  <1>4. Whole(d, faults', transients')
    BY <1>2, <1>3 DEF CrawlOk, Whole
  <1>5. Reaches(d, transients')
    <2>1. PICK n \in Nat \ {0} : \E path \in [1..n -> DOMAIN Site[a]] : Leads(a, n, path)
      BY <1>1, AccountPath
    <2>6. PICK path \in [1..n -> DOMAIN Site[a]] : Leads(a, n, path)
      BY <2>1
    <2>2. 1 \in 1..n /\ d.cursor = path[1]
      BY <1>2, <2>6 DEF Leads
    <2>3. NotesUpto(a, path, 1 - 1) = {} /\ Links(d.notes) = {}
      <3>1. 1..(1 - 1) = {}
        OBVIOUS
      <3>2. d.notes = <<>>
        BY <1>2 DEF Opens, CrawlOk
      <3> QED
        BY <3>1, <3>2, NoLinks DEF NotesUpto
    <2>4. a \notin NoHomepage /\ d.tries <= transients'
      BY <1>2, <1>3 DEF Opens
    <2>5. Accounts[d.account] = a
      BY <1>2 DEF Turn
    <2> HIDE DEF a, d
    <2> QED
      BY <2>2, <2>3, <2>4, <2>5, <2>6 DEF Reaches
  <1> QED
    BY <1>4, <1>5 DEF CrawlOk

LEMMA RetriesOk ==
  ASSUME TypeInv, BoundsMove, NEW b \in Batch, Crawls(b), Retries(b),
         CrawlOk(crawl[b], at[b], faults, transients)
  PROVE  CrawlOk(crawl'[b], "page", faults', transients')
  <1> DEFINE c == crawl[b]
             d == crawl'[b]
  <1>1. c \in Crawl /\ c.tries \in Nat
    BY CrawlIs, CollectionAssumption DEF TypeInv, TypeOK
  <1>2. /\ d.rows = c.rows /\ d.complete = c.complete /\ d.account = c.account /\ d.notes = c.notes
        /\ d.cursor = c.cursor /\ d.tries = c.tries + 1
    BY <1>1 DEF Retries, Crawl
  <1>3. CrawlOk(c, at[b], faults', transients') /\ transients \in Nat
    BY <1>1, BoundsAreNat, CrawlOkStays
  <1>4. Whole(d, faults', transients')
    BY <1>2, <1>3 DEF CrawlOk, Whole
  <1>5. Reaches(c, transients)
    BY DEF CrawlOk, Retries
  <1>6. d.tries <= transients'
    BY <1>1, <1>2, <1>3, <1>5 DEF Reaches, Retries
  <1>7. Reaches(d, transients')
    BY <1>2, <1>5, <1>6 DEF Reaches
  <1> QED
    BY <1>4, <1>7 DEF CrawlOk

\* What there is of the account with this page.
LEMMA GatheredIs ==
  ASSUME TypeInv, NEW b \in Batch, Crawling(b, "page"), NEW n \in Nat \ {0}, NEW k \in 1..n, NEW path,
         path \in [1..n -> DOMAIN Site[Turn(b)]], crawl[b].cursor = path[k],
         Links(crawl[b].notes) = NotesUpto(Turn(b), path, k - 1)
  PROVE  Gathered(b) \in Seq(Post) /\ Links(Gathered(b)) = NotesUpto(Turn(b), path, k)
  <1> DEFINE a == Turn(b)
             c == crawl[b].cursor
             page == PagePosts(a, c)
  <1>1. a \in Account /\ c \in DOMAIN Site[a] /\ crawl[b] \in Crawl
    BY AtPage
  <1>2. page \in Seq(Post) /\ Links(page) = Range(Site[a][c].notes)
    BY <1>1, PageIs
  <1>3. crawl[b].notes \in Seq(Post)
    BY <1>1, CrawlIs
  <1>4. Gathered(b) = crawl[b].notes \o page
    BY DEF Gathered
  <1>5. NotesUpto(a, path, k) = NotesUpto(a, path, k - 1) \cup Range(Site[a][c].notes)
    <2>1. 1..k = 1..(k - 1) \cup {k}
      OBVIOUS
    <2> HIDE DEF a
    <2> QED
      BY <2>1 DEF NotesUpto, c
  <1> HIDE DEF page
  <1> QED
    BY <1>2, <1>3, <1>4, <1>5, Joined

LEMMA TurnsPageOk ==
  ASSUME TypeInv, BoundsMove, NEW b \in Batch, Crawls(b), TurnsPage(b),
         CrawlOk(crawl[b], at[b], faults, transients)
  PROVE  CrawlOk(crawl'[b], "page", faults', transients')
  <1> DEFINE c == crawl[b]
             d == crawl'[b]
             a == Turn(b)
  <1>1. c \in Crawl /\ Crawling(b, "page")
    BY DEF TypeInv, TypeOK, Crawls, TurnsPage, Crawling
  <1>2. /\ d.rows = c.rows /\ d.complete = c.complete /\ d.account = c.account /\ d.notes = Gathered(b)
        /\ d.cursor = Site[a][c.cursor].next /\ d.tries = 0 /\ Continues(a, c.cursor)
    BY <1>1 DEF TurnsPage, Crawl
  <1>3. CrawlOk(c, at[b], faults', transients') /\ transients' \in Nat
    BY <1>1, BoundsAreNat, CrawlOkStays
  <1>4. Whole(d, faults', transients')
    BY <1>2, <1>3 DEF CrawlOk, Whole
  <1>5. Reaches(c, transients)
    BY DEF CrawlOk, TurnsPage
  <1>6. Reaches(d, transients')
    <2>0. PICK n \in Nat \ {0} : \E path \in [1..n -> DOMAIN Site[a]] : \E k \in 1..n :
            /\ Leads(a, n, path) /\ c.cursor = path[k] /\ Links(c.notes) = NotesUpto(a, path, k - 1)
      BY <1>5 DEF Reaches, Turn
    <2>1. PICK path \in [1..n -> DOMAIN Site[a]], k \in 1..n :
            /\ Leads(a, n, path) /\ c.cursor = path[k] /\ Links(c.notes) = NotesUpto(a, path, k - 1)
      BY <2>0
    <2>2. Links(d.notes) = NotesUpto(a, path, k)
      BY <1>1, <1>2, <2>1, GatheredIs
    <2>3. k # n
      BY <1>2, <2>1 DEF Leads
    <2>4. k \in 1..(n - 1) /\ k + 1 \in 1..n /\ (k + 1) - 1 = k
      BY <2>1, <2>3
    <2>5. d.cursor = path[k + 1]
      BY <1>2, <2>1, <2>4 DEF Leads
    <2>6. a \notin NoHomepage /\ d.tries <= transients'
      BY <1>2, <1>3, <1>5 DEF Reaches, Turn
    <2>7. Accounts[d.account] = a
      BY <1>2 DEF Turn
    <2> HIDE DEF a, d
    <2>8. Links(d.notes) = NotesUpto(a, path, (k + 1) - 1)
      BY <2>2, <2>4
    <2> QED
      BY <2>1, <2>4, <2>5, <2>6, <2>7, <2>8 DEF Reaches
  <1> QED
    BY <1>4, <1>6 DEF CrawlOk

LEMMA FinishesOk ==
  ASSUME TypeInv, BoundsMove, NEW b \in Batch, Crawls(b), Finishes(b),
         CrawlOk(crawl[b], at[b], faults, transients)
  PROVE  CrawlOk(crawl'[b], "account", faults', transients')
  <1> DEFINE c == crawl[b]
             d == crawl'[b]
             a == Turn(b)
             A(n) == {Accounts[i] : i \in 1..n}
  <1>1. c \in Crawl /\ Crawling(b, "page") /\ c.account \in 1..Len(Accounts)
    BY TurnTyped DEF Crawls, Finishes, Crawling
  <1>2. /\ d.rows = Deduped(c.rows, Gathered(b)) /\ d.complete = c.complete \cup {a}
        /\ d.account = c.account + 1 /\ d.notes = <<>> /\ ~Continues(a, c.cursor)
    BY <1>1 DEF Finishes, Crawl
  <1>3. CrawlOk(c, at[b], faults', transients')
    BY <1>1, BoundsAreNat, CrawlOkStays
  <1>4. Reaches(c, transients) /\ Whole(c, faults', transients')
    BY <1>3 DEF CrawlOk, Finishes
  <1>0. PICK n \in Nat \ {0} : \E path \in [1..n -> DOMAIN Site[a]] : \E k \in 1..n :
          /\ Leads(a, n, path) /\ c.cursor = path[k] /\ Links(c.notes) = NotesUpto(a, path, k - 1)
    BY <1>4 DEF Reaches, Turn
  <1>5. PICK path \in [1..n -> DOMAIN Site[a]], k \in 1..n :
          /\ Leads(a, n, path) /\ c.cursor = path[k] /\ Links(c.notes) = NotesUpto(a, path, k - 1)
    BY <1>0
  <1>6. Gathered(b) \in Seq(Post) /\ Links(Gathered(b)) = NotesUpto(a, path, k)
    BY <1>1, <1>5, GatheredIs
  <1>7. k = n
    <2>1. k \in 1..(n - 1) => Continues(a, path[k])
      BY <1>5 DEF Leads
    <2> QED
      BY <1>2, <1>5, <2>1
  <1>8. NotesUpto(a, path, n) \ {Blank} = Posts(a)
    BY <1>5, PathPosts
  <1>9. c.rows \in Seq(Post)
    BY <1>1, CrawlIs
  <1>10. /\ Links(d.rows) = Links(c.rows) \cup (Links(Gathered(b)) \ {Blank})
         /\ Distinct(c.rows) => Distinct(d.rows)
    BY <1>2, <1>6, <1>9, DedupedIs
  <1>11. Links(d.rows) = UNION {Posts(x) : x \in d.complete}
    BY <1>2, <1>4, <1>6, <1>7, <1>8, <1>10 DEF Whole
  <1>12. ASSUME faults' = 0, transients' <= MaxRetries PROVE d.complete = A(d.account - 1) \ NoHomepage
    <2>1. c.complete = A(c.account - 1) \ NoHomepage
      BY <1>4, <1>12 DEF Whole
    <2>2. A(c.account) = A(c.account - 1) \cup {a}
      <3>1. 1..c.account = 1..(c.account - 1) \cup {c.account}
        BY <1>1
      <3> QED
        BY <3>1 DEF Turn
    <2>3. a \notin NoHomepage
      BY <1>4 DEF Reaches, Turn
    <2>4. d.account - 1 = c.account
      BY <1>1, <1>2
    <2> QED
      BY <1>2, <2>1, <2>2, <2>3, <2>4
  <1>13. Whole(d, faults', transients')
    BY <1>4, <1>10, <1>11, <1>12 DEF Whole
  <1> QED
    BY <1>2, <1>13 DEF CrawlOk

LEMMA CrawlNext == TypeInv /\ CrawlInv /\ [Next]_vars => CrawlInv'
  <1> SUFFICES ASSUME TypeInv, CrawlInv, [Next]_vars PROVE CrawlInv'
    OBVIOUS
  <1> DEFINE Places == {"account", "page", "clear", "write"}
             Ok(c) == node[c] = 4 /\ at[c] \in Places => CrawlOk(crawl[c], at[c], faults, transients)
  <1>0. ASSUME NEW c \in Batch, node'[c] = node[c], at'[c] = at[c], crawl'[c] = crawl[c], BoundsMove
        PROVE  node'[c] = 4 /\ at'[c] \in Places => CrawlOk(crawl'[c], at'[c], faults', transients')
    <2>1. crawl[c] \in Crawl
      BY DEF TypeInv, TypeOK
    <2> QED
      BY <1>0, <2>1, BoundsAreNat, CrawlOkStays DEF CrawlInv
  <1>1. ASSUME NEW b \in Batch, RunKind(b) PROVE CrawlInv'
    <2>1. \A c \in Batch : c # b => node'[c] = node[c] /\ at'[c] = at[c] /\ crawl'[c] = crawl[c]
      BY <1>1 DEF RunKind, Moves, TypeInv, TypeOK
    <2>2. SUFFICES ASSUME node'[b] = 4, at'[b] \in Places PROVE CrawlOk(crawl'[b], at'[b], faults', transients')
      BY <1>0, <1>1, <2>1 DEF CrawlInv, RunKind
    <2>3. /\ crawl[b] \in Crawl /\ faults' \in Nat /\ transients' \in Nat
          /\ at[b] \in {"rest", "read"} => crawl[b] = NoCrawl
          /\ BoundsMove
      BY <1>1, BoundsAreNat DEF RunKind, TypeInv, TypeOK, Placed
    <2>4. CASE Crawls(b)
      <3>1. node[b] = 4 /\ (at[b] # "read" => CrawlOk(crawl[b], at[b], faults, transients))
        BY <2>4 DEF Crawls, CrawlInv
      <3>2. CASE Begins(b)
        <4>1. crawl'[b] = NoCrawl /\ at'[b] = "account"
          BY <2>3, <3>2 DEF Begins
        <4> QED
          BY <2>3, <4>1, BeginsOk
      <3>3. CASE LeavesOut(b)
        <4>1. at'[b] = "account"
          BY <3>3 DEF LeavesOut, NextTurn
        <4>2. at[b] # "read"
          BY <3>3 DEF LeavesOut
        <4> QED
          BY <2>3, <2>4, <3>1, <3>3, <4>1, <4>2, LeavesOutOk
      <3>4. CASE Opens(b)
        BY <2>3, <2>4, <3>1, <3>4, OpensOk DEF Opens
      <3>5. CASE Retries(b)
        BY <2>3, <2>4, <3>1, <3>5, RetriesOk DEF Retries
      <3>6. CASE TurnsPage(b)
        BY <2>3, <2>4, <3>1, <3>6, TurnsPageOk DEF TurnsPage
      <3>7. CASE Finishes(b)
        BY <2>3, <2>4, <3>1, <3>7, FinishesOk DEF Finishes
      <3> QED
        BY <2>4, <3>2, <3>3, <3>4, <3>5, <3>6, <3>7 DEF Crawls
    <2>5. CASE Makes(b)
      <3>1. node[b] = 4 /\ UNCHANGED crawl
        BY <2>2, <2>5 DEF Makes
      <3>2. /\ at[b] = "account" /\ crawl[b].account > Len(Accounts)
            /\ at'[b] \in {"clear", "write"}
        BY <2>5, <3>1 DEF Makes, Crawling
      <3>3. CrawlOk(crawl[b], at[b], faults', transients')
        BY <2>3, <3>1, <3>2, BoundsAreNat, CrawlOkStays DEF CrawlInv
      <3> QED
        BY <3>1, <3>2, <3>3 DEF CrawlOk
    <2>6. CASE Clears(b) \/ Writes(b) \/ Loses(b)
      <3>1. /\ node[b] = 4 /\ crawl'[b] = crawl[b] /\ at[b] \in {"clear", "write"} /\ at'[b] \in {"write", "save"}
        BY <2>2, <2>6 DEF Clears, Writes, Loses
      <3>2. CrawlOk(crawl[b], at[b], faults', transients')
        BY <2>3, <3>1, BoundsAreNat, CrawlOkStays DEF CrawlInv
      <3> QED
        BY <2>2, <3>1, <3>2 DEF CrawlOk
    <2>7. CASE \/ Passes(b) \/ ReadsOn(b) \/ Rests(b) \/ Skips(b) \/ Saves(b) \/ Posted(b) \/ Resumes(b)
      <3>1. at'[b] \in {"save", "read", "rest"}
        BY <2>7 DEF Passes, ReadsOn, Rests, Stops, Skips, Saves, Posted, Resumes, Advances
      <3> QED
        BY <2>2, <3>1
    <2> QED
      BY <1>1, <2>4, <2>5, <2>6, <2>7 DEF RunKind, Worker
  <1>2. CASE EditKind
    BY <1>0, <1>2 DEF EditKind, worker, CrawlInv
  <1>3. CASE CrashKind
    BY <1>3 DEF CrashKind, CrawlInv
  <1> QED
    BY <1>1, <1>2, <1>3, NextKinds

LEMMA CrawlInit == Init => CrawlInv
  BY DEF Init, CrawlInv

\* Whatever the accounts, their pages and the posts they share, the table of a run has
\* all posts of the accounts that were fetched to the end and nothing of the others,
\* and no link twice; and without a request that failed for good, of all accounts that
\* have a homepage.
THEOREM BenchmarkIsWholeAlways == Spec => []BenchmarkIsWhole
  <1>1. Init => TypeInv /\ CrawlInv
    BY TypeInit, CrawlInit
  <1>2. TypeInv /\ CrawlInv /\ [Next]_vars => (TypeInv /\ CrawlInv)'
    BY TypeNext, CrawlNext
  <1>3. TypeInv /\ CrawlInv => BenchmarkIsWhole
    <2> SUFFICES ASSUME TypeInv, CrawlInv, NEW b \in Batch, Crawling(b, "write")
                 PROVE  /\ Links(crawl[b].rows) = UNION {Posts(a) : a \in crawl[b].complete}
                        /\ Distinct(crawl[b].rows)
                        /\ faults = 0 /\ transients <= MaxRetries => crawl[b].complete = Account \ NoHomepage
      BY DEF BenchmarkIsWhole, Distinct
    <2>1. CrawlOk(crawl[b], "write", faults, transients)
      BY DEF Crawling, CrawlInv
    <2>2. crawl[b].account = Len(Accounts) + 1
      <3>1. crawl[b].account \in 1..(Len(Accounts) + 1) /\ Len(Accounts) \in Nat
        BY CrawlIs DEF TypeInv, TypeOK
      <3> QED
        BY <2>1, <3>1 DEF CrawlOk
    <2>3. {Accounts[i] : i \in 1..(crawl[b].account - 1)} = Account
      <3>1. crawl[b].account - 1 = Len(Accounts) /\ DOMAIN Accounts = 1..Len(Accounts)
        BY <2>2, CollectionAssumption, CrawlIs
      <3> QED
        BY <3>1 DEF Account, Range
    <2> QED
      BY <2>1, <2>3 DEF CrawlOk, Whole
  <1> QED
    BY <1>1, <1>2, <1>3, PTL DEF Spec

-----------------------------------------------------------------------------
(* A collection leaves one generation of texts.                              *)

\* In D, the text of node n is b's, and from its own texts.
Good(D, b, n) ==
  /\ n # 8 => D[Output[n]] # {}
  /\ \A v \in D[Output[n]] : v.by = b /\ v.own

\* The runs that are spoken of: only they have written, every write of theirs was
\* done, and those that were begun once more have not been resumed.
Sound(b) == status[b] # "absent" /\ b \notin disturbed /\ ~(b \in reposted /\ resumed[b])

\* What is recorded is good; a worker is past all that is recorded unless it skips
\* it; and what it has passed is good.
Recorded(b) ==
  b \notin reposted =>
    /\ \A n \in done[b] \cap TextNode : Good(docs, b, n)
    /\ at[b] # "rest" => node[b] \notin done[b]
    /\ ~resumed[b] /\ at[b] # "rest" => \A n \in done[b] : n < node[b]

Passed(b) ==
  /\ at[b] # "rest" => \A n \in TextNode : n < node[b] => Good(docs, b, n)
  /\ at[b] = "save" /\ node[b] \in TextNode => Good(docs, b, node[b])
  /\ status[b] = "completed" => \A n \in TextNode : Good(docs, b, n)

Holding(b) ==
  /\ at[b] # "rest" => "another's" \notin Range(read[b])
  /\ at[b] \in {"clear", "write"} /\ node[b] \in TextNode =>
       /\ node[b] # 8 => product[b] # {}
       /\ \A v \in product[b] : v.by = b /\ v.own
  /\ at[b] = "write" /\ node[b] \in TextNode /\ Output[node[b]] \in Tables => docs[Output[node[b]]] = {}

Line(b) == Recorded(b) /\ Passed(b) /\ Holding(b)

LineInv == \A b \in Collecting : Sound(b) => Line(b)

LEMMA NodesAre ==
  /\ Collecting \subseteq Batch
  /\ \A b \in Collecting : TextNode \subseteq Chain(b) /\ Chain(b) = 1..8
  /\ TextNode \subseteq Node /\ TextNode \subseteq Writers /\ Node \subseteq Nat
  /\ \A n \in TextNode, m \in Writers : n # m => Output[n] # Output[m]
  /\ \A n \in TextNode : Output[n] \in Dataset /\ Output[n] # "posts" /\ Output[n] # "reports"
  /\ Texts = {Output[n] : n \in TextNode}
  <1>1. Collecting \subseteq Batch
    BY DEF Batch
  <1>2. \A b \in Collecting : TextNode \subseteq Chain(b) /\ Chain(b) = 1..8
    BY DEF Chain, TextNode
  <1>3. TextNode \subseteq Node /\ TextNode \subseteq Writers /\ Node \subseteq Nat
    BY DEF TextNode, Node, Writers
  <1>4. \A n \in TextNode, m \in Writers : n # m => Output[n] # Output[m]
    <2>1. SUFFICES ASSUME NEW n \in TextNode, NEW m \in Writers, n # m PROVE Output[n] # Output[m]
      OBVIOUS
    <2>2. /\ Output[2] = "keywords" /\ Output[3] = "report" /\ Output[4] = "posts" /\ Output[6] = "plan"
          /\ Output[7] = "matrix" /\ Output[8] = "topics" /\ Output[9] = "reports"
      BY DEF Output
    <2> QED
      BY <2>1, <2>2 DEF TextNode, Writers
  <1>5. \A n \in TextNode : Output[n] \in Dataset /\ Output[n] # "posts" /\ Output[n] # "reports"
    BY DEF TextNode, Output, Dataset, Tables, Docs
  <1>6. Texts = {Output[n] : n \in TextNode}
    <2>1. /\ Output[2] = "keywords" /\ Output[3] = "report" /\ Output[6] = "plan"
          /\ Output[7] = "matrix" /\ Output[8] = "topics"
      BY DEF Output
    <2> QED
      BY <2>1 DEF Texts, TextNode
  <1> QED
    BY <1>1, <1>2, <1>3, <1>4, <1>5, <1>6

\* Where a run goes on, or completes.
LEMMA AdvancesLine ==
  ASSUME TypeInv, NEW b \in Collecting, NEW open, open \subseteq Chain(b), Advances(b, open), docs' = docs,
         \A n \in TextNode : (\A m \in open : n < m) => Good(docs, b, n),
         b \notin reposted' =>
           /\ \A n \in done'[b] \cap TextNode : Good(docs, b, n)
           /\ done'[b] \cap open = {}
           /\ ~resumed'[b] => \A n \in done'[b], m \in open : n < m
  PROVE  Line(b)'
  <1>1. /\ read'[b] = <<>> /\ product'[b] = {} /\ at'[b] \in {"rest", "read"}
        /\ status'[b] = "completed" => open = {}
        /\ at'[b] # "rest" => node'[b] \in open /\ \A m \in open : node'[b] <= m
    BY DEF Advances
  <1>2. Recorded(b)'
    BY <1>1 DEF Recorded
  <1>3. ASSUME at'[b] # "rest", NEW n \in TextNode, n < node'[b] PROVE Good(docs, b, n)
    <2>1. ASSUME NEW m \in open PROVE n < m
      <3>1. n \in Nat /\ m \in Nat /\ node'[b] \in Nat
        BY <1>1, <1>3, <2>1, NodesAre, ChainIs
      <3> QED
        BY <1>1, <1>3, <2>1, <3>1
    <2> QED
      BY <2>1
  <1>4. Passed(b)'
    BY <1>1, <1>3 DEF Passed
  <1>5. Range(<<>>) = {}
    BY DEF Range
  <1>6. Holding(b)'
    BY <1>1, <1>5 DEF Holding
  <1> QED
    BY <1>2, <1>4, <1>6 DEF Line

\* The node a run leaves is good, if it is one of a text: what it goes on with follows.
LEMMA GoesOn ==
  ASSUME TypeInv, NEW b \in Collecting, Sound(b), Line(b), at[b] # "rest",
         node[b] \in TextNode => Good(docs, b, node[b]),
         done'[b] \in {done[b], done[b] \cup {node[b]}}, resumed'[b] = resumed[b],
         docs' = docs, reposted' = reposted,
         Advances(b, IF resumed[b] THEN Later(b) \ done'[b] ELSE Later(b))
  PROVE  Line(b)'
  <1> DEFINE open == IF resumed[b] THEN Later(b) \ done'[b] ELSE Later(b)
  <1>1. /\ b \in Batch /\ resumed[b] \in BOOLEAN /\ node[b] \in Nat /\ done[b] \subseteq Chain(b)
        /\ Later(b) \subseteq Chain(b) /\ open \subseteq Later(b)
        /\ \A m \in Later(b) : node[b] < m /\ m \in Nat
        /\ \A n \in TextNode : n \in Chain(b) /\ n \in Nat
    <2>1. b \in Batch /\ \A n \in TextNode : n \in Chain(b) /\ n \in Nat
      BY NodesAre
    <2>2. node[b] \in Nat /\ resumed[b] \in BOOLEAN /\ done[b] \subseteq Chain(b)
      BY <2>1, NodesAre DEF TypeInv, TypeOK, Placed
    <2>3. \A m \in Later(b) : node[b] < m /\ m \in Nat /\ m \in Chain(b)
      BY <2>1, ChainIs DEF Later
    <2> QED
      BY <2>1, <2>2, <2>3
  <1>2. /\ \A n \in TextNode : n < node[b] => Good(docs, b, n)
        /\ b \notin reposted =>
             /\ \A n \in done[b] \cap TextNode : Good(docs, b, n)
             /\ ~resumed[b] => \A n \in done[b] : n < node[b]
    BY DEF Line, Passed, Recorded
  <1>3. b \notin reposted => \A n \in done'[b] \cap TextNode : Good(docs, b, n)
    BY <1>2
  <1>4. ASSUME NEW n \in TextNode, \A m \in open : n < m PROVE Good(docs, b, n)
    <2>1. CASE n < node[b]
      BY <1>2, <2>1
    <2>2. CASE n = node[b]
      BY <2>2
    <2>3. CASE n > node[b]
      <3>1. n \in Later(b)
        BY <1>1, <2>3 DEF Later
      <3>2. n \notin open
        BY <1>1, <1>4
      <3>3. resumed[b] /\ n \in done'[b]
        BY <3>1, <3>2
      <3> QED
        BY <1>3, <3>3 DEF Sound
    <2> QED
      BY <1>1, <2>1, <2>2, <2>3
  <1>5. b \notin reposted' => done'[b] \cap open = {} /\ (~resumed'[b] => \A n \in done'[b], m \in open : n < m)
    <2>1. SUFFICES ASSUME b \notin reposted
                   PROVE  done'[b] \cap open = {} /\ (~resumed'[b] => \A n \in done'[b], m \in open : n < m)
      OBVIOUS
    <2>2. CASE resumed[b]
      BY <2>2
    <2>3. CASE ~resumed[b]
      <3>1. \A n \in done'[b] : n <= node[b] /\ n \in Nat
        BY <1>1, <1>2, <2>1, <2>3, ChainIs
      <3>2. \A n \in done'[b], m \in open : n < m
        BY <1>1, <3>1
      <3>3. done'[b] \cap open = {}
        BY <1>1, <3>1
      <3> QED
        BY <3>2, <3>3
    <2> QED
      BY <1>1, <2>2, <2>3
  <1>6. Advances(b, open) /\ open \subseteq Chain(b)
    BY <1>1
  <1> HIDE DEF open
  <1> QED
    BY <1>3, <1>4, <1>5, <1>6, AdvancesLine

\* A run that begins at its first node, or at the first that is not recorded.
LEMMA PostedLine ==
  ASSUME TypeInv, NEW b \in Collecting, Posted(b) \/ Resumes(b), Sound(b)', Sound(b) => Line(b)
  PROVE  Line(b)'
  <1> DEFINE open == IF resumed'[b] THEN Chain(b) \ done[b] ELSE Chain(b)
  <1>0. /\ b \in Batch /\ resumed[b] \in BOOLEAN /\ Placed(b) /\ resumed'[b] \in BOOLEAN
        /\ \A n \in TextNode : n \in Chain(b) /\ n \in Nat
    BY NodesAre DEF TypeInv, TypeOK, Posted, Resumes
  <1>1. /\ docs' = docs /\ done'[b] = done[b] /\ Advances(b, open) /\ UNCHANGED disturbed
        /\ open \subseteq Chain(b) /\ (resumed[b] => resumed'[b]) /\ reposted \subseteq reposted'
        /\ ~resumed'[b] => (status[b] = "absent" \/ b \in reposted')
    <2>1. CASE Posted(b)
      BY <1>0, <2>1 DEF Posted
    <2>2. CASE Resumes(b)
      BY <1>0, <2>2 DEF Resumes, Outside
    <2> QED
      BY <2>1, <2>2
  <1>2. status[b] = "absent" => done[b] = {} /\ ~resumed[b]
    BY <1>0 DEF Placed
  <1>3. ASSUME status[b] # "absent", b \notin reposted' PROVE \A n \in done[b] \cap TextNode : Good(docs, b, n)
    <2>1. Sound(b) /\ b \notin reposted
      BY <1>1, <1>3 DEF Sound
    <2> QED
      BY <2>1 DEF Line, Recorded
  <1>4. b \notin reposted' => \A n \in done'[b] \cap TextNode : Good(docs, b, n)
    BY <1>1, <1>2, <1>3
  <1>5. ASSUME NEW n \in TextNode, \A m \in open : n < m PROVE Good(docs, b, n)
    <2>1. n \notin open
      BY <1>0, <1>5
    <2>2. resumed'[b] /\ n \in done'[b]
      BY <1>0, <1>1, <2>1
    <2> QED
      BY <1>4, <2>2 DEF Sound
  <1>6. b \notin reposted' => done'[b] \cap open = {} /\ (~resumed'[b] => \A n \in done'[b], m \in open : n < m)
    <2>1. CASE resumed'[b]
      BY <1>1, <2>1
    <2>2. CASE ~resumed'[b]
      BY <1>1, <1>2, <2>2
    <2> QED
      BY <1>0, <2>1, <2>2
  <1> HIDE DEF open
  <1> QED
    BY <1>1, <1>4, <1>5, <1>6, AdvancesLine

\* What a run reads is its own.
LEMMA ReadsOnLine ==
  ASSUME TypeInv, NEW b \in Collecting, ReadsOn(b), Line(b)
  PROVE  Line(b)'
  <1>1. /\ at[b] = "read" /\ UNCHANGED <<docs, reposted, status, done, resumed, node, at, product>>
        /\ read[b] \in Seq(Reading)
    BY NodesAre DEF ReadsOn, Outside, record, TypeInv, TypeOK
  <1>2. PICK r \in Reading :
          /\ read'[b] = Append(read[b], r)
          /\ r = "another's" => \E m \in TextNode : m < node[b] /\ r = Reads(b, Output[m])
    BY DEF ReadsOn
  <1>3. r # "another's"
    <2>1. SUFFICES ASSUME NEW m \in TextNode, m < node[b], "another's" = Reads(b, Output[m]) PROVE FALSE
      BY <1>2
    <2>2. Good(docs, b, m)
      BY <1>1, <2>1 DEF Line, Passed
    <2> QED
      BY <2>1, <2>2 DEF Good, Reads
  <1>4. "another's" \notin Range(read'[b])
    <2>1. "another's" \notin Range(read[b])
      BY <1>1 DEF Line, Holding
    <2> DEFINE s == read[b]
               t == read'[b]
    <2>2. /\ DOMAIN t = 1..(Len(s) + 1) /\ t[Len(s) + 1] = r /\ Len(s) \in Nat /\ DOMAIN s = 1..Len(s)
          /\ \A i \in 1..Len(s) : t[i] = s[i]
      BY <1>1, <1>2
    <2> HIDE DEF s, t
    <2>3. \A i \in DOMAIN t : i \in DOMAIN s \/ i = Len(s) + 1
      BY <2>2
    <2>4. Range(t) \subseteq Range(s) \cup {r}
      BY <2>2, <2>3 DEF Range
    <2> QED
      BY <1>3, <2>1, <2>4 DEF s, t
  <1>5. Recorded(b)' /\ Passed(b)'
    BY <1>1 DEF Line, Recorded, Passed
  <1>6. Holding(b)'
    BY <1>1, <1>4 DEF Holding
  <1> QED
    BY <1>5, <1>6 DEF Line

LEMMA MakesLine ==
  ASSUME TypeInv, NEW b \in Collecting, Makes(b), Line(b)
  PROVE  Line(b)'
  <1>1. /\ at[b] \in {"read", "account"} /\ at'[b] = (IF Output[node[b]] \in Tables THEN "clear" ELSE "write")
        /\ UNCHANGED <<docs, reposted, status, done, resumed, node, read>>
    BY DEF Makes, Crawling, Outside, record
  <1>2. Recorded(b)' /\ Passed(b)'
    BY <1>1 DEF Line, Recorded, Passed
  <1>3. "another's" \notin Range(read[b])
    BY <1>1 DEF Line, Holding
  <1>4. Generated(b, TRUE).by = b /\ Generated(b, TRUE).own
    BY <1>3, GeneratedIsVersion, NodesAre
  <1>5. node[b] \in TextNode => (node[b] # 8 => product'[b] # {}) /\ \A v \in product'[b] : v.by = b /\ v.own
    <2>1. SUFFICES ASSUME node[b] \in TextNode
                   PROVE  (node[b] # 8 => product'[b] # {}) /\ \A v \in product'[b] : v.by = b /\ v.own
      OBVIOUS
    <2>2. node[b] # 4
      BY <2>1 DEF TextNode
    <2>3. CASE product'[b] = {Generated(b, TRUE)}
      BY <1>4, <2>3
    <2>4. CASE node[b] = 8 /\ product'[b] = {}
      BY <2>4
    <2> QED
      BY <2>2, <2>3, <2>4 DEF Makes, Crawling
  <1>6. Holding(b)'
    BY <1>1, <1>3, <1>5 DEF Holding
  <1> QED
    BY <1>2, <1>6 DEF Line

\* The statements change only what the node of the run writes.
LEMMA StatementsLine ==
  ASSUME TypeInv, NEW b \in Collecting, Clears(b) \/ Writes(b), Sound(b), Line(b)
  PROVE  Line(b)'
  <1> DEFINE d == Output[node[b]]
  <1>1. /\ at[b] \in {"clear", "write"} /\ UNCHANGED <<reposted, status, done, resumed, node, read, product>>
        /\ node[b] \in Writers /\ node[b] \in Nat /\ b \in Batch /\ status[b] = "running"
        /\ docs \in [Dataset -> SUBSET Version]
    BY NodesAre DEF Clears, Writes, record, TypeInv, TypeOK, Placed
  <1>2. \A x \in Dataset : x # d => docs'[x] = docs[x]
    BY <1>1, OutputIs DEF Clears, Writes
  <1>3. ASSUME NEW n \in TextNode, n # node[b], Good(docs, b, n) PROVE Good(docs', b, n)
    <2>1. Output[n] \in Dataset /\ Output[n] # d
      BY <1>1, <1>3, NodesAre
    <2> QED
      BY <1>2, <1>3, <2>1 DEF Good
  <1>4. Recorded(b)'
    <2>1. at'[b] # "rest"
      BY DEF Clears, Writes
    <2>2. ASSUME b \notin reposted, NEW n \in done[b] \cap TextNode PROVE Good(docs', b, n)
      BY <1>1, <1>3, <2>2 DEF Line, Recorded
    <2> QED
      BY <1>1, <2>1, <2>2 DEF Line, Recorded
  <1>5. ASSUME NEW n \in TextNode, n < node[b] PROVE Good(docs', b, n)
    <2>1. n # node[b] /\ Good(docs, b, n)
      BY <1>1, <1>5, NodesAre DEF Line, Passed
    <2> QED
      BY <1>3, <2>1
  <1>6. CASE Clears(b)
    <2>1. at'[b] = "write" /\ docs'[d] = {}
      BY <1>1, <1>6, OutputIs DEF Clears
    <2>2. Passed(b)'
      BY <1>1, <1>5, <2>1 DEF Passed
    <2>3. Holding(b)'
      BY <1>1, <2>1 DEF Line, Holding
    <2> QED
      BY <1>4, <2>2, <2>3 DEF Line
  <1>7. CASE Writes(b)
    <2>1. at[b] = "write" /\ at'[b] = "save"
      BY <1>7 DEF Writes
    <2>2. ASSUME node[b] \in TextNode PROVE Good(docs', b, node[b])
      <3>1. d \in Dataset /\ (d \in Tables \/ d \in Docs)
        BY <2>2, OutputIs, NodesAre DEF TextNode
      <3>2. docs'[d] = product[b] \cup (IF d \in Docs THEN {} ELSE docs[d])
        BY <1>1, <1>7, <3>1 DEF Writes
      <3>3. d \in Tables => docs[d] = {}
        BY <2>1, <2>2 DEF Line, Holding
      <3>4. docs'[d] = product[b]
        BY <3>1, <3>2, <3>3
      <3> QED
        BY <2>1, <2>2, <3>4 DEF Line, Holding, Good
    <2>3. Passed(b)'
      BY <1>1, <1>5, <2>1, <2>2 DEF Passed
    <2>4. Holding(b)'
      BY <1>1, <2>1 DEF Line, Holding
    <2> QED
      BY <1>4, <2>3, <2>4 DEF Line
  <1> QED
    BY <1>6, <1>7

LEMMA OwnLine ==
  ASSUME TypeInv, NEW b \in Collecting, Worker(b), Sound(b)', Sound(b) => Line(b)
  PROVE  Line(b)'
  <1>0. b \in Batch /\ Placed(b) /\ (at[b] # "rest" => status[b] = "running")
    BY NodesAre DEF TypeInv, TypeOK
  <1>1. CASE Posted(b) \/ Resumes(b)
    BY <1>1, PostedLine
  <1>2. CASE Loses(b)
    BY <1>2 DEF Loses, Sound
  <1>3. CASE ~(Posted(b) \/ Resumes(b) \/ Loses(b))
    <2>1. /\ at[b] # "rest" /\ resumed'[b] = resumed[b]
          /\ Passes(b) \/ ReadsOn(b) \/ Makes(b) \/ Rests(b) \/ Skips(b) \/ Crawls(b)
             \/ Clears(b) \/ Writes(b) \/ Saves(b)
      BY <1>3 DEF Worker, Passes, ReadsOn, Makes, Crawling, Rests, Stops, Skips, Crawls, Clears, Writes,
                  Saves, record
    <2>2. disturbed \subseteq disturbed' /\ reposted \subseteq reposted'
      BY <1>0, WorkerData
    <2>3. Sound(b) /\ Line(b)
      BY <1>0, <2>1, <2>2 DEF Sound
    <2>4. CASE Passes(b)
      <3>1. /\ at[b] = "read" /\ at'[b] = "save" /\ node[b] \notin TextNode
            /\ UNCHANGED <<docs, reposted, status, done, resumed, node, read, product>>
        BY <2>4 DEF Passes, TextNode, Outside, record
      <3> QED
        BY <2>3, <3>1 DEF Line, Recorded, Passed, Holding
    <2>5. CASE Rests(b)
      <3>1. /\ at'[b] = "rest" /\ status'[b] # "completed"
            /\ UNCHANGED <<docs, reposted>> /\ done'[b] = done[b]
        BY <2>5 DEF Rests, Stops, Outside
      <3> QED
        BY <2>3, <3>1 DEF Line, Recorded, Passed, Holding
    <2>6. CASE Skips(b)
      <3>1. /\ node[b] \notin TextNode /\ done'[b] = done[b] /\ docs' = docs /\ reposted' = reposted
            /\ Advances(b, IF resumed[b] THEN Later(b) \ done'[b] ELSE Later(b))
        BY <2>6 DEF Skips, TextNode, Outside
      <3> QED
        BY <2>1, <2>3, <3>1, GoesOn
    <2>7. CASE Saves(b)
      <3>1. /\ at[b] = "save" /\ done'[b] = done[b] \cup {node[b]} /\ docs' = docs /\ reposted' = reposted
            /\ Advances(b, IF resumed[b] THEN Later(b) \ done'[b] ELSE Later(b))
        BY <2>7 DEF Saves, Outside
      <3>2. node[b] \in TextNode => Good(docs, b, node[b])
        BY <2>3, <3>1 DEF Line, Passed
      <3> QED
        BY <2>1, <2>3, <3>1, <3>2, GoesOn
    <2>8. CASE Crawls(b)
      <3>1. /\ at[b] # "rest" /\ at'[b] \in {"account", "page"} /\ node[b] \notin TextNode
            /\ UNCHANGED <<docs, reposted, status, done, resumed, node, read, product>>
        BY <2>8 DEF Crawls, TextNode, record
      <3> QED
        BY <2>3, <3>1 DEF Line, Recorded, Passed, Holding
    <2> QED
      BY <2>1, <2>3, <2>4, <2>5, <2>6, <2>7, <2>8, ReadsOnLine, MakesLine, StatementsLine
  <1> QED
    BY <1>1, <1>2, <1>3

\* Where nothing of b is changed and no dataset.
LEMMA LineStays ==
  ASSUME NEW b \in Collecting, Line(b), docs' = docs, status'[b] = status[b], done'[b] = done[b],
         resumed'[b] = resumed[b], node'[b] = node[b], b \in reposted' <=> b \in reposted,
         \/ at'[b] = "rest"
         \/ at'[b] = at[b] /\ read'[b] = read[b] /\ product'[b] = product[b]
  PROVE  Line(b)'
  BY DEF Line, Recorded, Passed, Holding

LEMMA LineNext == TypeInv /\ LineInv /\ [Next]_vars => LineInv'
  <1> SUFFICES ASSUME TypeInv, LineInv, [Next]_vars, NEW c \in Collecting, Sound(c)' PROVE Line(c)'
    BY DEF LineInv
  <1>0. c \in Batch
    BY NodesAre
  <1>1. ASSUME NEW b \in Batch, RunKind(b) PROVE Line(c)'
    <2>1. CASE c = b
      BY <1>1, <2>1, OwnLine DEF RunKind, LineInv
    <2>2. CASE c # b
      <3>1. /\ status'[c] = status[c] /\ done'[c] = done[c] /\ resumed'[c] = resumed[c] /\ node'[c] = node[c]
            /\ at'[c] = at[c] /\ read'[c] = read[c] /\ product'[c] = product[c]
        BY <1>0, <1>1, <2>2 DEF RunKind, Moves, TypeInv, TypeOK
      <3>2. disturbed \subseteq disturbed' /\ reposted \subseteq reposted' /\ reposted' \subseteq reposted \cup {b}
        BY <1>1, WorkerData DEF RunKind
      <3>3. Sound(c) /\ Line(c)
        BY <3>1, <3>2 DEF Sound, LineInv
      <3>4. docs' = docs
        <4>1. c \in Begun \ {b}
          BY <1>0, <2>2, <3>3 DEF Begun, Sound
        <4>2. ~Clears(b) /\ ~Writes(b)
          BY <4>1 DEF Clears, Writes, Sound
        <4> QED
          BY <1>1, <4>2 DEF RunKind, Worker, Passes, ReadsOn, Makes, Rests, Skips, Crawls, Loses, Saves, Posted,
                            Resumes, Outside
      <3> QED
        BY <2>2, <3>1, <3>2, <3>3, <3>4, LineStays
    <2> QED
      BY <2>1, <2>2
  <1>2. CASE EditKind
    <2>1. UNCHANGED <<reposted, status, done, resumed, node, at, read, product>>
      BY <1>2 DEF EditKind, worker
    <2>2. UNCHANGED <<docs, disturbed>>
      <3>1. ~Edits
        BY <1>0, <2>1 DEF Edits, Begun, Sound
      <3> QED
        BY <1>2, <3>1 DEF EditKind
    <2>3. Sound(c) /\ Line(c)
      BY <2>1, <2>2 DEF Sound, LineInv
    <2> QED
      BY <2>1, <2>2, <2>3, LineStays
  <1>3. CASE CrashKind
    <2>1. UNCHANGED <<docs, reposted, status, done, resumed, node, disturbed>> /\ at'[c] = "rest"
      BY <1>0, <1>3 DEF CrashKind
    <2>2. Sound(c) /\ Line(c)
      BY <2>1 DEF Sound, LineInv
    <2> QED
      BY <2>1, <2>2, LineStays
  <1> QED
    BY <1>1, <1>2, <1>3, NextKinds

LEMMA LineInit == Init => LineInv
  BY NodesAre DEF Init, LineInv, Sound

\* A collection that completes leaves texts that are all its own and were generated from
\* its own, for any number of collections and reports, failures, crashes, resumes and
\* edits, as long as nobody else has written since it began and no write was lost: the
\* nodes it skips are those whose output it wrote itself.
THEOREM OneLineageAlways == Spec => []OneLineage
  <1>1. Init => TypeInv /\ LineInv
    BY TypeInit, LineInit
  <1>2. TypeInv /\ LineInv /\ [Next]_vars => (TypeInv /\ LineInv)'
    BY TypeNext, LineNext
  <1>3. LineInv => OneLineage
    <2> SUFFICES ASSUME LineInv, NEW b \in Collecting, status[b] = "completed", b \notin disturbed,
                        ~(b \in reposted /\ resumed[b])
                 PROVE  /\ \A d \in Texts : d # "topics" => docs[d] # {}
                        /\ \A d \in Texts : \A v \in docs[d] : v.by = b /\ v.own
      BY DEF OneLineage
    <2>1. \A n \in TextNode : Good(docs, b, n)
      BY DEF LineInv, Sound, Line, Passed
    <2>2. Output[8] = "topics"
      BY DEF Output
    <2>3. \A d \in Texts : \E n \in TextNode : d = Output[n]
      BY NodesAre
    <2> QED
      BY <2>1, <2>2, <2>3 DEF Good
  <1> QED
    BY <1>1, <1>2, <1>3, PTL DEF Spec

=============================================================================
