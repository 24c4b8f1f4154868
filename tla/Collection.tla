----------------------------- MODULE Collection -----------------------------
(***************************************************************************)
(* What the runs of a tenant's collection and daily-report flows do to its *)
(* datasets: the bodies of the nodes in flow/content_collect/nodes.py and  *)
(* flow/daily_report/nodes.py, with the model calls (core/ai.py), the      *)
(* requests to TikHub (flow/content_create/utils.py,                       *)
(* integrations/hotspots.py) and the billing they make.                    *)
(*                                                                         *)
(* A run is named by its batch id and has a worker; workers and clients    *)
(* interleave between any two statements and remote calls.  WorkflowRun    *)
(* has how a run is recorded and resumed; here a run that blocks or fails  *)
(* rests at once (its later nodes only pass), and done[b] is what state.json*)
(* says was completed.                                                     *)
(*                                                                         *)
(* A dataset is the set of what its writers put there: a replaced table is *)
(* cleared by one transaction and filled by another (DatasetStore), so two *)
(* runs at once may both leave their rows.  What a text says is abstracted *)
(* to who wrote it and from whose texts it was generated.  The table of    *)
(* hotspots, which is merged, is left to DatasetStore.                     *)
(*                                                                         *)
(* Bounds: MaxFaults, MaxTransients, MaxCrashes, MaxEdits.                 *)
(***************************************************************************)
EXTENDS Naturals, Sequences, SequencesExt

CONSTANTS
  Collecting,    \* batch ids of collections
  Reporting,     \* batch ids of daily reports
  User,
  Accounts,      \* the benchmark accounts, in the order of their table
  NoHomepage,    \* those without a link
  Site,          \* Site[a][c]: TikHub's answer for account a and cursor c
  Start,         \* the empty cursor
  Plain,         \* a note with a title, but without a link
  Blank,         \* a note without link, title and content
  MaxRetries,    \* retries of a TikHub request (2)
  MaxFaults,
  MaxTransients,
  MaxCrashes,
  MaxEdits

Batch == Collecting \cup Reporting
Writer == Batch \cup {User}
Account == Range(Accounts)
Cursor == {Start} \cup UNION {DOMAIN Site[a] : a \in Account}
Note == UNION {UNION {Range(Site[a][c].notes) : c \in DOMAIN Site[a]} : a \in Account}

\* The nodes of content-collect, and the one of daily-report.
Chain(b) == IF b \in Collecting THEN 1..8 ELSE {9}
Node == 1..9

\* What a node writes; "reports" is only appended to.
Output == << "none", "keywords", "report", "posts", "none", "plan", "matrix", "topics", "reports" >>

Tables == {"keywords", "posts", "topics"}
Docs == {"report", "plan", "matrix"}
Dataset == Tables \cup Docs \cup {"reports"}

Post == [note : Note, account : Account, cursor : Cursor]

\* by wrote it; own: from texts of its own run; paid: its model call is in the
\* ledger; posts: its rows.
Version == [by : Writer, own : BOOLEAN, paid : BOOLEAN, posts : Seq(Post)]

Reading == {"nothing", "own", "another's"}

ASSUME CollectionAssumption ==
  /\ Collecting \cap Reporting = {} /\ User \notin Batch
  /\ Accounts \in Seq(Account)
  /\ \A a \in Account : /\ Start \in DOMAIN Site[a]
                        /\ \A c \in DOMAIN Site[a] :
                             /\ Site[a][c].notes \in Seq(Note)
                             /\ Site[a][c].more \in BOOLEAN
                             /\ Site[a][c].next \in DOMAIN Site[a]
  /\ MaxRetries \in Nat /\ MaxFaults \in Nat /\ MaxTransients \in Nat
  /\ MaxCrashes \in Nat /\ MaxEdits \in Nat

VARIABLES
  docs,       \* docs[d]: the versions in dataset d
  ready,      \* are the client's own tables filled in?
  billed,     \* the pages in the ledger
  status,     \* status[b]: of the run
  done,       \* done[b]: its completed_nodes
  resumed,    \* resumed[b]: is its resume_count above 0?
  node, at,   \* node[b], at[b]: where its worker is
  read,       \* read[b]: whose texts the inputs are it has read
  crawl,      \* crawl[b]: what it has of the accounts' posts
  product,    \* product[b]: what it is about to write
  disturbed,  \* history: runs since whose start somebody else has written, or
              \* of which a write was lost silently
  reposted,   \* history: runs that were begun once more from their first node
  faults, transients, crashes, edits

worker == <<node, at, read, crawl, product>>
record == <<status, done, resumed>>
bounds == <<faults, transients, crashes, edits>>
vars   == <<docs, ready, billed, record, worker, disturbed, reposted, bounds>>

At == {"rest", "read", "account", "page", "clear", "write", "save"}

Crawl ==
  [account  : 1..(Len(Accounts) + 1),
   cursor   : Cursor,
   tries    : 0..MaxRetries,
   notes    : Seq(Post),      \* of this account, so far
   rows     : Seq(Post),      \* of the accounts before
   complete : SUBSET Account]

NoCrawl == [account |-> 1, cursor |-> Start, tries |-> 0, notes |-> <<>>, rows |-> <<>>, complete |-> {}]

TypeOK ==
  /\ docs \in [Dataset -> SUBSET Version]
  /\ ready \in BOOLEAN
  /\ billed \subseteq Batch \X Account \X Cursor
  /\ status \in [Batch -> {"absent", "running", "completed", "blocked", "failed"}]
  /\ done \in [Batch -> SUBSET Node]
  /\ resumed \in [Batch -> BOOLEAN]
  /\ node \in [Batch -> Node]
  /\ at \in [Batch -> At]
  /\ read \in [Batch -> Seq(Reading)]
  /\ crawl \in [Batch -> Crawl]
  /\ product \in [Batch -> SUBSET Version]
  /\ disturbed \subseteq Batch
  /\ reposted \subseteq Batch
  /\ faults \in 0..MaxFaults
  /\ transients \in 0..MaxTransients
  /\ crashes \in 0..MaxCrashes
  /\ edits \in 0..MaxEdits
  /\ \A b \in Batch : at[b] # "rest" => status[b] = "running" /\ node[b] \in Chain(b)

First(b) == IF b \in Collecting THEN 1 ELSE 9

Init ==
  /\ docs = [d \in Dataset |-> {}]
  /\ ready = TRUE
  /\ billed = {}
  /\ status = [b \in Batch |-> "absent"]
  /\ done = [b \in Batch |-> {}]
  /\ resumed = [b \in Batch |-> FALSE]
  /\ node = [b \in Batch |-> First(b)]
  /\ at = [b \in Batch |-> "rest"]
  /\ read = [b \in Batch |-> <<>>]
  /\ crawl = [b \in Batch |-> NoCrawl]
  /\ product = [b \in Batch |-> {}]
  /\ disturbed = {}
  /\ reposted = {}
  /\ faults = 0 /\ transients = 0 /\ crashes = 0 /\ edits = 0

-----------------------------------------------------------------------------
(* A run, its nodes and their ends.                                        *)

Goto(b, label) == at' = [at EXCEPT ![b] = label]

Forget(b) ==
  /\ read' = [read EXCEPT ![b] = <<>>]
  /\ crawl' = [crawl EXCEPT ![b] = NoCrawl]
  /\ product' = [product EXCEPT ![b] = {}]

\* It goes on at the first of the nodes ns that is not skipped, or is completed.
\* (status, node, at)
Proceed(b, ns, D, again) ==
  LET open == IF again THEN ns \ D ELSE ns
  IN  /\ IF open = {}
           THEN /\ Goto(b, "rest") /\ UNCHANGED node
                /\ status' = [status EXCEPT ![b] = "completed"]
           ELSE /\ Goto(b, "read")
                /\ node' = [node EXCEPT ![b] = CHOOSE n \in open : \A m \in open : n <= m]
                /\ status' = [status EXCEPT ![b] = "running"]
      /\ Forget(b)

Later(b) == {n \in Chain(b) : n > node[b]}

\* The run rests.
Ends(b, how) ==
  /\ Goto(b, "rest") /\ UNCHANGED node
  /\ status' = [status EXCEPT ![b] = how]
  /\ Forget(b)
  /\ UNCHANGED <<done, resumed>>

Block(b) == Ends(b, "blocked")
Fail(b) == Ends(b, "failed")

\* Such a node is not recorded, so a resume runs it again.
SoftFail(b) ==
  /\ Proceed(b, Later(b), done[b], resumed[b])
  /\ UNCHANGED <<done, resumed>>

Fault == faults < MaxFaults /\ faults' = faults + 1 /\ UNCHANGED <<transients, crashes, edits>>

\* A batch id is posted, or posted again after a crash.
PostRun(b) ==
  /\ at[b] = "rest" /\ status[b] \in {"absent", "running"}
  /\ Proceed(b, Chain(b), done[b], resumed[b])
  /\ reposted' = IF status[b] = "running" /\ ~resumed[b] THEN reposted \cup {b} ELSE reposted
  /\ UNCHANGED <<docs, ready, billed, done, resumed, disturbed, bounds>>

ResumeRun(b) ==
  /\ at[b] = "rest" /\ status[b] \in {"blocked", "failed"}
  /\ resumed' = [resumed EXCEPT ![b] = TRUE]
  /\ Proceed(b, Chain(b), done[b], TRUE)
  /\ UNCHANGED <<docs, ready, billed, done, disturbed, reposted, bounds>>

\* persist_step_output, and the node is recorded as completed.
SaveNode(b) ==
  /\ at[b] = "save"
  /\ done' = [done EXCEPT ![b] = @ \cup {node[b]}]
  /\ Proceed(b, Later(b), done'[b], resumed[b])
  /\ UNCHANGED <<docs, ready, billed, resumed, disturbed, reposted, bounds>>

-----------------------------------------------------------------------------
(* Nodes that ask a language model.                                        *)

\* The posts are nobody's text.
Reads(b, d) ==
  IF docs[d] = {} THEN "nothing"
  ELSE IF d = "posts" \/ \A v \in docs[d] : v.by = b THEN "own" ELSE "another's"

\* One input after the other, each in a transaction of its own; one whose
\* connection is cut reads as empty.
ReadInput(b, inputs) ==
  LET i == Len(read[b]) + 1
  IN  /\ i <= Len(inputs)
      /\ \/ /\ read' = [read EXCEPT ![b] = Append(@, Reads(b, inputs[i]))]
            /\ UNCHANGED bounds
         \/ /\ Fault
            /\ read' = [read EXCEPT ![b] = Append(@, "nothing")]
      /\ UNCHANGED <<record, node, at, crawl, product>>

Needed(b, inputs, needs) ==
  \A i \in DOMAIN inputs : inputs[i] \in needs => read[b][i] # "nothing"

\* To the statements that store what the node has made.
Store(b, versions) ==
  /\ product' = [product EXCEPT ![b] = versions]
  /\ Goto(b, IF Output[node[b]] \in Tables THEN "clear" ELSE "write")
  /\ UNCHANGED <<record, node, read, crawl>>

Generated(b, paid) == [by |-> b, own |-> "another's" \notin Range(read[b]), paid |-> paid, posts |-> <<>>]

\* (A mutant: a charge that fails is ignored.)
MutantUnbilled(b) ==
  \/ Store(b, {Generated(b, TRUE)}) /\ UNCHANGED bounds
  \/ Fault /\ Store(b, {Generated(b, FALSE)})

\* The model answers, the call is charged, and only then the answer is looked
\* at.  The request, the charge, and an answer that is empty may raise.
TextAnswer(b) ==
  \/ Store(b, {Generated(b, TRUE)}) /\ UNCHANGED bounds
  \/ Fault /\ Fail(b)

\* So may the parser of JSON, and the check that it is an object.
JsonAnswer(b) == TextAnswer(b)

\* An object without topics is a table without rows.
TopicsAnswer(b) ==
  \/ JsonAnswer(b)
  \/ Store(b, {}) /\ UNCHANGED bounds

\* A report that lacks a field blocks the run.
ReportAnswer(b) ==
  \/ JsonAnswer(b)
  \/ Fault /\ Block(b)

\* What such a node does before it stores; a read may raise.
Generation(b, n, inputs, needs, Answer(_)) ==
  /\ node[b] = n /\ at[b] = "read"
  /\ \/ ReadInput(b, inputs)
     \/ Fault /\ Fail(b)
     \/ /\ Len(read[b]) = Len(inputs) /\ ~Needed(b, inputs, needs)
        /\ Block(b) /\ UNCHANGED bounds
     \/ /\ Len(read[b]) = Len(inputs) /\ Needed(b, inputs, needs)
        /\ Answer(b)
  /\ UNCHANGED <<docs, ready, billed, disturbed, reposted>>

IndustryKeywords(b) == Generation(b, 2, <<>>, {}, JsonAnswer)

IndustryReport(b) == Generation(b, 3, <<"keywords">>, {"keywords"}, TextAnswer)

MarketingPlan(b) == Generation(b, 6, <<"report", "posts">>, {}, TextAnswer)

KeywordMatrix(b) == Generation(b, 7, <<"plan">>, {"plan"}, TextAnswer)

TopicBank(b) == Generation(b, 8, <<"plan", "report">>, {"plan", "report"}, TopicsAnswer)

DailyReport(b) ==
  Generation(b, 9, <<"plan", "matrix", "topics">>, {"plan", "matrix", "topics"}, ReportAnswer)

-----------------------------------------------------------------------------
(* The nodes that do not.                                                  *)

\* A table whose connection is cut is taken for an empty one.
CoordinatorCheck(b) ==
  /\ node[b] = 1 /\ at[b] = "read"
  /\ \/ /\ ready /\ Goto(b, "save")
        /\ UNCHANGED <<record, node, read, crawl, product, bounds>>
     \/ (Fault \/ (~ready /\ UNCHANGED bounds)) /\ Block(b)
     \/ Fault /\ Fail(b)
  /\ UNCHANGED <<docs, ready, billed, disturbed, reposted>>

\* An HTTP error fails softly, anything else raises.  Otherwise the rows are
\* merged into the table.
DailyHotspots(b) ==
  /\ node[b] = 5 /\ at[b] = "read"
  /\ \/ Goto(b, "save") /\ UNCHANGED <<record, node, read, crawl, product, bounds>>
     \/ Fault /\ SoftFail(b)
     \/ Fault /\ Fail(b)
  /\ UNCHANGED <<docs, ready, billed, disturbed, reposted>>

-----------------------------------------------------------------------------
(* benchmark_posts: the accounts one by one, page by page.                 *)

Crawling(b, label) == node[b] = 4 /\ at[b] = label
Rest == <<docs, ready, billed, disturbed, reposted>>

\* The account whose turn it is.
Turn(b) == Accounts[crawl[b].account]

\* The table of the accounts may not be the one that is empty.
ReadAccounts(b) ==
  /\ Crawling(b, "read")
  /\ \/ /\ Goto(b, "account")
        /\ UNCHANGED <<record, node, read, crawl, product, bounds>>
     \/ (Fault \/ (~ready /\ UNCHANGED bounds)) /\ Block(b)
     \/ Fault /\ Fail(b)
  /\ UNCHANGED Rest

\* (A mutant: it stays the next one.)
MutantNextAccount(b) ==
  /\ crawl' = [crawl EXCEPT ![b].notes = <<>>]
  /\ Goto(b, "account")
  /\ UNCHANGED <<record, node, read, product>>

\* Whatever it has got of this account is left out.
NextAccount(b) ==
  /\ crawl' = [crawl EXCEPT ![b].account = @ + 1, ![b].notes = <<>>]
  /\ Goto(b, "account")
  /\ UNCHANGED <<record, node, read, product>>

ResolveProfile(b) ==
  /\ Crawling(b, "account") /\ crawl[b].account <= Len(Accounts)
  /\ \/ /\ Turn(b) \in NoHomepage
        /\ NextAccount(b) /\ UNCHANGED bounds
     \/ /\ Turn(b) \notin NoHomepage
        /\ crawl' = [crawl EXCEPT ![b].cursor = Start, ![b].tries = 0]
        /\ Goto(b, "page")
        /\ UNCHANGED <<record, node, read, product, bounds>>
     \/ /\ Turn(b) \notin NoHomepage
        /\ Fault /\ NextAccount(b)
  /\ UNCHANGED Rest

\* (A mutant: it is asked once too often.)
MutantRetryPage(b) ==
  /\ Crawling(b, "page") /\ crawl[b].tries <= MaxRetries
  /\ transients < MaxTransients /\ transients' = transients + 1
  /\ crawl' = [crawl EXCEPT ![b].tries = @ + 1]
  /\ UNCHANGED <<Rest, record, node, at, read, product, faults, crashes, edits>>

\* A busy server or a connection that failed is asked again, up to MaxRetries times.
RetryPage(b) ==
  /\ Crawling(b, "page") /\ crawl[b].tries < MaxRetries
  /\ transients < MaxTransients /\ transients' = transients + 1
  /\ crawl' = [crawl EXCEPT ![b].tries = @ + 1]
  /\ UNCHANGED <<Rest, record, node, at, read, product, faults, crashes, edits>>

\* (A mutant: the pages got so far are kept.)
MutantKeepPages(b) ==
  /\ crawl' = [crawl EXCEPT ![b].account = @ + 1, ![b].notes = <<>>, ![b].rows = @ \o crawl[b].notes]
  /\ Goto(b, "account")
  /\ UNCHANGED <<record, node, read, product>>

GiveUpAccount(b) == NextAccount(b)

\* An answer is charged before its code is looked at.
PageFails(b) ==
  /\ Crawling(b, "page")
  /\ \/ /\ crawl[b].tries = MaxRetries
        /\ transients < MaxTransients /\ transients' = transients + 1
        /\ UNCHANGED <<billed, faults, crashes, edits>>
     \/ Fault /\ UNCHANGED billed
     \/ Fault /\ billed' = billed \cup {<<b, Turn(b), crawl[b].cursor>>}
  /\ GiveUpAccount(b)
  /\ UNCHANGED <<docs, ready, disturbed, reposted>>

\* A post with a link that is among the rows is left out, and so is a blank one.
Keep(kept, p) ==
  IF p.note = Blank \/ (p.note # Plain /\ \E i \in DOMAIN kept : kept[i].note = p.note)
    THEN kept ELSE Append(kept, p)

Deduped(rows, notes) == FoldLeft(Keep, rows, notes)

\* The cursor of a page that is followed by another; a cursor that is empty or
\* does not move ends the pages.
Continues(a, c) == Site[a][c].more /\ Site[a][c].next \notin {Start, c}

\* The n cursors of a path are those of all pages of account a, in their order.
Leads(a, n, path) ==
  /\ path[1] = Start /\ Range(path) = DOMAIN Site[a]
  /\ \A i \in 1..(n - 1) : Continues(a, path[i]) /\ Site[a][path[i]].next = path[i + 1]
  /\ ~Continues(a, path[n])

\* An account has no other pages than those its cursors lead to, and a last one.
ASSUME SiteAssumption ==
  \A a \in Account : LET S == DOMAIN Site[a] IN
    IsFiniteSet(S) /\ \E n \in 1..Cardinality(S) : \E path \in [1..n -> S] : Leads(a, n, path)

FetchPage(b) ==
  LET a == Turn(b)
      c == crawl[b].cursor
      notes == crawl[b].notes \o [i \in DOMAIN Site[a][c].notes |->
                                    [note |-> Site[a][c].notes[i], account |-> a, cursor |-> c]]
  IN  /\ Crawling(b, "page")
      /\ billed' = billed \cup {<<b, a, c>>}
      /\ \/ /\ Continues(a, c)
            /\ crawl' = [crawl EXCEPT ![b].cursor = Site[a][c].next, ![b].tries = 0, ![b].notes = notes]
            /\ UNCHANGED at
         \/ /\ ~Continues(a, c)
            /\ crawl' = [crawl EXCEPT ![b].account = @ + 1, ![b].notes = <<>>,
                                   ![b].rows = Deduped(@, notes), ![b].complete = @ \cup {a}]
            /\ Goto(b, "account")
      /\ UNCHANGED <<docs, ready, disturbed, reposted, record, node, read, product, bounds>>

\* Without rows the node fails softly, and the table stays as it is.
BenchmarkPosts(b) ==
  /\ Crawling(b, "account") /\ crawl[b].account > Len(Accounts)
  /\ IF crawl[b].rows = <<>>
       THEN SoftFail(b)
       ELSE Store(b, {[by |-> b, own |-> TRUE, paid |-> TRUE, posts |-> crawl[b].rows]})
  /\ UNCHANGED <<Rest, bounds>>

-----------------------------------------------------------------------------
(* Writing, by runs and by clients.                                        *)

Begun == {b \in Batch : status[b] # "absent"}

\* A statement of worker b that changes dataset Output[node[b]] to versions: it is
\* done, or it raises, or its commit is lost with the connection, silently.
Statement(b, versions, label) ==
  LET d == Output[node[b]]
  IN  \/ /\ docs' = [docs EXCEPT ![d] = versions]
         /\ disturbed' = disturbed \cup (Begun \ {b})
         /\ Goto(b, label)
         /\ UNCHANGED <<record, node, read, crawl, product, bounds>>
      \/ Fault /\ Fail(b) /\ UNCHANGED <<docs, disturbed>>
      \/ /\ Fault
         /\ disturbed' = disturbed \cup {b}
         /\ Goto(b, label)
         /\ UNCHANGED <<docs, record, node, read, crawl, product>>

\* write_table replaces a table in two transactions ...
ClearTable(b) ==
  /\ at[b] = "clear"
  /\ Statement(b, {}, "write")
  /\ UNCHANGED <<ready, billed, reposted>>

\* (A mutant: the node is recorded before its output is written.)
MutantSaveFirst(b) ==
  /\ at[b] = "write"
  /\ done' = [done EXCEPT ![b] = @ \cup {node[b]}]
  /\ \/ /\ docs' = [docs EXCEPT ![Output[node[b]]] = product[b]]
        /\ Proceed(b, Later(b), done'[b], resumed[b])
        /\ UNCHANGED bounds
     \/ /\ Fault /\ UNCHANGED docs
        /\ Goto(b, "rest") /\ UNCHANGED node
        /\ status' = [status EXCEPT ![b] = "failed"]
        /\ Forget(b)
  /\ UNCHANGED <<ready, billed, resumed, disturbed, reposted>>

\* ... and write_doc a document in one.  Daily reports are appended.
Write(b) ==
  /\ at[b] = "write"
  /\ Statement(b, product[b] \cup (IF Output[node[b]] \in Docs THEN {} ELSE docs[Output[node[b]]]), "save")
  /\ UNCHANGED <<ready, billed, reposted>>

Edited == [by |-> User, own |-> TRUE, paid |-> FALSE, posts |-> <<>>]

\* The client empties or fills its own tables, or creates, changes or deletes a row
\* of another.  It has no request that changes a document.
UserEdits ==
  /\ edits < MaxEdits /\ edits' = edits + 1
  /\ \/ ready' = ~ready /\ UNCHANGED <<docs, disturbed>>
     \/ \E d \in Dataset \ Docs :
          /\ \E gone \in {{}} \cup {{v} : v \in docs[d]}, new \in {{}, {Edited}} :
               docs' = [docs EXCEPT ![d] = (@ \ gone) \cup new]
          /\ disturbed' = disturbed \cup Begun
          /\ UNCHANGED ready
  /\ UNCHANGED <<billed, reposted, record, worker, faults, transients, crashes>>

\* The process ends with its workers.
Crash ==
  /\ crashes < MaxCrashes /\ crashes' = crashes + 1
  /\ \E b \in Batch : at[b] # "rest"
  /\ at' = [b \in Batch |-> "rest"]
  /\ read' = [b \in Batch |-> <<>>]
  /\ crawl' = [b \in Batch |-> NoCrawl]
  /\ product' = [b \in Batch |-> {}]
  /\ UNCHANGED <<docs, ready, billed, record, node, disturbed, reposted, faults, transients, edits>>

-----------------------------------------------------------------------------

Step(b) ==
  \/ CoordinatorCheck(b) \/ IndustryKeywords(b) \/ IndustryReport(b)
  \/ ReadAccounts(b) \/ ResolveProfile(b) \/ RetryPage(b) \/ PageFails(b) \/ FetchPage(b) \/ BenchmarkPosts(b)
  \/ DailyHotspots(b) \/ MarketingPlan(b) \/ KeywordMatrix(b) \/ TopicBank(b) \/ DailyReport(b)
  \/ ClearTable(b) \/ Write(b) \/ SaveNode(b)

Next ==
  \/ \E b \in Batch : PostRun(b) \/ ResumeRun(b) \/ Step(b)
  \/ UserEdits \/ Crash

\* A worker is scheduled, and every remote call has a timeout.
Spec == Init /\ [][Next]_vars /\ \A b \in Batch : WF_vars(Step(b))

-----------------------------------------------------------------------------
(* Properties.                                                             *)

Texts == {"keywords", "report", "plan", "matrix", "topics"}

\* A collection leaves one generation of texts: when it has completed, all of them
\* are its own and were generated from its own, through whatever failures, crashes,
\* resumes and repeated POSTs, as long as nobody else wrote and no write was lost.
\* (A model that names no topics leaves none; the posts may be older, if no account
\* could be fetched.  Runs that were begun once more and then resumed are left out:
\* a node that fails the second time stays in completed_nodes, and a resume skips it.)
OneLineage ==
  \A b \in Collecting :
    status[b] = "completed" /\ b \notin disturbed /\ ~(b \in reposted /\ resumed[b]) =>
    /\ \A d \in Texts : d # "topics" => docs[d] # {}
    /\ \A d \in Texts : \A v \in docs[d] :
         v.by = b /\ v.own

\* Nothing is published that was not charged: the model call of every text, and
\* the page of every post, is in the ledger, although charging may fail.
PublishedAreCharged ==
  \A d \in Dataset : \A v \in docs[d] : v.by \in Batch =>
    /\ v.paid
    /\ \A i \in DOMAIN v.posts : <<v.by, v.posts[i].account, v.posts[i].cursor>> \in billed

Posts(a) == (UNION {Range(Site[a][c].notes) : c \in DOMAIN Site[a]}) \ {Blank}
Links(rows) == {rows[i].note : i \in DOMAIN rows}

\* What is written of the benchmark accounts is all posts of the accounts that
\* could be fetched to the end, nothing of the others, and no link twice; and as
\* long as no request failed for good, those are all accounts with a homepage.
BenchmarkIsWhole ==
  \A b \in Batch : Crawling(b, "write") =>
    /\ Links(crawl[b].rows) = UNION {Posts(a) : a \in crawl[b].complete}
    /\ \A i, j \in DOMAIN crawl[b].rows :
         crawl[b].rows[i].note = crawl[b].rows[j].note /\ i # j => crawl[b].rows[i].note = Plain
    /\ faults = 0 /\ transients <= MaxRetries => crawl[b].complete = Account \ NoHomepage

\* Every run comes to an end, however its requests fail.
RunsEnd == \A b \in Batch : []<>(at[b] = "rest")

=============================================================================
