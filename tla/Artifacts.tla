------------------------------ MODULE Artifacts ------------------------------
(***************************************************************************)
(* One business artifact, from the run that creates it to the clients that *)
(* edit it: the nodes of flow/content_create/nodes.py, the images of       *)
(* integrations/image_generation.py, the rows of model/artifact.py and the *)
(* routes of artifacts in app/routes.py.                                   *)
(*                                                                         *)
(* The run of a batch generates a text and prompts, draws, charges and     *)
(* uploads an image per prompt, appends a row to the table of works and    *)
(* upserts the artifact.  Clients read it, replace it, delete it, and      *)
(* redraw one of its images, which takes as long as a provider needs:      *)
(* everybody interleaves between any two calls and statements.             *)
(*                                                                         *)
(* An image is what prompt it was drawn from.  Further variants of it are  *)
(* uploaded too, but nothing refers to them; they are left out.            *)
(*                                                                         *)
(* Bounds: MaxFaults, MaxCrashes, MaxRequests.                             *)
(***************************************************************************)
EXTENDS Naturals, Sequences

CONSTANTS
  Client,
  Prompt,
  Plans,        \* what a model may answer: [cover : Prompt, gallery : Seq(Prompt)]
  Absent,
  MaxFaults,
  MaxCrashes,
  MaxRequests

Flow == {"original", "original with references", "rewrite"}

Node == {"fetch", "copy", "images"}

Slots == 0..2     \* 0 is the cover

\* The key of an object in the store of images, which is its address, too: the
\* folder is that of the batch or, for a slot that is redrawn, of its own.  The
\* prompt stands for its hash.
Folder == {"batch", "slot 0", "slot 1", "slot 2"}
EditFolder == <<"slot 0", "slot 1", "slot 2">>
Key == Folder \X Slots \X Prompt

\* (A mutant: the hash is left out.)
MutantObjectKey(folder, i, prompt) == <<folder, i, CHOOSE p \in Prompt : TRUE>>

ObjectKey(folder, i, prompt) == <<folder, i, prompt>>

Text == {"", "the run's", "a client's"}

Artifact ==
  [id : Nat, text : Text, cover : Prompt, cover_url : Key, prompts : Seq(Prompt), urls : Seq(Key)]

\* What is left to do of a list of images: each is drawn and charged, then each is
\* uploaded.
Task == [do : {"draw", "upload"}, key : Key, prompt : Prompt]

\* (A mutant: they are uploaded first.)
MutantTasks(folder, prompts) ==
  LET Each(what) ==
        [i \in DOMAIN prompts |->
           [do |-> what, key |-> ObjectKey(folder, i - 1, prompts[i]), prompt |-> prompts[i]]]
  IN  Each("upload") \o Each("draw")

Tasks(folder, prompts) ==
  LET Each(what) ==
        [i \in DOMAIN prompts |->
           [do |-> what, key |-> ObjectKey(folder, i - 1, prompts[i]), prompt |-> prompts[i]]]
  IN  Each("draw") \o Each("upload")

\* With references, the cover and the gallery are two calls.
PlanTasks(f, p) ==
  IF f = "original with references"
    THEN Tasks("batch", <<p.cover>>) \o Tasks("batch", p.gallery)
    ELSE Tasks("batch", <<p.cover>> \o p.gallery)

\* (A mutant: the gallery is numbered from two.)
MutantFirstOfGallery(f) == 2

\* The index of the gallery's first image in its call.
FirstOfGallery(f) == IF f = "original with references" THEN 0 ELSE 1

\* What the run makes of a plan.
Made(f, p) ==
  [cover     |-> p.cover,
   cover_url |-> ObjectKey("batch", 0, p.cover),
   prompts   |-> p.gallery,
   urls      |-> [i \in DOMAIN p.gallery |-> ObjectKey("batch", FirstOfGallery(f) + i - 1, p.gallery[i])]]

Row(id, text, made) ==
  [id |-> id, text |-> text, cover |-> made.cover, cover_url |-> made.cover_url,
   prompts |-> made.prompts, urls |-> made.urls]

Work == [cover : Prompt, cover_url : Key, prompts : Seq(Prompt), urls : Seq(Key)]

ASSUME ArtifactsAssumption ==
  /\ Prompt # {}
  /\ Plans \subseteq [cover : Prompt, gallery : Seq(Prompt)]
  /\ \A p \in Plans : Len(p.gallery) \in Slots
  /\ Absent \notin Plans \cup Prompt \cup Work \cup Artifact
  /\ MaxFaults \in Nat /\ MaxCrashes \in Nat /\ MaxRequests \in Nat

VARIABLES
  flow,
  status, done, resumed,   \* of the run, as in Collection
  at,         \* what its worker does next
  plan,       \* the prompts it has
  tasks,      \* what it has to do of its images
  works,      \* the newest of its rows in the table of works
  art, ids,   \* the artifact, and how many were inserted
  objects,    \* objects[k]: the prompt of the image stored under k
  charged,    \* the images in the ledger
  req,        \* req[c]: the request of client c
  touched,    \* history: has a client changed the artifact since it was upserted?
  lost,       \* history: was a commit lost silently?
  mispaired,  \* history: has a client put an image beside a prompt it is not of?
  faults, crashes, requests

run    == <<status, done, resumed, at, plan, tasks>>
bounds == <<faults, crashes, requests>>
vars   == <<flow, run, works, art, ids, objects, charged, req, touched, lost, mispaired, bounds>>

Request ==
  [at     : {"rest", "edit", "work", "store"},
   store  : BOOLEAN,                \* is it a regenerate, not a preview?
   seen   : Artifact \cup {Absent},
   index  : Slots,
   prompt : Prompt,
   tasks  : Seq(Task)]

NoRequest ==
  [at |-> "rest", store |-> FALSE, seen |-> Absent, index |-> 0,
   prompt |-> CHOOSE p \in Prompt : TRUE, tasks |-> <<>>]

TypeOK ==
  /\ flow \in Flow
  /\ status \in {"absent", "running", "blocked", "failed", "completed"}
  /\ done \subseteq Node
  /\ resumed \in BOOLEAN
  /\ at \in {"rest", "fetch", "copy", "images", "task", "work", "upsert"}
  /\ plan \in Plans \cup {Absent}
  /\ tasks \in Seq(Task)
  /\ works \in Work \cup {Absent}
  /\ art \in Artifact \cup {Absent}
  /\ ids \in Nat
  /\ objects \in [Key -> Prompt \cup {Absent}]
  /\ charged \subseteq Key
  /\ req \in [Client -> Request]
  /\ touched \in BOOLEAN /\ lost \in BOOLEAN /\ mispaired \in BOOLEAN
  /\ faults \in 0..MaxFaults /\ crashes \in 0..MaxCrashes /\ requests \in 0..MaxRequests
  /\ art # Absent => art.id = ids
  /\ at \in {"task", "work", "upsert"} => plan # Absent

Init ==
  /\ flow \in Flow
  /\ status = "absent" /\ done = {} /\ resumed = FALSE
  /\ at = "rest" /\ plan = Absent /\ tasks = <<>>
  /\ works = Absent /\ art = Absent /\ ids = 0
  /\ objects = [k \in Key |-> Absent]
  /\ charged = {}
  /\ req = [c \in Client |-> NoRequest]
  /\ touched = FALSE /\ lost = FALSE /\ mispaired = FALSE
  /\ faults = 0 /\ crashes = 0 /\ requests = 0

Fault == faults < MaxFaults /\ faults' = faults + 1 /\ UNCHANGED <<crashes, requests>>

-----------------------------------------------------------------------------
(* The run.                                                                *)

Forget == plan' = Absent /\ tasks' = <<>>

\* It goes on at its first node that is not in D; only a rewrite has the first one.
Proceed(D) ==
  IF Node \subseteq D
    THEN at' = "rest" /\ status' = "completed"
    ELSE /\ at' = IF "fetch" \notin D /\ flow = "rewrite" THEN "fetch"
                  ELSE IF "copy" \notin D THEN "copy" ELSE "images"
         /\ status' = "running"

UpTo == [fetch |-> {"fetch"}, copy |-> {"fetch", "copy"}, images |-> Node]

\* A node has returned its output, and is recorded.
Saved(n) ==
  /\ done' = done \cup {n}
  /\ Proceed(UpTo[n] \cup (IF resumed THEN done ELSE {}))
  /\ Forget
  /\ UNCHANGED resumed

\* What a node catches blocks the run, anything else fails it.
Breaks ==
  /\ Fault
  /\ at' = "rest" /\ status' \in {"blocked", "failed"}
  /\ Forget
  /\ UNCHANGED <<done, resumed>>

PostRun ==
  /\ at = "rest" /\ status \in {"absent", "running"}
  /\ Proceed(IF resumed THEN done ELSE {})
  /\ UNCHANGED <<flow, done, resumed, plan, tasks, works, art, ids, objects, charged, req, touched, lost, mispaired, bounds>>

ResumeRun ==
  /\ at = "rest" /\ status \in {"blocked", "failed"}
  /\ resumed' = TRUE
  /\ Proceed(done)
  /\ UNCHANGED <<flow, done, plan, tasks, works, art, ids, objects, charged, req, touched, lost, mispaired, bounds>>

\* The note of another author is fetched; a text is generated from it, or from the
\* plan and the reports of the tenant.
Fetch == at = "fetch" /\ ((Saved("fetch") /\ UNCHANGED bounds) \/ Breaks)
Copy == at = "copy" /\ ((Saved("copy") /\ UNCHANGED bounds) \/ Breaks)

\* An answer for all images or, in a rewrite, one for each image of the note.
Prompts ==
  /\ at = "images"
  /\ \/ /\ \E p \in Plans : plan' = p /\ tasks' = PlanTasks(flow, p)
        /\ at' = "task"
        /\ UNCHANGED <<status, done, resumed, bounds>>
     \/ Breaks

\* What doing a task changes.
Does(task) ==
  IF task.do = "draw"
    THEN charged' = charged \cup {task.key} /\ UNCHANGED objects
    ELSE objects' = [objects EXCEPT ![task.key] = task.prompt] /\ UNCHANGED charged

RunTask ==
  /\ at = "task"
  /\ \/ /\ Does(Head(tasks))
        /\ tasks' = Tail(tasks)
        /\ at' = IF tasks' = <<>> THEN "work" ELSE "task"
        /\ UNCHANGED <<status, done, resumed, plan, bounds>>
     \/ Breaks /\ UNCHANGED <<objects, charged>>

\* A row is appended to the table of works; a commit may be lost silently.
AppendWork ==
  /\ at = "work"
  /\ \/ /\ works' = Made(flow, plan)
        /\ at' = "upsert"
        /\ UNCHANGED <<status, done, resumed, plan, tasks, lost, bounds>>
     \/ Breaks /\ UNCHANGED <<works, lost>>
     \/ /\ Fault /\ lost' = TRUE
        /\ at' = "upsert"
        /\ UNCHANGED <<status, done, resumed, plan, tasks, works>>

\* (A mutant: a failure to write the artifact is ignored.)
MutantWriteArtifact ==
  /\ at = "upsert"
  /\ \/ /\ ids' = IF art = Absent THEN ids + 1 ELSE ids
        /\ art' = Row(ids', "the run's", Made(flow, plan))
        /\ touched' = FALSE
        /\ Saved("images") /\ UNCHANGED <<lost, bounds>>
     \/ Fault /\ Saved("images") /\ UNCHANGED <<art, ids, touched, lost>>

\* Inserted, or every column of the row that is there replaced.
WriteArtifact ==
  /\ at = "upsert"
  /\ \/ /\ ids' = IF art = Absent THEN ids + 1 ELSE ids
        /\ art' = Row(ids', "the run's", Made(flow, plan))
        /\ touched' = FALSE
        /\ Saved("images") /\ UNCHANGED <<lost, bounds>>
     \/ Breaks /\ UNCHANGED <<art, ids, touched, lost>>
     \/ /\ Fault /\ lost' = TRUE
        /\ Saved("images") /\ UNCHANGED <<art, ids, touched>>

RunStep ==
  /\ \/ (Fetch \/ Copy \/ Prompts) /\ UNCHANGED <<works, art, ids, objects, charged, touched, lost>>
     \/ RunTask /\ UNCHANGED <<works, art, ids, touched, lost>>
     \/ AppendWork /\ UNCHANGED <<art, ids, objects, charged, touched>>
     \/ WriteArtifact /\ UNCHANGED <<works, objects, charged>>
  /\ UNCHANGED <<flow, req, mispaired>>

-----------------------------------------------------------------------------
(* The clients.                                                            *)

Other == <<flow, run, works, lost, mispaired>>

Asks == requests < MaxRequests /\ requests' = requests + 1 /\ UNCHANGED <<faults, crashes>>

Answered(c) == req' = [req EXCEPT ![c] = NoRequest]

\* A client reads the artifact, to edit it.
ReadArtifact(c) ==
  /\ req[c].at = "rest" /\ art # Absent /\ Asks
  /\ req' = [req EXCEPT ![c].at = "edit", ![c].seen = art]
  /\ UNCHANGED <<Other, art, ids, objects, charged, touched>>

Without(list, i) == SubSeq(list, 1, i - 1) \o SubSeq(list, i + 1, Len(list))

\* row with the new image at its slot.
Redrawn(row, i, prompt, url) ==
  IF i = 0 THEN [row EXCEPT !.cover = prompt, !.cover_url = url]
           ELSE [row EXCEPT !.prompts[i] = prompt, !.urls[i] = url]

\* What a client has read, and all of it but an image, with its prompt or without, or
\* but a list: one that a request leaves out is emptied, as a blank in it is dropped.
Cut(seen) ==
  {seen, [seen EXCEPT !.urls = <<>>], [seen EXCEPT !.prompts = <<>>]}
    \cup {[seen EXCEPT !.urls = Without(@, i)] : i \in DOMAIN seen.urls}
    \cup {[seen EXCEPT !.urls = Without(@, i), !.prompts = Without(@, i)] :
             i \in DOMAIN seen.urls \cap DOMAIN seen.prompts}

\* What a client may send: that, or another stored image in a slot - that of a preview,
\* say - beside any prompt.  (The table refuses a request that leaves a text out.)
Edits(seen) ==
  Cut(seen)
    \cup {Redrawn(seen, i, prompt, url) :
             i \in {0} \cup (DOMAIN seen.urls \cap DOMAIN seen.prompts),
             prompt \in Prompt, url \in {k \in Key : objects[k] # Absent}}

\* Each image that row shows was drawn from the prompt beside it.  (Lists of different
\* lengths do not say which prompt is beside which image.)
Paired(row) ==
  /\ objects[row.cover_url] = row.cover
  /\ Len(row.urls) = Len(row.prompts) =>
       \A i \in DOMAIN row.urls : objects[row.urls[i]] = row.prompts[i]

\* Every column is replaced by what the request holds, and nothing of it is checked.
PutArtifact(c) ==
  /\ req[c].at = "edit"
  /\ \E edited \in Edits(req[c].seen) :
       IF art # Absent /\ art.id = edited.id
         THEN /\ art' = Row(edited.id, "a client's", edited) /\ touched' = TRUE
              /\ mispaired' = (mispaired \/ ~Paired(edited))
         ELSE UNCHANGED <<art, touched, mispaired>>
  /\ Answered(c)
  /\ UNCHANGED <<flow, run, works, lost, ids, objects, charged, bounds>>

DeleteArtifact ==
  /\ art # Absent /\ Asks
  /\ art' = Absent /\ touched' = TRUE
  /\ UNCHANGED <<Other, ids, objects, charged, req>>

\* A client asks for a new image of slot i, from a prompt of its own or from that of
\* the slot.  A slot has a prompt or an image, and is refused if it has no prompt.
AskImage(c) ==
  /\ req[c].at = "rest" /\ art # Absent /\ Asks
  /\ \E i \in Slots, prompt \in Prompt, store \in BOOLEAN :
       /\ i <= Len(art.prompts) \/ i <= Len(art.urls)
       /\ req' = [req EXCEPT ![c] =
            [at |-> "work", store |-> store, seen |-> art, index |-> i, prompt |-> prompt,
             tasks |-> Tasks(EditFolder[i + 1], <<prompt>>)]]
  /\ UNCHANGED <<Other, art, ids, objects, charged, touched>>

\* The client waits while it is drawn, charged and uploaded; a preview ends there.
ClientTask(c) ==
  /\ req[c].at = "work"
  /\ \/ /\ Does(Head(req[c].tasks))
        /\ UNCHANGED bounds
        /\ LET rest == Tail(req[c].tasks)
           IN  IF rest = <<>> /\ ~req[c].store
                 THEN Answered(c)
                 ELSE req' = [req EXCEPT ![c].tasks = rest, ![c].at = IF rest = <<>> THEN "store" ELSE "work"]
     \/ Fault /\ Answered(c) /\ UNCHANGED <<objects, charged>>
  /\ UNCHANGED <<Other, art, ids, touched>>

\* Both lists as they were read are indexed: if one is too short, the paid image is
\* lost and the client sees an error.  Otherwise all columns are replaced by what
\* was read and the new image, the text by its default, a blank.
RegenerateImage(c) ==
  /\ req[c].at = "store"
  /\ LET seen == req[c].seen
         i == req[c].index
         key == ObjectKey(EditFolder[i + 1], 0, req[c].prompt)
     IN  IF i <= Len(seen.prompts) /\ i <= Len(seen.urls) /\ art # Absent /\ art.id = seen.id
           THEN art' = Row(seen.id, "", Redrawn(seen, i, req[c].prompt, key)) /\ touched' = TRUE
           ELSE UNCHANGED <<art, touched>>
  /\ Answered(c)
  /\ UNCHANGED <<Other, ids, objects, charged, bounds>>

\* The process ends with its workers and requests.
Crash ==
  /\ crashes < MaxCrashes /\ crashes' = crashes + 1
  /\ at # "rest" \/ \E c \in Client : req[c].at # "rest"
  /\ at' = "rest" /\ Forget
  /\ req' = [c \in Client |-> NoRequest]
  /\ UNCHANGED <<flow, status, done, resumed, works, art, ids, objects, charged, touched, lost, mispaired, faults, requests>>

Next ==
  \/ PostRun \/ ResumeRun \/ RunStep \/ DeleteArtifact \/ Crash
  \/ \E c \in Client :
       ReadArtifact(c) \/ PutArtifact(c) \/ AskImage(c) \/ ClientTask(c) \/ RegenerateImage(c)

Spec == Init /\ [][Next]_vars

-----------------------------------------------------------------------------
(* Properties.                                                             *)

\* As long as no client has itself put an image beside a prompt it was not drawn
\* from, which a PUT of a previewed image without its prompt does, every image of the
\* artifact was drawn from the prompt beside it, however runs, stale edits and slow
\* regenerates overwrite each other: both are written together, and an object is only
\* replaced by an image from the same prompt.
ImagesMatchPrompts == art # Absent /\ ~mispaired => Paired(art)

\* Nobody is shown an image that was not charged: charging precedes uploading, and
\* uploading precedes publishing, in the artifact as in the table of works.
ShownIsCharged ==
  /\ \A k \in Key : objects[k] # Absent => k \in charged
  /\ \A made \in {art, works} \ {Absent} :
       {made.cover_url} \cup {made.urls[i] : i \in DOMAIN made.urls} \subseteq {k \in Key : objects[k] # Absent}

\* A run that has completed has published what it made: there is an artifact, unless
\* a client has deleted it, and as long as no client has changed it, it shows the
\* images of the newest row of the table of works, through whatever failed, crashed
\* and was resumed between the two writes.  (Unless a commit was lost silently.)
CompletedIsPublished ==
  status = "completed" /\ ~lost =>
    /\ works # Absent
    /\ ~touched => art = Row(ids, "the run's", works)

\* To regenerate an image leaves the text of the artifact as it is.
RegenerateKeepsText ==
  [][\A c \in Client : RegenerateImage(c) /\ art' # Absent => art'.text = art.text]_vars

=============================================================================
