--------------------------- MODULE ArtifactsProofs ---------------------------
(* Theorems about Artifacts, for every set of clients, prompts and plans     *)
(* and every bound.                                                          *)
EXTENDS Artifacts, SequenceTheorems, TLAPS

\* Key k is still to be uploaded.
Uploads(T, k) == \E j \in DOMAIN T : T[j].do = "upload" /\ T[j].key = k

\* Every image that is to be uploaded is paid for or will have been drawn.
Ordered(T, paid) ==
  \A j \in DOMAIN T : T[j].do = "upload" =>
    \/ T[j].key \in paid
    \/ \E i \in DOMAIN T : i < j /\ T[i].do = "draw" /\ T[i].key = T[j].key

\* An image is stored under a key of its prompt.
Genuine(T) == \A j \in DOMAIN T : T[j].key[3] = T[j].prompt

Keys(made) == {made.cover_url} \cup {made.urls[i] : i \in DOMAIN made.urls}

\* The prompts are those of the keys beside them, or a list has been cut.
Matched(made) ==
  /\ made.cover_url[3] = made.cover
  /\ Len(made.urls) = Len(made.prompts) => \A i \in DOMAIN made.urls : made.urls[i][3] = made.prompts[i]

Stored == {k \in Key : objects[k] # Absent}

-----------------------------------------------------------------------------
(* Lists of tasks.                                                           *)

LEMMA KeyIs ==
  ASSUME NEW folder \in Folder, NEW i \in Slots, NEW prompt \in Prompt
  PROVE  ObjectKey(folder, i, prompt) \in Key /\ ObjectKey(folder, i, prompt)[3] = prompt
  BY DEF ObjectKey, Key

\* What is to be done for a list of prompts: the images are drawn, then uploaded.
LEMMA TasksAre ==
  ASSUME NEW folder \in Folder, NEW prompts \in Seq(Prompt), Len(prompts) <= 3
  PROVE  LET T == Tasks(folder, prompts)
         IN  /\ T \in Seq(Task)
             /\ prompts # <<>> => T # <<>>
             /\ Ordered(T, {}) /\ Genuine(T)
             /\ \A i \in DOMAIN prompts : Uploads(T, ObjectKey(folder, i - 1, prompts[i]))
  <1> DEFINE n == Len(prompts)
             Each(what) ==
               [i \in DOMAIN prompts |->
                  [do |-> what, key |-> ObjectKey(folder, i - 1, prompts[i]), prompt |-> prompts[i]]]
             T == Tasks(folder, prompts)
  <1>1. n \in Nat /\ n <= 3 /\ DOMAIN prompts = 1..n /\ \A i \in 1..n : prompts[i] \in Prompt
    OBVIOUS
  <1>2. \A i \in 1..n : /\ ObjectKey(folder, i - 1, prompts[i]) \in Key
                        /\ ObjectKey(folder, i - 1, prompts[i])[3] = prompts[i]
    <2> TAKE i \in 1..n
    <2>1. i - 1 \in Slots
      BY <1>1 DEF Slots
    <2> QED
      BY <1>1, <2>1, KeyIs
  <1>3. ASSUME NEW what \in {"draw", "upload"}
        PROVE  Each(what) \in Seq(Task) /\ Len(Each(what)) = n
    <2>1. \A i \in 1..n : Each(what)[i] \in Task
      BY <1>1, <1>2 DEF Task
    <2>2. Each(what) \in [1..n -> Task]
      BY <1>1, <2>1
    <2> QED
      BY <1>1, <2>2
  <1>4. T = Each("draw") \o Each("upload")
    BY DEF Tasks
  <1> HIDE DEF T
  <1>5. T \in Seq(Task) /\ Len(T) = n + n /\ DOMAIN T = 1..(n + n)
    <2>1. T \in Seq(Task) /\ Len(T) = n + n
      BY <1>3, <1>4, ConcatProperties
    <2> QED
      BY <1>1, <2>1
  <1>6. \A i \in 1..n : /\ T[i] = Each("draw")[i]
                        /\ T[n + i] = Each("upload")[i]
    BY <1>1, <1>3, <1>4
  <1> DEFINE key(i) == ObjectKey(folder, i - 1, prompts[i])
  <1>7. \A i \in 1..n : /\ T[i].do = "draw" /\ T[i].key = key(i) /\ T[i].prompt = prompts[i]
                        /\ T[n + i].do = "upload" /\ T[n + i].key = key(i) /\ T[n + i].prompt = prompts[i]
    <2> TAKE i \in 1..n
    <2>1. Each("draw")[i] = [do |-> "draw", key |-> key(i), prompt |-> prompts[i]]
      BY <1>1
    <2>2. Each("upload")[i] = [do |-> "upload", key |-> key(i), prompt |-> prompts[i]]
      BY <1>1
    <2> HIDE DEF Each, key
    <2> QED
      BY <1>6, <2>1, <2>2
  <1> HIDE DEF Each, n
  <1>8. \A j \in 1..(n + n) : j \in 1..n \/ \E i \in 1..n : j = n + i
    <2> TAKE j \in 1..(n + n)
    <2>1. CASE j <= n
      BY <1>1, <2>1
    <2>2. CASE j > n
      <3>1. j - n \in 1..n /\ j = n + (j - n)
        BY <1>1, <2>2
      <3> QED
        BY <3>1
    <2> QED
      BY <1>1, <2>1, <2>2
  <1>9. prompts # <<>> => T # <<>>
    <2> HAVE prompts # <<>>
    <2>1. n > 0
      BY EmptySeq DEF n
    <2> QED
      BY <1>1, <1>5, <2>1
  <1>10. Genuine(T)
    <2> SUFFICES ASSUME NEW j \in 1..(n + n) PROVE T[j].key[3] = T[j].prompt
      BY <1>5 DEF Genuine
    <2>1. \A i \in 1..n : key(i)[3] = prompts[i]
      BY <1>2
    <2> HIDE DEF key
    <2> QED
      BY <1>7, <1>8, <2>1
  <1>11. Ordered(T, {})
    <2> SUFFICES ASSUME NEW j \in 1..(n + n), T[j].do = "upload"
                 PROVE  \E i \in 1..(n + n) : i < j /\ T[i].do = "draw" /\ T[i].key = T[j].key
      BY <1>5 DEF Ordered
    <2>1. PICK i \in 1..n : j = n + i
      BY <1>7, <1>8
    <2>2. i \in 1..(n + n) /\ i < j
      BY <1>1, <2>1
    <2> QED
      BY <1>7, <2>1, <2>2
  <1>12. \A i \in DOMAIN prompts : Uploads(T, ObjectKey(folder, i - 1, prompts[i]))
    <2> TAKE i \in DOMAIN prompts
    <2>1. i \in 1..n /\ n + i \in 1..(n + n)
      BY <1>1
    <2> QED
      BY <1>5, <1>7, <2>1 DEF Uploads
  <1> QED
    BY <1>5, <1>9, <1>10, <1>11, <1>12 DEF T

\* Two lists, one after the other.
LEMMA TasksConcatenate ==
  ASSUME NEW S \in Seq(Task), NEW T \in Seq(Task), Ordered(S, {}), Ordered(T, {}), Genuine(S), Genuine(T)
  PROVE  /\ S \o T \in Seq(Task) /\ Ordered(S \o T, {}) /\ Genuine(S \o T)
         /\ S # <<>> => S \o T # <<>>
         /\ \A k : Uploads(S, k) \/ Uploads(T, k) => Uploads(S \o T, k)
  <1> DEFINE m == Len(S)
             n == Len(T)
             U == S \o T
  <1>1. m \in Nat /\ n \in Nat /\ DOMAIN S = 1..m /\ DOMAIN T = 1..n
    OBVIOUS
  <1>2. U \in Seq(Task) /\ Len(U) = m + n /\ DOMAIN U = 1..(m + n)
    BY <1>1
  <1>3. \A j \in 1..m : j \in DOMAIN U /\ U[j] = S[j]
    BY <1>1, <1>2
  <1>4. \A j \in 1..n : m + j \in DOMAIN U /\ U[m + j] = T[j]
    BY <1>1, <1>2
  <1>5. \A j \in DOMAIN U : j \in 1..m \/ (j - m \in 1..n /\ j = m + (j - m))
    BY <1>1, <1>2
  <1> HIDE DEF m, n, U
  <1>6. Genuine(U)
    <2> SUFFICES ASSUME NEW j \in DOMAIN U PROVE U[j].key[3] = U[j].prompt
      BY DEF Genuine
    <2>1. CASE j \in 1..m
      BY <1>1, <1>3, <2>1 DEF Genuine
    <2>2. CASE j - m \in 1..n /\ j = m + (j - m)
      BY <1>1, <1>4, <2>2 DEF Genuine
    <2> QED
      BY <1>5, <2>1, <2>2
  <1>7. Ordered(U, {})
    <2> SUFFICES ASSUME NEW j \in DOMAIN U, U[j].do = "upload"
                 PROVE  \E i \in DOMAIN U : i < j /\ U[i].do = "draw" /\ U[i].key = U[j].key
      BY DEF Ordered
    <2>1. CASE j \in 1..m
      <3>1. PICK i \in 1..m : i < j /\ S[i].do = "draw" /\ S[i].key = S[j].key
        BY <1>1, <1>3, <2>1 DEF Ordered
      <3> QED
        BY <1>3, <2>1, <3>1
    <2>2. CASE j - m \in 1..n /\ j = m + (j - m)
      <3>1. U[j] = T[j - m]
        BY <1>4, <2>2
      <3>2. PICK i \in 1..n : i < j - m /\ T[i].do = "draw" /\ T[i].key = T[j - m].key
        BY <1>1, <2>2, <3>1 DEF Ordered
      <3>3. m + i \in DOMAIN U /\ U[m + i] = T[i]
        BY <1>4
      <3>4. m + i < j
        BY <1>1, <1>2, <3>2
      <3> QED
        BY <3>1, <3>2, <3>3, <3>4
    <2> QED
      BY <1>5, <2>1, <2>2
  <1>8. S # <<>> => U # <<>>
    <2> HAVE S # <<>>
    <2>1. m > 0
      BY EmptySeq DEF m
    <2> QED
      BY <1>1, <1>2, <2>1
  <1>9. ASSUME NEW k, Uploads(S, k) \/ Uploads(T, k)
        PROVE  Uploads(U, k)
    <2>1. CASE Uploads(S, k)
      <3>1. PICK j \in 1..m : S[j].do = "upload" /\ S[j].key = k
        BY <1>1, <2>1 DEF Uploads
      <3> QED
        BY <1>3, <3>1 DEF Uploads
    <2>2. CASE Uploads(T, k)
      <3>1. PICK j \in 1..n : T[j].do = "upload" /\ T[j].key = k
        BY <1>1, <2>2 DEF Uploads
      <3> QED
        BY <1>4, <3>1 DEF Uploads
    <2> QED
      BY <1>9, <2>1, <2>2
  <1> QED
    BY <1>2, <1>6, <1>7, <1>8, <1>9 DEF U

\* What is left of a list when its first task has been done.
LEMMA TaskDone ==
  ASSUME NEW T \in Seq(Task), T # <<>>, NEW paid, Ordered(T, paid), Genuine(T)
  PROVE  /\ Head(T) \in Task /\ Tail(T) \in Seq(Task) /\ Genuine(Tail(T))
         /\ Head(T).key[3] = Head(T).prompt
         /\ Head(T).do = "draw" => Ordered(Tail(T), paid \cup {Head(T).key})
         /\ Head(T).do = "upload" => Head(T).key \in paid /\ Ordered(Tail(T), paid)
         /\ \A k : Uploads(T, k) => Uploads(Tail(T), k) \/ (Head(T).do = "upload" /\ Head(T).key = k)
         /\ Tail(T) = <<>> => \A k : ~Uploads(Tail(T), k)
  <1> DEFINE n == Len(T)
             U == Tail(T)
  <1>1. n \in Nat \ {0} /\ DOMAIN T = 1..n /\ 1 \in DOMAIN T
    BY EmptySeq
  <1>2. /\ U \in Seq(Task) /\ Len(U) = n - 1 /\ DOMAIN U = 1..(n - 1)
        /\ Head(T) \in Task /\ Head(T) = T[1]
        /\ \A j \in 1..(n - 1) : U[j] = T[j + 1]
    BY HeadTailProperties
  <1> HIDE DEF n, U
  <1>3. \A j \in DOMAIN U : j + 1 \in DOMAIN T /\ U[j] = T[j + 1]
    BY <1>1, <1>2
  <1>4. \A j \in DOMAIN T : j = 1 \/ (j - 1 \in DOMAIN U /\ U[j - 1] = T[j])
    BY <1>1, <1>2
  <1>5. Genuine(U) /\ Head(T).key[3] = Head(T).prompt
    BY <1>1, <1>2, <1>3 DEF Genuine
  <1>6. ASSUME NEW j \in DOMAIN U, U[j].do = "upload"
        PROVE  \/ U[j].key \in paid
               \/ Head(T).do = "draw" /\ Head(T).key = U[j].key
               \/ \E i \in DOMAIN U : i < j /\ U[i].do = "draw" /\ U[i].key = U[j].key
    <2>1. \/ U[j].key \in paid
          \/ \E i \in DOMAIN T : i < j + 1 /\ T[i].do = "draw" /\ T[i].key = U[j].key
      BY <1>3, <1>6 DEF Ordered
    <2>2. ASSUME NEW i \in DOMAIN T, i < j + 1, T[i].do = "draw", T[i].key = U[j].key, i # 1
          PROVE  \E h \in DOMAIN U : h < j /\ U[h].do = "draw" /\ U[h].key = U[j].key
      <3>1. i - 1 \in DOMAIN U /\ U[i - 1] = T[i] /\ i - 1 < j
        BY <1>1, <1>2, <1>4, <2>2
      <3> QED
        BY <2>2, <3>1
    <2> QED
      BY <1>2, <2>1, <2>2
  <1>7. Head(T).do = "draw" => Ordered(U, paid \cup {Head(T).key})
    BY <1>6 DEF Ordered
  <1>8. Head(T).do = "upload" => Head(T).key \in paid /\ Ordered(U, paid)
    <2> HAVE Head(T).do = "upload"
    <2>1. Ordered(U, paid)
      BY <1>6 DEF Ordered
    <2>2. ~ \E i \in DOMAIN T : i < 1
      BY <1>1
    <2> QED
      BY <1>1, <1>2, <2>1, <2>2 DEF Ordered
  <1>9. ASSUME NEW k, Uploads(T, k)
        PROVE  Uploads(U, k) \/ (Head(T).do = "upload" /\ Head(T).key = k)
    <2>1. PICK j \in DOMAIN T : T[j].do = "upload" /\ T[j].key = k
      BY <1>9 DEF Uploads
    <2> QED
      BY <1>2, <1>4, <2>1 DEF Uploads
  <1>10. U = <<>> => \A k : ~Uploads(U, k)
    BY DEF Uploads
  <1> QED
    BY <1>2, <1>5, <1>7, <1>8, <1>9, <1>10 DEF U

\* An empty list.
LEMMA NoTasks == <<>> \in Seq(Task) /\ Genuine(<<>>) /\ \A paid : Ordered(<<>>, paid)
  BY DEF Genuine, Ordered

\* What is paid stays paid.
LEMMA StaysOrdered ==
  ASSUME NEW T, NEW paid, NEW more, paid \subseteq more, Ordered(T, paid)
  PROVE  Ordered(T, more)
  BY DEF Ordered

\* What a run makes of a plan is what it uploads.
LEMMA PlanIs ==
  ASSUME NEW f \in Flow, NEW p \in Plans
  PROVE  LET T == PlanTasks(f, p)
         IN  /\ T \in Seq(Task) /\ T # <<>> /\ Ordered(T, {}) /\ Genuine(T)
             /\ Made(f, p) \in Work /\ Matched(Made(f, p))
             /\ \A k \in Keys(Made(f, p)) : k \in Key /\ Uploads(T, k)
  <1> DEFINE T == PlanTasks(f, p)
             g == p.gallery
             n == Len(g)
             c == <<p.cover>>
             all == c \o g
             first == FirstOfGallery(f)
             url(i) == ObjectKey("batch", first + i - 1, g[i])
  <1>1. p.cover \in Prompt /\ g \in Seq(Prompt) /\ n \in 0..2 /\ DOMAIN g = 1..n /\ \A i \in 1..n : g[i] \in Prompt
    BY ArtifactsAssumption DEF Slots
  <1>2. "batch" \in Folder
    BY DEF Folder
  <1>3. c \in Seq(Prompt) /\ Len(c) = 1 /\ c[1] = p.cover /\ 1 \in DOMAIN c /\ c # <<>>
    BY <1>1
  <1> HIDE DEF g, n, c
  <1>4. all \in Seq(Prompt) /\ Len(all) = n + 1 /\ all # <<>> /\ all[1] = p.cover /\ \A i \in 1..n : all[i + 1] = g[i]
    <2>1. all \in Seq(Prompt) /\ Len(all) = 1 + n /\ \A i \in 1..(1 + n) : all[i] = IF i <= 1 THEN c[i] ELSE g[i - 1]
      BY <1>1, <1>3, ConcatProperties DEF n
    <2> HIDE DEF all
    <2> QED
      BY <1>1, <1>3, <2>1, EmptySeq
  <1> HIDE DEF all
  <1>5. /\ first \in {0, 1}
        /\ \A i \in 1..n : first + i - 1 \in Slots
        /\ 0 \in Slots
    <2>1. first = 0 \/ first = 1
      BY DEF FirstOfGallery
    <2> HIDE DEF first
    <2> QED
      BY <1>1, <2>1 DEF Slots
  <1> HIDE DEF first
  <1>6. /\ ObjectKey("batch", 0, p.cover) \in Key /\ ObjectKey("batch", 0, p.cover)[3] = p.cover
        /\ \A i \in 1..n : url(i) \in Key /\ url(i)[3] = g[i]
    BY <1>1, <1>2, <1>5, KeyIs
  <1> HIDE DEF url
  <1>7. Made(f, p) = [cover |-> p.cover, cover_url |-> ObjectKey("batch", 0, p.cover),
                      prompts |-> g, urls |-> [i \in 1..n |-> url(i)]]
    BY <1>1 DEF Made, g, url, first
  <1>8. [i \in 1..n |-> url(i)] \in Seq(Key) /\ Len([i \in 1..n |-> url(i)]) = n
    <2>1. [i \in 1..n |-> url(i)] \in [1..n -> Key]
      BY <1>6
    <2> QED
      BY <1>1, <2>1
  <1>9. Made(f, p) \in Work
    BY <1>1, <1>6, <1>7, <1>8 DEF Work
  <1>10. Matched(Made(f, p))
    BY <1>1, <1>6, <1>7, <1>8 DEF Matched, n
  <1>11. Keys(Made(f, p)) = {ObjectKey("batch", 0, p.cover)} \cup {url(i) : i \in 1..n}
    BY <1>7, <1>8 DEF Keys
  <1>12. CASE f = "original with references"
    <2> DEFINE S == Tasks("batch", c)
               U == Tasks("batch", g)
    <2>1. T = S \o U /\ first = 0
      BY <1>12 DEF PlanTasks, c, g, first, FirstOfGallery
    <2>2. S \in Seq(Task) /\ S # <<>> /\ Ordered(S, {}) /\ Genuine(S)
          /\ \A i \in DOMAIN c : Uploads(S, ObjectKey("batch", i - 1, c[i]))
      <3>1. Len(c) <= 3
        BY <1>3
      <3> QED
        BY <1>2, <1>3, <3>1, TasksAre
    <2>3. U \in Seq(Task) /\ Ordered(U, {}) /\ Genuine(U) /\ \A i \in 1..n : Uploads(U, ObjectKey("batch", i - 1, g[i]))
      BY <1>1, <1>2, TasksAre DEF n
    <2> HIDE DEF S, U, T
    <2>4. T \in Seq(Task) /\ T # <<>> /\ Ordered(T, {}) /\ Genuine(T) /\ \A k : Uploads(S, k) \/ Uploads(U, k) => Uploads(T, k)
      BY <2>1, <2>2, <2>3, TasksConcatenate
    <2>5. Uploads(S, ObjectKey("batch", 0, p.cover))
      <3>1. Uploads(S, ObjectKey("batch", 1 - 1, c[1]))
        BY <1>3, <2>2
      <3> QED
        BY <1>3, <3>1
    <2>6. \A i \in 1..n : url(i) = ObjectKey("batch", i - 1, g[i])
      BY <1>1, <2>1 DEF url
    <2>7. \A k \in Keys(Made(f, p)) : k \in Key /\ Uploads(T, k)
      BY <1>6, <1>11, <2>3, <2>4, <2>5, <2>6
    <2> QED
      BY <1>9, <1>10, <2>4, <2>7 DEF T
  <1>13. CASE f # "original with references"
    <2>1. T = Tasks("batch", all) /\ first = 1
      BY <1>13 DEF PlanTasks, c, g, all, first, FirstOfGallery
    <2>2. T \in Seq(Task) /\ T # <<>> /\ Ordered(T, {}) /\ Genuine(T)
          /\ \A i \in DOMAIN all : Uploads(T, ObjectKey("batch", i - 1, all[i]))
      BY <1>1, <1>2, <1>4, <2>1, TasksAre
    <2> HIDE DEF T
    <2>3. DOMAIN all = 1..(n + 1)
      BY <1>1, <1>4
    <2>4. Uploads(T, ObjectKey("batch", 0, p.cover))
      <3>1. 1 \in DOMAIN all /\ ObjectKey("batch", 1 - 1, all[1]) = ObjectKey("batch", 0, p.cover)
        BY <1>1, <1>4, <2>3
      <3> QED
        BY <2>2, <3>1
    <2>5. ASSUME NEW i \in 1..n
          PROVE  Uploads(T, url(i))
      <3>1. i + 1 \in DOMAIN all /\ (i + 1) - 1 = first + i - 1 /\ all[i + 1] = g[i]
        BY <1>1, <1>4, <2>1, <2>3
      <3>2. Uploads(T, ObjectKey("batch", (i + 1) - 1, all[i + 1]))
        BY <2>2, <3>1
      <3> QED
        BY <3>1, <3>2 DEF url
    <2>6. \A k \in Keys(Made(f, p)) : k \in Key /\ Uploads(T, k)
      BY <1>6, <1>11, <2>4, <2>5
    <2> QED
      BY <1>9, <1>10, <2>2, <2>6 DEF T
  <1> QED
    BY <1>12, <1>13

\* A list without one of its elements.
LEMMA WithoutIs ==
  ASSUME NEW S, NEW s \in Seq(S), NEW i \in DOMAIN s
  PROVE  /\ Without(s, i) \in Seq(S) /\ Len(Without(s, i)) = Len(s) - 1
         /\ \A j \in DOMAIN Without(s, i) : \E h \in DOMAIN s : Without(s, i)[j] = s[h]
  <1> DEFINE n == Len(s)
             before == SubSeq(s, 1, i - 1)
             after == SubSeq(s, i + 1, n)
             W == Without(s, i)
  <1>1. n \in Nat /\ DOMAIN s = 1..n /\ i \in 1..n /\ \A j \in 1..n : s[j] \in S
    BY LenProperties
  <1>2. before \in Seq(S) /\ Len(before) = i - 1 /\ \A j \in 1..(i - 1) : before[j] = s[j]
    <2>1. \A j \in 1..(i - 1) : s[j] \in S
      BY <1>1
    <2>2. /\ before \in Seq(S)
          /\ Len(before) = IF 1 <= i - 1 THEN (i - 1) - 1 + 1 ELSE 0
          /\ \A j \in 1..((i - 1) - 1 + 1) : before[j] = s[1 + j - 1]
      BY <1>1, <2>1, SubSeqProperties
    <2> HIDE DEF before
    <2> QED
      BY <1>1, <2>2
  <1>3. after \in Seq(S) /\ Len(after) = n - i /\ \A j \in 1..(n - i) : after[j] = s[i + j]
    <2>1. \A j \in (i + 1)..n : s[j] \in S
      BY <1>1
    <2>2. /\ after \in Seq(S)
          /\ Len(after) = IF i + 1 <= n THEN n - (i + 1) + 1 ELSE 0
          /\ \A j \in 1..(n - (i + 1) + 1) : after[j] = s[(i + 1) + j - 1]
      BY <1>1, <2>1, SubSeqProperties
    <2>3. n - (i + 1) + 1 = n - i /\ \A j \in 1..(n - i) : (i + 1) + j - 1 = i + j
      BY <1>1
    <2>4. Len(after) = n - i
      BY <1>1, <2>2
    <2> HIDE DEF after
    <2> QED
      BY <2>2, <2>3, <2>4
  <1>4. W = before \o after
    BY DEF Without
  <1> HIDE DEF W, before, after, n
  <1>5. /\ W \in Seq(S) /\ Len(W) = (i - 1) + (n - i)
        /\ \A j \in 1..((i - 1) + (n - i)) : W[j] = IF j <= i - 1 THEN before[j] ELSE after[j - (i - 1)]
    <2>1. /\ W \in Seq(S) /\ Len(W) = Len(before) + Len(after)
          /\ \A j \in 1..(Len(before) + Len(after)) :
               W[j] = IF j <= Len(before) THEN before[j] ELSE after[j - Len(before)]
      BY <1>2, <1>3, <1>4, ConcatProperties
    <2> QED
      BY <1>2, <1>3, <2>1
  <1>6. Len(W) = n - 1 /\ DOMAIN W = 1..(n - 1)
    BY <1>1, <1>5
  <1>7. ASSUME NEW j \in 1..(n - 1)
        PROVE  \E h \in DOMAIN s : W[j] = s[h]
    <2>1. CASE j <= i - 1
      <3>1. j \in DOMAIN s /\ W[j] = s[j]
        BY <1>1, <1>2, <1>5, <2>1
      <3> QED
        BY <3>1
    <2>2. CASE j > i - 1
      <3>1. j - (i - 1) \in 1..(n - i) /\ i + (j - (i - 1)) \in DOMAIN s
        BY <1>1, <2>2
      <3>2. W[j] = s[i + (j - (i - 1))]
        BY <1>1, <1>3, <1>5, <2>2, <3>1
      <3> QED
        BY <3>1, <3>2
    <2> QED
      BY <1>1, <2>1, <2>2
  <1> QED
    BY <1>5, <1>6, <1>7 DEF W, n

-----------------------------------------------------------------------------
(* The invariant.                                                            *)

SlotKey(r) == ObjectKey(EditFolder[r.index + 1], 0, r.prompt)

\* What a request has by the time it has come to its step: the artifact as it read
\* it, whose images are still stored, and the new image or the task to upload it.
ReqFit(r, stored, paid) ==
  /\ Ordered(r.tasks, paid) /\ Genuine(r.tasks)
  /\ r.at # "rest" => r.seen \in Artifact /\ Keys(r.seen) \subseteq stored
  /\ r.at = "work" => r.tasks # <<>> /\ (SlotKey(r) \in stored \/ Uploads(r.tasks, SlotKey(r)))
  /\ r.at = "store" => SlotKey(r) \in stored

ClientsFit == \A c \in Client : ReqFit(req[c], Stored, charged)

WorkerFit ==
  /\ at # "rest" => status = "running"
  /\ "images" \in done => status = "completed"
  /\ Ordered(tasks, charged) /\ Genuine(tasks)
  /\ at = "task" => tasks # <<>> /\ \A k \in Keys(Made(flow, plan)) : k \in Stored \/ Uploads(tasks, k)
  /\ at \in {"work", "upsert"} => Keys(Made(flow, plan)) \subseteq Stored

ObjectsFit == \A k \in Stored : objects[k] = k[3] /\ k \in charged

ShownFit ==
  /\ works # Absent => Keys(works) \subseteq Stored
  /\ art # Absent => Keys(art) \subseteq Stored

Published ==
  /\ at = "upsert" /\ ~lost => works = Made(flow, plan)
  /\ CompletedIsPublished

AInv == TypeOK /\ ClientsFit /\ WorkerFit /\ ObjectsFit /\ ShownFit /\ Published

\* As long as no client has itself mixed them up, the artifact, and whatever is read
\* of it, has prompts that match.
PairsFit ==
  ~mispaired =>
    /\ art # Absent => Matched(art)
    /\ \A c \in Client : req[c].at # "rest" => Matched(req[c].seen)

LEMMA SlotKeyIs ==
  ASSUME NEW r \in Request
  PROVE  SlotKey(r) \in Key /\ SlotKey(r)[3] = r.prompt
  <1>1. r.prompt \in Prompt /\ r.index \in 0..2
    BY DEF Request, Slots
  <1>2. EditFolder[r.index + 1] \in Folder
    <2>1. r.index + 1 \in {1, 2, 3}
      BY <1>1
    <2>2. EditFolder[1] = "slot 0" /\ EditFolder[2] = "slot 1" /\ EditFolder[3] = "slot 2"
      BY DEF EditFolder
    <2> QED
      BY <2>1, <2>2 DEF Folder
  <1>3. 0 \in Slots
    BY DEF Slots
  <1> QED
    BY <1>1, <1>2, <1>3, KeyIs DEF SlotKey

LEMMA NoRequestIs == NoRequest \in Request /\ \A stored, paid : ReqFit(NoRequest, stored, paid)
  <1>1. NoRequest \in Request
    BY ArtifactsAssumption, NoTasks DEF NoRequest, Request, Slots
  <1>2. NoRequest.at = "rest" /\ NoRequest.tasks = <<>>
    BY DEF NoRequest
  <1> QED
    BY <1>1, <1>2, NoTasks DEF ReqFit

\* More is stored and paid for: a request fits as before.
LEMMA ReqFitStays ==
  ASSUME NEW r, NEW stored, NEW paid, NEW moreStored, NEW morePaid,
         stored \subseteq moreStored, paid \subseteq morePaid, ReqFit(r, stored, paid)
  PROVE  ReqFit(r, moreStored, morePaid)
  <1>1. Ordered(r.tasks, morePaid)
    BY StaysOrdered DEF ReqFit
  <1> QED
    BY <1>1 DEF ReqFit

\* A row written from what was made, or from a row that was read and changed.
LEMMA RowIs ==
  ASSUME NEW id \in Nat, NEW text \in Text, NEW made,
         made.cover \in Prompt, made.cover_url \in Key, made.prompts \in Seq(Prompt), made.urls \in Seq(Key)
  PROVE  /\ Row(id, text, made) \in Artifact /\ Row(id, text, made).id = id
         /\ Keys(Row(id, text, made)) = Keys(made)
         /\ Matched(made) <=> Matched(Row(id, text, made))
  BY DEF Row, Artifact, Keys, Matched

\* A task is done.
LEMMA Doing ==
  ASSUME ObjectsFit, objects \in [Key -> Prompt \cup {Absent}], charged \subseteq Key,
         NEW T \in Seq(Task), T # <<>>, Ordered(T, charged), Genuine(T), Does(Head(T))
  PROVE  /\ objects' \in [Key -> Prompt \cup {Absent}] /\ charged' \subseteq Key
         /\ ObjectsFit' /\ Stored \subseteq Stored' /\ charged \subseteq charged'
         /\ Tail(T) \in Seq(Task) /\ Ordered(Tail(T), charged') /\ Genuine(Tail(T))
         /\ \A k \in Key : k \in Stored \/ Uploads(T, k) => k \in Stored' \/ Uploads(Tail(T), k)
         /\ Tail(T) = <<>> => \A k \in Key : k \in Stored \/ Uploads(T, k) => k \in Stored'
  <1> DEFINE h == Head(T)
  <1>1. /\ h \in Task /\ Tail(T) \in Seq(Task) /\ Genuine(Tail(T)) /\ h.key[3] = h.prompt
        /\ h.do = "draw" => Ordered(Tail(T), charged \cup {h.key})
        /\ h.do = "upload" => h.key \in charged /\ Ordered(Tail(T), charged)
        /\ \A k : Uploads(T, k) => Uploads(Tail(T), k) \/ (h.do = "upload" /\ h.key = k)
        /\ Tail(T) = <<>> => \A k : ~Uploads(Tail(T), k)
    BY TaskDone
  <1>2. Does(h)
    OBVIOUS
  <1> HIDE DEF h
  <1>3. h.key \in Key /\ h.prompt \in Prompt /\ h.do \in {"draw", "upload"} /\ h.prompt # Absent
    BY <1>1, ArtifactsAssumption DEF Task
  <1>4. CASE h.do = "draw"
    <2>1. charged' = charged \cup {h.key} /\ objects' = objects
      BY <1>2, <1>4 DEF Does
    <2>2. Stored' = Stored
      BY <2>1 DEF Stored
    <2> QED
      BY <1>1, <1>3, <1>4, <2>1, <2>2 DEF ObjectsFit
  <1>5. CASE h.do = "upload"
    <2>1. objects' = [objects EXCEPT ![h.key] = h.prompt] /\ charged' = charged
      BY <1>2, <1>5 DEF Does
    <2>2. /\ objects' \in [Key -> Prompt \cup {Absent}]
          /\ \A k \in Key : objects'[k] = IF k = h.key THEN h.prompt ELSE objects[k]
      BY <1>3, <2>1
    <2>3. Stored' = Stored \cup {h.key}
      BY <1>3, <2>2 DEF Stored
    <2>4. ObjectsFit'
      BY <1>1, <1>3, <1>5, <2>1, <2>2, <2>3 DEF ObjectsFit, Stored
    <2> QED
      BY <1>1, <1>3, <1>5, <2>1, <2>2, <2>3, <2>4
  <1> QED
    BY <1>3, <1>4, <1>5

-----------------------------------------------------------------------------
(* The run keeps the invariant.                                              *)

LEMMA InitInv == Init => AInv
  <1> SUFFICES ASSUME Init PROVE AInv
    OBVIOUS
  <1> USE ArtifactsAssumption
  <1>1. Stored = {}
    BY DEF Init, Stored
  <1>2. TypeOK
    <2>1. /\ done = {} /\ tasks = <<>> /\ charged = {} /\ plan = Absent /\ works = Absent /\ art = Absent
          /\ ids = 0 /\ faults = 0 /\ crashes = 0 /\ requests = 0
          /\ flow \in Flow /\ status = "absent" /\ at = "rest" /\ resumed = FALSE
          /\ touched = FALSE /\ lost = FALSE /\ mispaired = FALSE
          /\ objects \in [Key -> Prompt \cup {Absent}] /\ req \in [Client -> Request]
      BY NoRequestIs DEF Init
    <2>2. faults \in 0..MaxFaults /\ crashes \in 0..MaxCrashes /\ requests \in 0..MaxRequests
      BY <2>1
    <2>3. /\ done \subseteq Node /\ tasks \in Seq(Task) /\ charged \subseteq Key /\ ids \in Nat
          /\ plan \in Plans \cup {Absent} /\ works \in Work \cup {Absent} /\ art \in Artifact \cup {Absent}
      BY <2>1, NoTasks
    <2> QED
      BY <2>1, <2>2, <2>3 DEF TypeOK
  <1>3. ClientsFit
    BY NoRequestIs DEF Init, ClientsFit
  <1>4. WorkerFit /\ ObjectsFit /\ ShownFit /\ Published
    BY <1>1, NoTasks DEF Init, WorkerFit, ObjectsFit, ShownFit, Published, CompletedIsPublished
  <1> QED
    BY <1>2, <1>3, <1>4 DEF AInv

LEMMA ProceedIs ==
  ASSUME NEW D, Proceed(D)
  PROVE  /\ at' \in {"rest", "fetch", "copy", "images"} /\ status' \in {"running", "completed"}
         /\ at' # "rest" => status' = "running"
         /\ Node \subseteq D <=> status' = "completed"
  BY DEF Proceed

\* Nothing that is stored, paid, shown or asked for changes.
LEMMA ShownStays ==
  ASSUME AInv, UNCHANGED <<flow, works, art, ids, objects, charged, req, touched, lost, mispaired>>
  PROVE  ClientsFit' /\ ObjectsFit' /\ ShownFit' /\ Stored' = Stored
  <1>1. Stored' = Stored
    BY DEF Stored
  <1> QED
    BY <1>1 DEF AInv, ClientsFit, ObjectsFit, ShownFit

Bounded == faults \in 0..MaxFaults /\ crashes \in 0..MaxCrashes /\ requests \in 0..MaxRequests

LEMMA FaultIs == ASSUME AInv, Fault PROVE Bounded'
  BY ArtifactsAssumption DEF AInv, TypeOK, Fault, Bounded

\* The worker goes to a node or rests, before the run has completed.
LEMMA QuietMove ==
  ASSUME AInv, UNCHANGED <<flow, works, art, ids, objects, charged, req, touched, lost, mispaired>>, Bounded',
         status' \in {"running", "blocked", "failed"}, at' \in {"rest", "fetch", "copy", "images"},
         at' # "rest" => status' = "running",
         done' \subseteq Node, "images" \notin done', resumed' \in BOOLEAN,
         plan' \in Plans \cup {Absent}, tasks' = <<>> \/ tasks' = tasks
  PROVE  AInv'
  <1>1. ClientsFit' /\ ObjectsFit' /\ ShownFit' /\ Stored' = Stored
    BY ShownStays
  <1>2. tasks' \in Seq(Task) /\ Ordered(tasks', charged') /\ Genuine(tasks')
    BY NoTasks DEF AInv, TypeOK, WorkerFit
  <1>3. TypeOK'
    BY <1>2 DEF AInv, TypeOK, Bounded
  <1>4. WorkerFit'
    BY <1>2 DEF WorkerFit
  <1>5. Published'
    BY DEF Published, CompletedIsPublished
  <1> QED
    BY <1>1, <1>3, <1>4, <1>5 DEF AInv

LEMMA PostRunInv == ASSUME AInv, PostRun PROVE AInv'
  <1> DEFINE D == IF resumed THEN done ELSE {}
  <1>1. Proceed(D) /\ UNCHANGED <<flow, done, resumed, plan, tasks, works, art, ids, objects, charged, req, touched, lost, mispaired, bounds>>
    BY DEF PostRun
  <1>2. "images" \notin done /\ ~(Node \subseteq D)
    BY DEF PostRun, AInv, WorkerFit, Node
  <1>3. status' = "running" /\ at' \in {"rest", "fetch", "copy", "images"}
    BY <1>1, <1>2, ProceedIs
  <1>4. Bounded' /\ done' \subseteq Node /\ resumed' \in BOOLEAN /\ plan' \in Plans \cup {Absent}
    BY <1>1 DEF AInv, TypeOK, Bounded, bounds
  <1> QED
    BY <1>1, <1>2, <1>3, <1>4, QuietMove

LEMMA ResumeRunInv == ASSUME AInv, ResumeRun PROVE AInv'
  <1>1. /\ Proceed(done) /\ resumed'
        /\ UNCHANGED <<flow, done, plan, tasks, works, art, ids, objects, charged, req, touched, lost, mispaired, bounds>>
    BY DEF ResumeRun
  <1>2. "images" \notin done /\ ~(Node \subseteq done)
    BY DEF ResumeRun, AInv, WorkerFit, Node
  <1>3. status' = "running" /\ at' \in {"rest", "fetch", "copy", "images"}
    BY <1>1, <1>2, ProceedIs
  <1>4. Bounded' /\ done' \subseteq Node /\ resumed' \in BOOLEAN /\ plan' \in Plans \cup {Absent}
    BY <1>1 DEF AInv, TypeOK, Bounded, bounds, ResumeRun
  <1> QED
    BY <1>1, <1>2, <1>3, <1>4, QuietMove

LEMMA BreaksInv ==
  ASSUME AInv, at # "rest", Breaks, UNCHANGED <<flow, works, art, ids, objects, charged, req, touched, lost, mispaired>>
  PROVE  AInv'
  <1>1. "images" \notin done
    BY DEF AInv, WorkerFit
  <1>2. Bounded'
    BY FaultIs DEF Breaks
  <1>3. done' \subseteq Node /\ resumed' \in BOOLEAN /\ done' = done
    BY DEF AInv, TypeOK, Breaks
  <1> QED
    BY <1>1, <1>2, <1>3, QuietMove DEF Breaks, Forget

\* A node is recorded, and the run goes on or has completed.
LEMMA SavedIs ==
  ASSUME AInv, at # "rest", NEW n \in Node, Saved(n)
  PROVE  /\ done' \subseteq Node /\ resumed' = resumed /\ plan' = Absent /\ tasks' = <<>>
         /\ at' \in {"rest", "fetch", "copy", "images"} /\ status' \in {"running", "completed"}
         /\ at' # "rest" => status' = "running"
         /\ IF n = "images" THEN status' = "completed"
            ELSE status' = "running" /\ "images" \notin done'
  <1> DEFINE D == UpTo[n] \cup (IF resumed THEN done ELSE {})
  <1>1. "images" \notin done /\ done \subseteq Node
    BY DEF AInv, TypeOK, WorkerFit
  <1>2. Proceed(D) /\ done' = done \cup {n} /\ resumed' = resumed /\ plan' = Absent /\ tasks' = <<>>
    BY DEF Saved, Forget
  <1>3. Node \subseteq D <=> n = "images"
    BY <1>1 DEF UpTo, Node
  <1>4. /\ at' \in {"rest", "fetch", "copy", "images"} /\ status' \in {"running", "completed"}
        /\ at' # "rest" => status' = "running"
        /\ Node \subseteq D <=> status' = "completed"
    BY <1>2, ProceedIs
  <1> QED
    BY <1>1, <1>2, <1>3, <1>4

LEMMA NodesInv ==
  ASSUME AInv, Fetch \/ Copy, UNCHANGED <<flow, works, art, ids, objects, charged, req, touched, lost, mispaired>>
  PROVE  AInv'
  <1>1. CASE Breaks
    BY <1>1, BreaksInv DEF Fetch, Copy
  <1>2. ASSUME NEW n \in {"fetch", "copy"}, at = n, Saved(n), UNCHANGED bounds
        PROVE  AInv'
    <2>1. n \in Node /\ n # "images" /\ at # "rest"
      BY <1>2 DEF Node
    <2>2. /\ done' \subseteq Node /\ "images" \notin done' /\ resumed' = resumed /\ plan' = Absent /\ tasks' = <<>>
          /\ at' \in {"rest", "fetch", "copy", "images"} /\ status' = "running"
      BY <1>2, <2>1, SavedIs
    <2>3. Bounded' /\ resumed' \in BOOLEAN
      BY <1>2, <2>2 DEF AInv, TypeOK, Bounded, bounds
    <2> QED
      BY <2>2, <2>3, QuietMove
  <1> QED
    BY <1>1, <1>2 DEF Fetch, Copy

LEMMA PromptsInv ==
  ASSUME AInv, Prompts, UNCHANGED <<flow, works, art, ids, objects, charged, req, touched, lost, mispaired>>
  PROVE  AInv'
  <1>1. CASE Breaks
    BY <1>1, BreaksInv DEF Prompts
  <1>2. ASSUME NEW p \in Plans, plan' = p, tasks' = PlanTasks(flow, p), at' = "task",
               UNCHANGED <<status, done, resumed, bounds>>
        PROVE  AInv'
    <2>1. ClientsFit' /\ ObjectsFit' /\ ShownFit' /\ Stored' = Stored
      BY ShownStays
    <2>2. flow \in Flow /\ status = "running" /\ "images" \notin done
      BY DEF AInv, TypeOK, WorkerFit, Prompts
    <2>3. /\ tasks' \in Seq(Task) /\ tasks' # <<>> /\ Ordered(tasks', {}) /\ Genuine(tasks')
          /\ \A k \in Keys(Made(flow, p)) : Uploads(tasks', k)
      BY <1>2, <2>2, PlanIs
    <2>4. Ordered(tasks', charged')
      BY <2>3, StaysOrdered
    <2>5. TypeOK'
      BY <1>2, <2>3, ArtifactsAssumption DEF AInv, TypeOK, bounds
    <2>6. WorkerFit'
      BY <1>2, <2>2, <2>3, <2>4 DEF WorkerFit
    <2>7. Published'
      BY <1>2, <2>2 DEF Published, CompletedIsPublished
    <2> QED
      BY <2>1, <2>5, <2>6, <2>7 DEF AInv
  <1> QED
    BY <1>1, <1>2 DEF Prompts

\* More is stored and paid for: clients and what is shown fit as before.
LEMMA MoreIsStored ==
  ASSUME AInv, Stored \subseteq Stored', charged \subseteq charged', UNCHANGED <<works, art>>
  PROVE  ShownFit' /\ \A c \in Client : ReqFit(req[c], Stored', charged')
  <1>1. ShownFit'
    BY DEF AInv, ShownFit
  <1>2. ASSUME NEW c \in Client
        PROVE  ReqFit(req[c], Stored', charged')
    BY ReqFitStays DEF AInv, ClientsFit
  <1> QED
    BY <1>1, <1>2

LEMMA RunTaskInv ==
  ASSUME AInv, RunTask, UNCHANGED <<flow, works, art, ids, req, touched, lost, mispaired>>
  PROVE  AInv'
  <1>1. CASE Breaks /\ UNCHANGED <<objects, charged>>
    BY <1>1, BreaksInv DEF RunTask
  <1>2. CASE /\ Does(Head(tasks)) /\ tasks' = Tail(tasks) /\ at' = IF tasks' = <<>> THEN "work" ELSE "task"
             /\ UNCHANGED <<status, done, resumed, plan, bounds>>
    <2>1. /\ at = "task" /\ tasks \in Seq(Task) /\ tasks # <<>> /\ Ordered(tasks, charged) /\ Genuine(tasks)
          /\ \A k \in Keys(Made(flow, plan)) : k \in Stored \/ Uploads(tasks, k)
          /\ plan \in Plans /\ flow \in Flow /\ status = "running" /\ "images" \notin done
      BY DEF AInv, TypeOK, WorkerFit, RunTask
    <2>2. /\ objects' \in [Key -> Prompt \cup {Absent}] /\ charged' \subseteq Key
          /\ ObjectsFit' /\ Stored \subseteq Stored' /\ charged \subseteq charged'
          /\ tasks' \in Seq(Task) /\ Ordered(tasks', charged') /\ Genuine(tasks')
          /\ \A k \in Key : k \in Stored \/ Uploads(tasks, k) => k \in Stored' \/ Uploads(tasks', k)
          /\ tasks' = <<>> => \A k \in Key : k \in Stored \/ Uploads(tasks, k) => k \in Stored'
      BY <1>2, <2>1, Doing DEF AInv, TypeOK
    <2>3. \A k \in Keys(Made(flow, plan)) : k \in Key
      BY <2>1, PlanIs
    <2>4. ShownFit' /\ ClientsFit'
      BY <2>2, MoreIsStored DEF ClientsFit
    <2>5. TypeOK'
      BY <1>2, <2>1, <2>2 DEF AInv, TypeOK, bounds
    <2>6. WorkerFit'
      BY <1>2, <2>1, <2>2, <2>3 DEF WorkerFit
    <2>7. Published'
      BY <1>2, <2>1 DEF Published, CompletedIsPublished
    <2> QED
      BY <2>2, <2>4, <2>5, <2>6, <2>7 DEF AInv
  <1> QED
    BY <1>1, <1>2 DEF RunTask

LEMMA AppendWorkInv ==
  ASSUME AInv, AppendWork, UNCHANGED <<flow, art, ids, objects, charged, req, touched, mispaired>>
  PROVE  AInv'
  <1>1. CASE Breaks /\ UNCHANGED <<works, lost>>
    BY <1>1, BreaksInv DEF AppendWork
  <1>2. CASE /\ at' = "upsert" /\ UNCHANGED <<status, done, resumed, plan, tasks>>
             /\ Bounded'
             /\ (works' = Made(flow, plan) /\ UNCHANGED lost) \/ (lost' = TRUE /\ UNCHANGED works)
    <2>1. /\ at = "work" /\ plan \in Plans /\ flow \in Flow /\ status = "running" /\ "images" \notin done
          /\ Keys(Made(flow, plan)) \subseteq Stored
      BY DEF AInv, TypeOK, WorkerFit, AppendWork
    <2>2. Made(flow, plan) \in Work
      BY <2>1, PlanIs
    <2>3. Stored' = Stored /\ ClientsFit' /\ ObjectsFit'
      <3>1. Stored' = Stored
        BY DEF Stored
      <3> QED
        BY <3>1 DEF AInv, ClientsFit, ObjectsFit
    <2>4. ShownFit'
      BY <1>2, <2>1, <2>3 DEF AInv, ShownFit
    <2>5. TypeOK'
      BY <1>2, <2>1, <2>2 DEF AInv, TypeOK, Bounded
    <2>6. WorkerFit'
      BY <1>2, <2>1, <2>3 DEF AInv, WorkerFit
    <2>7. Published'
      BY <1>2, <2>1 DEF Published, CompletedIsPublished
    <2> QED
      BY <2>3, <2>4, <2>5, <2>6, <2>7 DEF AInv
  <1>3. UNCHANGED bounds => Bounded'
    BY DEF AInv, TypeOK, Bounded, bounds
  <1> QED
    BY <1>1, <1>2, <1>3, FaultIs DEF AppendWork

LEMMA WriteArtifactInv ==
  ASSUME AInv, WriteArtifact, UNCHANGED <<flow, works, objects, charged, req, mispaired>>
  PROVE  AInv'
  <1>1. CASE Breaks /\ UNCHANGED <<art, ids, touched, lost>>
    BY <1>1, BreaksInv DEF WriteArtifact
  <1>2. /\ at = "upsert" /\ plan \in Plans /\ flow \in Flow /\ status = "running"
        /\ Keys(Made(flow, plan)) \subseteq Stored
        /\ ~lost => works = Made(flow, plan)
    BY DEF AInv, TypeOK, WorkerFit, Published, WriteArtifact
  <1>3. Made(flow, plan) \in Work /\ Matched(Made(flow, plan)) /\ Made(flow, plan) # Absent
    BY <1>2, PlanIs, ArtifactsAssumption
  <1>4. Stored' = Stored /\ ClientsFit' /\ ObjectsFit'
    <2>1. Stored' = Stored
      BY DEF Stored
    <2> QED
      BY <2>1 DEF AInv, ClientsFit, ObjectsFit
  <1>5. UNCHANGED bounds => Bounded'
    BY DEF AInv, TypeOK, Bounded, bounds
  <1>6. ASSUME Saved("images"), Bounded', lost' \in BOOLEAN, lost => lost',
               \/ /\ ids' \in Nat /\ art' = Row(ids', "the run's", Made(flow, plan)) /\ touched' = FALSE
               \/ lost' /\ UNCHANGED <<art, ids, touched>>
        PROVE  AInv'
    <2>1. /\ done' \subseteq Node /\ resumed' = resumed /\ plan' = Absent /\ tasks' = <<>>
          /\ at' \in {"rest", "fetch", "copy", "images"} /\ status' = "completed" /\ at' = "rest"
      BY <1>2, <1>6, SavedIs DEF Node
    <2>2. ASSUME ids' \in Nat, art' = Row(ids', "the run's", Made(flow, plan))
          PROVE  art' \in Artifact /\ art'.id = ids' /\ Keys(art') \subseteq Stored
      <3> DEFINE made == Made(flow, plan)
      <3>1. made.cover \in Prompt /\ made.cover_url \in Key /\ made.prompts \in Seq(Prompt) /\ made.urls \in Seq(Key)
        BY <1>3 DEF Work
      <3>2. "the run's" \in Text
        BY DEF Text
      <3> HIDE DEF made
      <3> QED
        BY <1>2, <1>3, <2>2, <3>1, <3>2, RowIs DEF made
    <2>3. art' \in Artifact \cup {Absent} /\ (art' # Absent => art'.id = ids') /\ ids' \in Nat /\ touched' \in BOOLEAN
      BY <1>6, <2>2 DEF AInv, TypeOK
    <2>4. TypeOK'
      BY <1>2, <1>6, <2>1, <2>3, NoTasks DEF AInv, TypeOK, Bounded
    <2>5. WorkerFit'
      BY <2>1, NoTasks DEF WorkerFit
    <2>6. ShownFit'
      BY <1>4, <1>6, <2>2 DEF AInv, ShownFit
    <2>7. Published'
      BY <1>2, <1>3, <1>6, <2>1 DEF Published, CompletedIsPublished
    <2> QED
      BY <1>4, <2>4, <2>5, <2>6, <2>7 DEF AInv
  <1>7. ids \in Nat /\ lost \in BOOLEAN
    BY DEF AInv, TypeOK
  <1>8. CASE /\ ids' = (IF art = Absent THEN ids + 1 ELSE ids)
             /\ art' = Row(ids', "the run's", Made(flow, plan))
             /\ touched' = FALSE
             /\ Saved("images") /\ UNCHANGED <<lost, bounds>>
    <2>1. ids' \in Nat
      <3>1. ids' = ids + 1 \/ ids' = ids
        BY <1>8
      <3> QED
        BY <1>7, <3>1
    <2>2. UNCHANGED bounds /\ lost' = lost
      BY <1>8
    <2>3. Bounded'
      BY <1>5, <2>2
    <2>4. lost' \in BOOLEAN /\ (lost => lost')
      BY <1>7, <2>2
    <2> QED
      BY <1>6, <1>8, <2>1, <2>2, <2>3, <2>4
  <1>9. CASE Fault /\ lost' = TRUE /\ Saved("images") /\ UNCHANGED <<art, ids, touched>>
    BY <1>6, <1>9, FaultIs
  <1> QED
    BY <1>1, <1>8, <1>9 DEF WriteArtifact

-----------------------------------------------------------------------------
(* The clients keep it.                                                      *)

\* The worker stands still, and nobody takes an image away.
LEMMA ClientMove ==
  ASSUME AInv, UNCHANGED <<flow, run, works, ids, lost>>, Bounded', mispaired' \in {mispaired, TRUE, FALSE},
         objects' \in [Key -> Prompt \cup {Absent}], charged' \subseteq Key, ObjectsFit',
         Stored \subseteq Stored', charged \subseteq charged',
         req' \in [Client -> Request], ClientsFit',
         \/ UNCHANGED <<art, touched>>
         \/ touched' = TRUE /\ art' = Absent
         \/ touched' = TRUE /\ art' \in Artifact /\ art'.id = ids /\ Keys(art') \subseteq Stored'
  PROVE  AInv'
  <1>1. UNCHANGED <<status, done, resumed, at, plan, tasks>>
    BY DEF run
  <1>2. TypeOK'
    <2>1. art' \in Artifact \cup {Absent} /\ (art' # Absent => art'.id = ids')
          /\ touched' \in BOOLEAN /\ mispaired' \in BOOLEAN
      BY DEF AInv, TypeOK
    <2> QED
      BY <1>1, <2>1 DEF AInv, TypeOK, Bounded
  <1>3. WorkerFit'
    <2>1. Ordered(tasks, charged')
      BY StaysOrdered DEF AInv, WorkerFit
    <2>2. UNCHANGED <<flow, status, done, at, plan, tasks>>
      BY <1>1
    <2> QED
      BY <2>1, <2>2 DEF AInv, WorkerFit
  <1>4. ShownFit'
    BY DEF AInv, ShownFit
  <1>5. Published'
    BY <1>1 DEF AInv, Published, CompletedIsPublished
  <1> QED
    BY <1>2, <1>3, <1>4, <1>5 DEF AInv

\* One client's request changes.
LEMMA OneRequest ==
  ASSUME AInv, NEW c \in Client, NEW r \in Request, ReqFit(r, Stored', charged'),
         Stored \subseteq Stored', charged \subseteq charged', req' = [req EXCEPT ![c] = r]
  PROVE  req' \in [Client -> Request] /\ ClientsFit'
  <1>1. req \in [Client -> Request]
    BY DEF AInv, TypeOK
  <1>2. ASSUME NEW d \in Client
        PROVE  ReqFit(req'[d], Stored', charged')
    <2>1. CASE d = c
      BY <1>1, <2>1
    <2>2. CASE d # c
      <3>1. req'[d] = req[d] /\ ReqFit(req[d], Stored, charged)
        BY <1>1, <2>2 DEF AInv, ClientsFit
      <3> QED
        BY <3>1, ReqFitStays
    <2> QED
      BY <2>1, <2>2
  <1> QED
    BY <1>1, <1>2 DEF ClientsFit

\* It writes the artifact, or nothing, and is done.
LEMMA WritesArtifact ==
  ASSUME AInv, NEW c \in Client, UNCHANGED <<flow, run, works, lost, ids, objects, charged, bounds>>,
         mispaired' \in {mispaired, TRUE, FALSE}, Answered(c),
         \/ UNCHANGED <<art, touched>>
         \/ touched' = TRUE /\ art' \in Artifact /\ art'.id = ids /\ Keys(art') \subseteq Stored
  PROVE  AInv'
  <1>1. Stored' = Stored /\ ObjectsFit'
    BY DEF Stored, AInv, ObjectsFit
  <1>2. Bounded'
    BY DEF AInv, TypeOK, Bounded, bounds
  <1>3. req' \in [Client -> Request] /\ ClientsFit'
    BY <1>1, NoRequestIs, OneRequest DEF Answered
  <1>4. objects' \in [Key -> Prompt \cup {Absent}] /\ charged' \subseteq Key
    BY DEF AInv, TypeOK
  <1> QED
    BY <1>1, <1>2, <1>3, <1>4, ClientMove

\* A row written from what client c has read, changed by it.
LEMMA Rewritten ==
  ASSUME AInv, NEW c \in Client, req[c].at # "rest", art # Absent, art.id = req[c].seen.id,
         NEW text \in Text, NEW made,
         made.cover \in Prompt, made.cover_url \in Key, made.prompts \in Seq(Prompt), made.urls \in Seq(Key),
         Keys(made) \subseteq Stored,
         art' = Row(req[c].seen.id, text, made)
  PROVE  art' \in Artifact /\ art'.id = ids /\ Keys(art') \subseteq Stored
  <1>1. req[c].seen.id \in Nat /\ req[c].seen.id = ids
    BY DEF AInv, TypeOK, ClientsFit, ReqFit, Artifact
  <1> QED
    BY <1>1, RowIs

LEMMA ReadArtifactInv == ASSUME AInv, NEW c \in Client, ReadArtifact(c) PROVE AInv'
  <1> DEFINE r == [req[c] EXCEPT !.at = "edit", !.seen = art]
  <1>1. req \in [Client -> Request] /\ req[c] \in Request /\ art \in Artifact /\ ReqFit(req[c], Stored, charged)
    BY DEF AInv, TypeOK, ClientsFit, ReadArtifact
  <1>2. r \in Request /\ r.at = "edit" /\ r.seen = art /\ r.tasks = req[c].tasks
    BY <1>1 DEF Request
  <1>3. req' = [req EXCEPT ![c] = r]
    BY <1>1 DEF ReadArtifact
  <1>4. UNCHANGED <<Other, art, ids, objects, charged, touched>>
    BY DEF ReadArtifact
  <1>5. Stored' = Stored /\ ObjectsFit'
    BY <1>4 DEF Stored, AInv, ObjectsFit
  <1> HIDE DEF r
  <1>6. ReqFit(r, Stored', charged')
    BY <1>1, <1>2, <1>4, <1>5 DEF ReqFit, AInv, ShownFit, ReadArtifact
  <1>7. req' \in [Client -> Request] /\ ClientsFit'
    BY <1>2, <1>3, <1>4, <1>5, <1>6, OneRequest
  <1>8. Bounded'
    BY ArtifactsAssumption DEF AInv, TypeOK, Bounded, ReadArtifact, Asks
  <1>9. objects' \in [Key -> Prompt \cup {Absent}] /\ charged' \subseteq Key
    BY <1>4 DEF AInv, TypeOK
  <1>10. UNCHANGED <<flow, run, works, ids, lost, mispaired, art, touched, charged>>
    BY <1>4 DEF Other
  <1> QED
    BY <1>5, <1>7, <1>8, <1>9, <1>10, ClientMove

LEMMA DeleteArtifactInv == ASSUME AInv, DeleteArtifact PROVE AInv'
  <1>1. UNCHANGED <<Other, ids, objects, charged, req>> /\ art' = Absent /\ touched' = TRUE
    BY DEF DeleteArtifact
  <1>2. Stored' = Stored /\ ObjectsFit' /\ ClientsFit'
    <2>1. Stored' = Stored
      BY <1>1 DEF Stored
    <2> QED
      BY <1>1, <2>1 DEF AInv, ObjectsFit, ClientsFit
  <1>3. Bounded'
    BY ArtifactsAssumption DEF AInv, TypeOK, Bounded, DeleteArtifact, Asks
  <1>4. objects' \in [Key -> Prompt \cup {Absent}] /\ charged' \subseteq Key /\ req' \in [Client -> Request]
    BY <1>1 DEF AInv, TypeOK
  <1>5. UNCHANGED <<flow, run, works, ids, lost, mispaired, charged>>
    BY <1>1 DEF Other
  <1> QED
    BY <1>1, <1>2, <1>3, <1>4, <1>5, ClientMove

\* A row with an image in one of its slots that is there.
LEMMA RedrawnIs ==
  ASSUME NEW seen \in Artifact, NEW prompt \in Prompt, NEW url \in Key,
         NEW i \in {0} \cup (DOMAIN seen.urls \cap DOMAIN seen.prompts)
  PROVE  LET made == Redrawn(seen, i, prompt, url)
         IN  /\ made.id = seen.id /\ made.cover \in Prompt /\ made.cover_url \in Key
             /\ made.prompts \in Seq(Prompt) /\ made.urls \in Seq(Key)
             /\ Keys(made) \subseteq Keys(seen) \cup {url}
             /\ url[3] = prompt /\ Matched(seen) => Matched(made)
  <1> DEFINE made == Redrawn(seen, i, prompt, url)
  <1>1. seen.cover \in Prompt /\ seen.cover_url \in Key /\ seen.prompts \in Seq(Prompt) /\ seen.urls \in Seq(Key)
    BY DEF Artifact
  <1>2. CASE i = 0
    <2>1. /\ made.id = seen.id /\ made.cover = prompt /\ made.cover_url = url
          /\ made.prompts = seen.prompts /\ made.urls = seen.urls
      BY <1>2 DEF Redrawn, Artifact
    <2> HIDE DEF made
    <2>2. Keys(made) \subseteq Keys(seen) \cup {url}
      BY <2>1 DEF Keys
    <2>3. url[3] = prompt /\ Matched(seen) => Matched(made)
      BY <2>1 DEF Matched
    <2> QED
      BY <1>1, <2>1, <2>2, <2>3 DEF made
  <1>3. CASE i # 0
    <2>1. i \in DOMAIN seen.prompts /\ i \in DOMAIN seen.urls
      BY <1>3
    <2>2. /\ made.id = seen.id /\ made.cover = seen.cover /\ made.cover_url = seen.cover_url
          /\ made.prompts = [seen.prompts EXCEPT ![i] = prompt]
          /\ made.urls = [seen.urls EXCEPT ![i] = url]
      BY <1>3 DEF Redrawn, Artifact
    <2> HIDE DEF made
    <2>3. /\ made.prompts \in Seq(Prompt) /\ Len(made.prompts) = Len(seen.prompts)
          /\ \A j \in DOMAIN seen.prompts : made.prompts[j] = IF j = i THEN prompt ELSE seen.prompts[j]
      BY <1>1, <2>1, <2>2
    <2>4. /\ made.urls \in Seq(Key) /\ Len(made.urls) = Len(seen.urls) /\ DOMAIN made.urls = DOMAIN seen.urls
          /\ \A j \in DOMAIN seen.urls : made.urls[j] = IF j = i THEN url ELSE seen.urls[j]
      BY <1>1, <2>1, <2>2
    <2>5. Keys(made) \subseteq Keys(seen) \cup {url}
      BY <2>2, <2>4 DEF Keys
    <2>6. ASSUME url[3] = prompt, Matched(seen)
          PROVE  Matched(made)
      <3>1. made.cover_url[3] = made.cover
        BY <2>2, <2>6 DEF Matched
      <3>2. ASSUME Len(made.urls) = Len(made.prompts), NEW j \in DOMAIN made.urls
            PROVE  made.urls[j][3] = made.prompts[j]
        <4>1. j \in DOMAIN seen.urls /\ j \in DOMAIN seen.prompts /\ seen.urls[j][3] = seen.prompts[j]
          BY <1>1, <2>3, <2>4, <2>6, <3>2 DEF Matched
        <4> QED
          BY <2>3, <2>4, <2>6, <4>1
      <3> QED
        BY <3>1, <3>2 DEF Matched
    <2> QED
      BY <1>1, <2>2, <2>3, <2>4, <2>5, <2>6 DEF made
  <1> QED
    BY <1>2, <1>3

\* What a client may send shows images that are stored.
LEMMA EditsAre ==
  ASSUME NEW seen \in Artifact, Keys(seen) \subseteq Stored, NEW edited \in Edits(seen)
  PROVE  /\ edited.id = seen.id /\ edited.cover \in Prompt /\ edited.cover_url \in Key
         /\ edited.prompts \in Seq(Prompt) /\ edited.urls \in Seq(Key)
         /\ Keys(edited) \subseteq Stored
  <1>1. seen.cover \in Prompt /\ seen.cover_url \in Key /\ seen.prompts \in Seq(Prompt) /\ seen.urls \in Seq(Key)
    BY DEF Artifact
  <1>2. ASSUME NEW urls, NEW prompts \in Seq(Prompt), edited = [seen EXCEPT !.urls = urls, !.prompts = prompts],
               urls \in Seq(Key), \A j \in DOMAIN urls : \E h \in DOMAIN seen.urls : urls[j] = seen.urls[h]
        PROVE  /\ edited.id = seen.id /\ edited.cover \in Prompt /\ edited.cover_url \in Key
               /\ edited.prompts \in Seq(Prompt) /\ edited.urls \in Seq(Key)
               /\ Keys(edited) \subseteq Stored
    <2>1. /\ edited.id = seen.id /\ edited.cover = seen.cover /\ edited.cover_url = seen.cover_url
          /\ edited.prompts = prompts /\ edited.urls = urls
      BY <1>2 DEF Artifact
    <2>2. Keys(edited) \subseteq Keys(seen)
      BY <1>2, <2>1 DEF Keys
    <2> QED
      BY <1>1, <1>2, <2>1, <2>2
  <1>3. seen = [seen EXCEPT !.urls = seen.urls, !.prompts = seen.prompts]
    BY DEF Artifact
  <1> DEFINE Empty == <<>>
  <1>4. Empty \in Seq(Key) /\ Empty \in Seq(Prompt) /\ \A j \in DOMAIN Empty : FALSE
    OBVIOUS
  <1>5. CASE edited = seen
    BY <1>1, <1>5
  <1>6. CASE edited = [seen EXCEPT !.urls = <<>>]
    <2>1. edited = [seen EXCEPT !.urls = Empty, !.prompts = seen.prompts]
      BY <1>6 DEF Artifact
    <2> HIDE DEF Empty
    <2> QED
      BY <1>1, <1>2, <1>4, <2>1
  <1>7. CASE edited = [seen EXCEPT !.prompts = <<>>]
    <2>1. edited = [seen EXCEPT !.urls = seen.urls, !.prompts = Empty]
      BY <1>7 DEF Artifact
    <2> HIDE DEF Empty
    <2> QED
      BY <1>1, <1>2, <1>4, <2>1
  <1>8. ASSUME NEW i \in DOMAIN seen.urls, edited = [seen EXCEPT !.urls = Without(@, i)]
        PROVE  /\ edited.id = seen.id /\ edited.cover \in Prompt /\ edited.cover_url \in Key
               /\ edited.prompts \in Seq(Prompt) /\ edited.urls \in Seq(Key)
               /\ Keys(edited) \subseteq Stored
    <2>1. edited = [seen EXCEPT !.urls = Without(seen.urls, i), !.prompts = seen.prompts]
      BY <1>8 DEF Artifact
    <2>2. /\ Without(seen.urls, i) \in Seq(Key)
          /\ \A j \in DOMAIN Without(seen.urls, i) : \E h \in DOMAIN seen.urls : Without(seen.urls, i)[j] = seen.urls[h]
      BY <1>1, WithoutIs
    <2> QED
      BY <1>1, <1>2, <2>1, <2>2
  <1>9. ASSUME NEW i \in DOMAIN seen.urls \cap DOMAIN seen.prompts,
               edited = [seen EXCEPT !.urls = Without(@, i), !.prompts = Without(@, i)]
        PROVE  /\ edited.id = seen.id /\ edited.cover \in Prompt /\ edited.cover_url \in Key
               /\ edited.prompts \in Seq(Prompt) /\ edited.urls \in Seq(Key)
               /\ Keys(edited) \subseteq Stored
    <2>1. edited = [seen EXCEPT !.urls = Without(seen.urls, i), !.prompts = Without(seen.prompts, i)]
      BY <1>9 DEF Artifact
    <2>2. /\ Without(seen.urls, i) \in Seq(Key)
          /\ \A j \in DOMAIN Without(seen.urls, i) : \E h \in DOMAIN seen.urls : Without(seen.urls, i)[j] = seen.urls[h]
      BY <1>1, WithoutIs
    <2>3. Without(seen.prompts, i) \in Seq(Prompt)
      BY <1>1, WithoutIs
    <2> QED
      BY <1>2, <2>1, <2>2, <2>3
  <1>10. ASSUME NEW i \in {0} \cup (DOMAIN seen.urls \cap DOMAIN seen.prompts), NEW prompt \in Prompt,
               NEW url \in Stored, edited = Redrawn(seen, i, prompt, url)
        PROVE  /\ edited.id = seen.id /\ edited.cover \in Prompt /\ edited.cover_url \in Key
               /\ edited.prompts \in Seq(Prompt) /\ edited.urls \in Seq(Key)
               /\ Keys(edited) \subseteq Stored
    <2>1. url \in Key
      BY DEF Stored
    <2> QED
      BY <1>10, <2>1, RedrawnIs
  <1>11. edited \in Cut(seen) =>
           \/ edited = seen \/ edited = [seen EXCEPT !.urls = <<>>] \/ edited = [seen EXCEPT !.prompts = <<>>]
           \/ \E i \in DOMAIN seen.urls : edited = [seen EXCEPT !.urls = Without(@, i)]
           \/ \E i \in DOMAIN seen.urls \cap DOMAIN seen.prompts :
                edited = [seen EXCEPT !.urls = Without(@, i), !.prompts = Without(@, i)]
    BY DEF Cut
  <1>12. \/ edited \in Cut(seen)
         \/ \E i \in {0} \cup (DOMAIN seen.urls \cap DOMAIN seen.prompts), prompt \in Prompt, url \in Stored :
              edited = Redrawn(seen, i, prompt, url)
    BY DEF Edits, Stored
  <1> QED
    BY <1>5, <1>6, <1>7, <1>8, <1>9, <1>10, <1>11, <1>12

LEMMA PutArtifactInv == ASSUME AInv, NEW c \in Client, PutArtifact(c) PROVE AInv'
  <1> DEFINE seen == req[c].seen
  <1>1. seen \in Artifact /\ Keys(seen) \subseteq Stored /\ req[c].at # "rest"
    BY DEF AInv, ClientsFit, ReqFit, PutArtifact
  <1>2. UNCHANGED <<flow, run, works, lost, ids, objects, charged, bounds>> /\ Answered(c)
    BY DEF PutArtifact
  <1>3. PICK edited \in Edits(seen) :
          IF art # Absent /\ art.id = edited.id
            THEN /\ art' = Row(edited.id, "a client's", edited) /\ touched' = TRUE
                 /\ mispaired' = (mispaired \/ ~Paired(edited))
            ELSE UNCHANGED <<art, touched, mispaired>>
    BY DEF PutArtifact
  <1>4. mispaired' \in {mispaired, TRUE, FALSE}
    BY <1>3
  <1> HIDE DEF seen
  <1>5. /\ edited.id = seen.id /\ edited.cover \in Prompt /\ edited.cover_url \in Key
        /\ edited.prompts \in Seq(Prompt) /\ edited.urls \in Seq(Key)
        /\ Keys(edited) \subseteq Stored
    BY <1>1, <1>3, EditsAre
  <1>6. CASE art # Absent /\ art.id = edited.id
    <2>1. art' = Row(seen.id, "a client's", edited) /\ touched' = TRUE /\ "a client's" \in Text
      BY <1>3, <1>5, <1>6 DEF Text
    <2>2. art' \in Artifact /\ art'.id = ids /\ Keys(art') \subseteq Stored
      BY <1>1, <1>5, <1>6, <2>1, Rewritten DEF seen
    <2> QED
      BY <1>2, <1>4, <2>1, <2>2, WritesArtifact
  <1>7. CASE ~(art # Absent /\ art.id = edited.id)
    BY <1>2, <1>3, <1>4, <1>7, WritesArtifact
  <1> QED
    BY <1>6, <1>7

\* What a client's new image changes.
LEMMA Regenerates ==
  ASSUME AInv, NEW c \in Client, RegenerateImage(c)
  PROVE  LET seen == req[c].seen
             made == Redrawn(seen, req[c].index, req[c].prompt, SlotKey(req[c]))
         IN  \/ UNCHANGED <<art, touched>>
             \/ /\ art # Absent /\ art.id = seen.id /\ touched' = TRUE /\ art' = Row(seen.id, "", made)
                /\ made.cover \in Prompt /\ made.cover_url \in Key
                /\ made.prompts \in Seq(Prompt) /\ made.urls \in Seq(Key)
                /\ Keys(made) \subseteq Stored /\ (Matched(seen) => Matched(made))
  <1> DEFINE seen == req[c].seen
             i == req[c].index
             prompt == req[c].prompt
             key == SlotKey(req[c])
             fits == i <= Len(seen.prompts) /\ i <= Len(seen.urls) /\ art # Absent /\ art.id = seen.id
             made == Redrawn(seen, i, prompt, key)
  <1>1. req[c] \in Request /\ seen \in Artifact /\ Keys(seen) \subseteq Stored /\ key \in Stored
    BY DEF AInv, TypeOK, ClientsFit, ReqFit, RegenerateImage
  <1>2. IF fits THEN art' = Row(seen.id, "", made) /\ touched' = TRUE ELSE UNCHANGED <<art, touched>>
    BY DEF RegenerateImage, SlotKey
  <1>3. key \in Key /\ key[3] = prompt /\ prompt \in Prompt /\ i \in 0..2
    BY <1>1, SlotKeyIs DEF Request, Slots
  <1> HIDE DEF seen, i, prompt, key
  <1>4. CASE fits
    <2>1. seen.prompts \in Seq(Prompt) /\ seen.urls \in Seq(Key)
      BY <1>1 DEF Artifact
    <2>2. i \in {0} \cup (DOMAIN seen.urls \cap DOMAIN seen.prompts)
      BY <1>3, <1>4, <2>1
    <2>3. /\ made.cover \in Prompt /\ made.cover_url \in Key
          /\ made.prompts \in Seq(Prompt) /\ made.urls \in Seq(Key)
          /\ Keys(made) \subseteq Keys(seen) \cup {key}
          /\ Matched(seen) => Matched(made)
      BY <1>1, <1>3, <2>2, RedrawnIs
    <2> HIDE DEF made
    <2>4. Keys(made) \subseteq Stored
      BY <1>1, <2>3
    <2> QED
      BY <1>2, <1>4, <2>3, <2>4 DEF made, seen, i, prompt, key
  <1>5. CASE ~fits
    BY <1>2, <1>5
  <1> QED
    BY <1>4, <1>5

LEMMA RegenerateImageInv == ASSUME AInv, NEW c \in Client, RegenerateImage(c) PROVE AInv'
  <1> DEFINE made == Redrawn(req[c].seen, req[c].index, req[c].prompt, SlotKey(req[c]))
  <1>1. UNCHANGED <<flow, run, works, lost, mispaired, ids, objects, charged, bounds>> /\ Answered(c)
    BY DEF RegenerateImage, Other
  <1>2. \/ UNCHANGED <<art, touched>>
        \/ /\ art # Absent /\ art.id = req[c].seen.id /\ touched' = TRUE /\ art' = Row(req[c].seen.id, "", made)
           /\ made.cover \in Prompt /\ made.cover_url \in Key
           /\ made.prompts \in Seq(Prompt) /\ made.urls \in Seq(Key)
           /\ Keys(made) \subseteq Stored
    BY Regenerates
  <1>3. req[c].at # "rest" /\ "" \in Text
    BY DEF RegenerateImage, Text
  <1> HIDE DEF made
  <1>4. CASE UNCHANGED <<art, touched>>
    BY <1>1, <1>4, WritesArtifact
  <1>5. CASE ~ UNCHANGED <<art, touched>>
    <2>1. art' \in Artifact /\ art'.id = ids /\ Keys(art') \subseteq Stored
      BY <1>2, <1>3, <1>5, Rewritten
    <2> QED
      BY <1>1, <1>2, <1>5, <2>1, WritesArtifact
  <1> QED
    BY <1>4, <1>5

LEMMA AskImageInv == ASSUME AInv, NEW c \in Client, AskImage(c) PROVE AInv'
  <1>1. PICK i \in Slots, prompt \in Prompt, store \in BOOLEAN :
          req' = [req EXCEPT ![c] =
            [at |-> "work", store |-> store, seen |-> art, index |-> i, prompt |-> prompt,
             tasks |-> Tasks(EditFolder[i + 1], <<prompt>>)]]
    BY DEF AskImage
  <1> DEFINE T == Tasks(EditFolder[i + 1], <<prompt>>)
             r == [at |-> "work", store |-> store, seen |-> art, index |-> i, prompt |-> prompt, tasks |-> T]
  <1>2. UNCHANGED <<Other, art, ids, objects, charged, touched>> /\ art \in Artifact
    BY DEF AskImage, AInv, TypeOK
  <1>3. Stored' = Stored /\ ObjectsFit'
    BY <1>2 DEF Stored, AInv, ObjectsFit
  <1>4. EditFolder[i + 1] \in Folder
    <2>1. i + 1 \in {1, 2, 3}
      BY DEF Slots
    <2>2. EditFolder[1] = "slot 0" /\ EditFolder[2] = "slot 1" /\ EditFolder[3] = "slot 2"
      BY DEF EditFolder
    <2> QED
      BY <2>1, <2>2 DEF Folder
  <1>5. /\ T \in Seq(Task) /\ T # <<>> /\ Ordered(T, {}) /\ Genuine(T)
        /\ Uploads(T, ObjectKey(EditFolder[i + 1], 0, prompt))
    <2> DEFINE one == <<prompt>>
    <2>1. one \in Seq(Prompt) /\ Len(one) <= 3 /\ one # <<>> /\ 1 \in DOMAIN one /\ one[1] = prompt
      OBVIOUS
    <2> HIDE DEF one
    <2>2. LET U == Tasks(EditFolder[i + 1], one)
          IN  /\ U \in Seq(Task) /\ U # <<>> /\ Ordered(U, {}) /\ Genuine(U)
              /\ \A j \in DOMAIN one : Uploads(U, ObjectKey(EditFolder[i + 1], j - 1, one[j]))
      BY <1>4, <2>1, TasksAre
    <2>3. Uploads(Tasks(EditFolder[i + 1], one), ObjectKey(EditFolder[i + 1], 1 - 1, one[1]))
      BY <2>1, <2>2
    <2>4. 1 - 1 = 0
      OBVIOUS
    <2> QED
      BY <2>1, <2>2, <2>3, <2>4 DEF one
  <1> HIDE DEF T
  <1>6. /\ r \in Request /\ r.at = "work" /\ r.seen = art /\ r.tasks = T
        /\ r.index = i /\ r.prompt = prompt
    BY <1>2, <1>5 DEF Request
  <1>7. req' = [req EXCEPT ![c] = r]
    BY <1>1 DEF T
  <1> HIDE DEF r
  <1>8. SlotKey(r) = ObjectKey(EditFolder[i + 1], 0, prompt)
    BY <1>6 DEF SlotKey
  <1>9. Ordered(T, charged')
    BY <1>5, StaysOrdered
  <1>10. ReqFit(r, Stored', charged')
    BY <1>2, <1>3, <1>5, <1>6, <1>8, <1>9 DEF ReqFit, AInv, ShownFit, AskImage
  <1>11. req' \in [Client -> Request] /\ ClientsFit'
    BY <1>2, <1>3, <1>6, <1>7, <1>10, OneRequest
  <1>12. Bounded'
    BY ArtifactsAssumption DEF AInv, TypeOK, Bounded, AskImage, Asks
  <1>13. objects' \in [Key -> Prompt \cup {Absent}] /\ charged' \subseteq Key
    BY <1>2 DEF AInv, TypeOK
  <1>14. UNCHANGED <<flow, run, works, ids, lost, mispaired, art, touched, charged>>
    BY <1>2 DEF Other
  <1> QED
    BY <1>3, <1>11, <1>12, <1>13, <1>14, ClientMove

LEMMA ClientTaskInv == ASSUME AInv, NEW c \in Client, ClientTask(c) PROVE AInv'
  <1> DEFINE T == req[c].tasks
  <1>1. /\ req \in [Client -> Request] /\ req[c] \in Request /\ T \in Seq(Task) /\ T # <<>>
        /\ Ordered(T, charged) /\ Genuine(T) /\ ReqFit(req[c], Stored, charged) /\ req[c].at = "work"
    BY DEF AInv, TypeOK, ClientsFit, ReqFit, ClientTask, Request
  <1>2. UNCHANGED <<Other, art, ids, touched>>
    BY DEF ClientTask
  <1>3. UNCHANGED <<flow, run, works, ids, lost, mispaired, art, touched>>
    BY <1>2 DEF Other
  <1>4. CASE Fault /\ Answered(c) /\ UNCHANGED <<objects, charged>>
    <2>1. Stored' = Stored /\ ObjectsFit'
      BY <1>4 DEF Stored, AInv, ObjectsFit
    <2>2. req' \in [Client -> Request] /\ ClientsFit'
      BY <1>4, <2>1, NoRequestIs, OneRequest DEF Answered
    <2>3. Bounded'
      BY <1>4, FaultIs
    <2>4. objects' \in [Key -> Prompt \cup {Absent}] /\ charged' \subseteq Key /\ charged \subseteq charged'
      BY <1>4 DEF AInv, TypeOK
    <2> QED
      BY <1>3, <2>1, <2>2, <2>3, <2>4, ClientMove
  <1>5. CASE /\ Does(Head(T))
             /\ UNCHANGED bounds
             /\ IF Tail(T) = <<>> /\ ~req[c].store
                  THEN Answered(c)
                  ELSE req' = [req EXCEPT ![c].tasks = Tail(T),
                                          ![c].at = IF Tail(T) = <<>> THEN "store" ELSE "work"]
    <2> DEFINE r == [req[c] EXCEPT !.tasks = Tail(T), !.at = IF Tail(T) = <<>> THEN "store" ELSE "work"]
    <2>1. /\ objects' \in [Key -> Prompt \cup {Absent}] /\ charged' \subseteq Key
          /\ ObjectsFit' /\ Stored \subseteq Stored' /\ charged \subseteq charged'
          /\ Tail(T) \in Seq(Task) /\ Ordered(Tail(T), charged') /\ Genuine(Tail(T))
          /\ \A k \in Key : k \in Stored \/ Uploads(T, k) => k \in Stored' \/ Uploads(Tail(T), k)
          /\ Tail(T) = <<>> => \A k \in Key : k \in Stored \/ Uploads(T, k) => k \in Stored'
      BY <1>1, <1>5, Doing DEF AInv, TypeOK
    <2>2. Bounded'
      BY <1>5 DEF AInv, TypeOK, Bounded, bounds
    <2>3. CASE Answered(c)
      <3>1. req' \in [Client -> Request] /\ ClientsFit'
        BY <2>1, <2>3, NoRequestIs, OneRequest DEF Answered
      <3> QED
        BY <1>3, <2>1, <2>2, <3>1, ClientMove
    <2>4. CASE req' = [req EXCEPT ![c].tasks = Tail(T), ![c].at = IF Tail(T) = <<>> THEN "store" ELSE "work"]
      <3>1. req' = [req EXCEPT ![c] = r]
        BY <1>1, <2>4
      <3> HIDE DEF T
      <3>2. /\ r \in Request /\ r.tasks = Tail(T) /\ r.at = (IF Tail(T) = <<>> THEN "store" ELSE "work")
            /\ r.seen = req[c].seen /\ r.index = req[c].index /\ r.prompt = req[c].prompt
        BY <1>1, <2>1 DEF Request
      <3> HIDE DEF r
      <3>3. SlotKey(r) = SlotKey(req[c]) /\ SlotKey(r) \in Key
        BY <1>1, <3>2, SlotKeyIs DEF SlotKey
      <3>4. SlotKey(req[c]) \in Stored \/ Uploads(T, SlotKey(req[c]))
        BY <1>1 DEF ReqFit, T
      <3>5. r.seen \in Artifact /\ Keys(r.seen) \subseteq Stored'
        BY <1>1, <2>1, <3>2 DEF ReqFit
      <3>6. ReqFit(r, Stored', charged')
        <4>1. CASE Tail(T) = <<>>
          BY <2>1, <3>2, <3>3, <3>4, <3>5, <4>1 DEF ReqFit
        <4>2. CASE Tail(T) # <<>>
          BY <2>1, <3>2, <3>3, <3>4, <3>5, <4>2 DEF ReqFit
        <4> QED
          BY <4>1, <4>2
      <3>7. req' \in [Client -> Request] /\ ClientsFit'
        BY <2>1, <3>1, <3>2, <3>6, OneRequest
      <3> QED
        BY <1>3, <2>1, <2>2, <3>7, ClientMove
    <2> QED
      BY <1>5, <2>3, <2>4
  <1> QED
    BY <1>4, <1>5 DEF ClientTask

LEMMA CrashInv == ASSUME AInv, Crash PROVE AInv'
  <1>1. /\ UNCHANGED <<flow, status, done, resumed, works, art, ids, objects, charged, touched, lost, mispaired, faults, requests>>
        /\ at' = "rest" /\ plan' = Absent /\ tasks' = <<>>
        /\ req' = [c \in Client |-> NoRequest]
    BY DEF Crash, Forget
  <1>2. Stored' = Stored
    BY <1>1 DEF Stored
  <1>3. Bounded'
    BY ArtifactsAssumption DEF AInv, TypeOK, Bounded, Crash
  <1>4. req' \in [Client -> Request] /\ ClientsFit'
    BY <1>1, NoRequestIs DEF ClientsFit
  <1>5. TypeOK'
    BY <1>1, <1>3, <1>4, NoTasks DEF AInv, TypeOK, Bounded
  <1>6. ObjectsFit' /\ ShownFit'
    BY <1>1, <1>2 DEF AInv, ObjectsFit, ShownFit
  <1>7. WorkerFit' /\ Published'
    BY <1>1, NoTasks DEF AInv, WorkerFit, Published, CompletedIsPublished
  <1> QED
    BY <1>4, <1>5, <1>6, <1>7 DEF AInv

LEMMA NextInv == ASSUME AInv, [Next]_vars PROVE AInv'
  <1>1. CASE RunStep
    <2>1. UNCHANGED <<flow, req, mispaired>>
      BY <1>1 DEF RunStep
    <2>2. CASE (Fetch \/ Copy \/ Prompts) /\ UNCHANGED <<works, art, ids, objects, charged, touched, lost>>
      BY <2>1, <2>2, NodesInv, PromptsInv
    <2>3. CASE RunTask /\ UNCHANGED <<works, art, ids, touched, lost>>
      BY <2>1, <2>3, RunTaskInv
    <2>4. CASE AppendWork /\ UNCHANGED <<art, ids, objects, charged, touched>>
      BY <2>1, <2>4, AppendWorkInv
    <2>5. CASE WriteArtifact /\ UNCHANGED <<works, objects, charged>>
      BY <2>1, <2>5, WriteArtifactInv
    <2> QED
      BY <1>1, <2>2, <2>3, <2>4, <2>5 DEF RunStep
  <1>2. CASE UNCHANGED vars
    <2>1. UNCHANGED <<flow, run, works, ids, lost, mispaired, art, objects, charged, req, touched, bounds>>
      BY <1>2 DEF vars
    <2>2. Stored' = Stored /\ ObjectsFit' /\ ClientsFit'
      <3>1. Stored' = Stored
        BY <2>1 DEF Stored
      <3> QED
        BY <2>1, <3>1 DEF AInv, ObjectsFit, ClientsFit
    <2>3. Bounded'
      BY <2>1 DEF AInv, TypeOK, Bounded, bounds
    <2>4. objects' \in [Key -> Prompt \cup {Absent}] /\ charged' \subseteq Key /\ req' \in [Client -> Request]
      BY <2>1 DEF AInv, TypeOK
    <2> QED
      BY <2>1, <2>2, <2>3, <2>4, ClientMove
  <1>3. ASSUME NEW c \in Client,
               ReadArtifact(c) \/ PutArtifact(c) \/ AskImage(c) \/ ClientTask(c) \/ RegenerateImage(c)
        PROVE  AInv'
    BY <1>3, ReadArtifactInv, PutArtifactInv, AskImageInv, ClientTaskInv, RegenerateImageInv
  <1> QED
    BY <1>1, <1>2, <1>3, PostRunInv, ResumeRunInv, DeleteArtifactInv, CrashInv DEF Next

\* Runs and clients, in any order, keep the invariant.
THEOREM Invariant == Spec => []AInv
  BY InitInv, NextInv, PTL DEF Spec

-----------------------------------------------------------------------------
(* What follows from it.                                                     *)

\* Every variable keeps its type, through faults, crashes and requests.
THEOREM TypeCorrect == Spec => []TypeOK
  <1>1. AInv => TypeOK
    BY DEF AInv
  <1> QED
    BY <1>1, Invariant, PTL

\* The artifact is what it was, or gone, or has prompts that match; a request has what
\* it had, or the artifact, or is at rest.
LEMMA StillPaired ==
  ASSUME PairsFit, mispaired => mispaired',
         ~mispaired' => art' \in {art, Absent} \/ Matched(art'),
         ~mispaired' => \A d \in Client : \/ req'[d].at = "rest"
                                          \/ art # Absent /\ req'[d].seen = art
                                          \/ req[d].at # "rest" /\ req'[d].seen = req[d].seen
  PROVE  PairsFit'
  <1> SUFFICES ASSUME ~mispaired'
               PROVE  /\ art' # Absent => Matched(art')
                      /\ \A d \in Client : req'[d].at # "rest" => Matched(req'[d].seen)
    BY DEF PairsFit
  <1>1. /\ art # Absent => Matched(art)
        /\ \A d \in Client : req[d].at # "rest" => Matched(req[d].seen)
    BY DEF PairsFit
  <1> QED
    BY <1>1

LEMMA RunPairs == ASSUME AInv, PairsFit, RunStep PROVE PairsFit'
  <1>1. UNCHANGED <<req, mispaired>>
    BY DEF RunStep
  <1>2. art' = art \/ Matched(art')
    <2>1. CASE art' = Row(ids', "the run's", Made(flow, plan)) /\ at = "upsert"
      <3>1. flow \in Flow /\ plan \in Plans
        BY <2>1 DEF AInv, TypeOK
      <3>2. Made(flow, plan) \in Work /\ Matched(Made(flow, plan))
        BY <3>1, PlanIs
      <3> DEFINE made == Made(flow, plan)
      <3> HIDE DEF made
      <3>3. Matched(made) => Matched(Row(ids', "the run's", made))
        BY DEF Matched, Row
      <3> QED
        BY <2>1, <3>2, <3>3 DEF made
    <2> QED
      BY <2>1 DEF RunStep, WriteArtifact
  <1>3. \A d \in Client : req'[d] = req[d]
    BY <1>1
  <1> QED
    BY <1>1, <1>2, <1>3, StillPaired

LEMMA ClientPairs ==
  ASSUME AInv, PairsFit, NEW c \in Client,
         ReadArtifact(c) \/ PutArtifact(c) \/ AskImage(c) \/ ClientTask(c) \/ RegenerateImage(c)
  PROVE  PairsFit'
  <1>1. req \in [Client -> Request] /\ mispaired \in BOOLEAN
    BY DEF AInv, TypeOK
  <1>2. \A r : req' = [req EXCEPT ![c] = r] => req'[c] = r /\ \A d \in Client \ {c} : req'[d] = req[d]
    BY <1>1
  <1>3. NoRequest.at = "rest"
    BY DEF NoRequest
  <1>4. CASE ReadArtifact(c)
    <2>1. UNCHANGED <<art, mispaired>> /\ art # Absent
      BY <1>4 DEF ReadArtifact, Other
    <2>2. req'[c].seen = art /\ \A d \in Client \ {c} : req'[d] = req[d]
      BY <1>1, <1>4 DEF ReadArtifact, Request
    <2> QED
      BY <2>1, <2>2, StillPaired
  <1>5. CASE AskImage(c)
    <2>1. UNCHANGED <<art, mispaired>> /\ art # Absent
      BY <1>5 DEF AskImage, Other
    <2>2. req'[c].seen = art /\ \A d \in Client \ {c} : req'[d] = req[d]
      BY <1>1, <1>5 DEF AskImage
    <2> QED
      BY <2>1, <2>2, StillPaired
  <1>6. CASE ClientTask(c)
    <2>1. UNCHANGED <<art, mispaired>> /\ req[c].at = "work"
      BY <1>6 DEF ClientTask, Other
    <2>2. /\ req'[c].at = "rest" \/ req'[c].seen = req[c].seen
          /\ \A d \in Client \ {c} : req'[d] = req[d]
      <3>1. CASE Answered(c)
        BY <1>2, <1>3, <3>1 DEF Answered
      <3>2. CASE ~Answered(c)
        <4> DEFINE rest == Tail(req[c].tasks)
        <4>1. req' = [req EXCEPT ![c].tasks = rest, ![c].at = IF rest = <<>> THEN "store" ELSE "work"]
          BY <1>6, <3>2 DEF ClientTask
        <4> HIDE DEF rest
        <4> QED
          BY <1>1, <4>1 DEF Request
      <3> QED
        BY <3>1, <3>2
    <2> QED
      BY <2>1, <2>2, StillPaired
  <1>7. Answered(c) => req'[c].at = "rest" /\ \A d \in Client \ {c} : req'[d] = req[d]
    BY <1>2, <1>3 DEF Answered
  <1>8. CASE PutArtifact(c)
    <2> DEFINE seen == req[c].seen
    <2>1. PICK edited \in Edits(seen) :
            IF art # Absent /\ art.id = edited.id
              THEN /\ art' = Row(edited.id, "a client's", edited) /\ touched' = TRUE
                   /\ mispaired' = (mispaired \/ ~Paired(edited))
              ELSE UNCHANGED <<art, touched, mispaired>>
      BY <1>8 DEF PutArtifact
    <2>2. Keys(edited) \subseteq Stored
      <3>1. seen \in Artifact /\ Keys(seen) \subseteq Stored
        BY <1>8 DEF AInv, ClientsFit, ReqFit, PutArtifact
      <3> HIDE DEF seen
      <3> QED
        BY <2>1, <3>1, EditsAre
    <2>3. Paired(edited) => Matched(edited)
      <3>1. \A k \in Keys(edited) : objects[k] = k[3]
        BY <2>2 DEF AInv, ObjectsFit
      <3> QED
        BY <3>1 DEF Paired, Matched, Keys
    <2>4. Matched(edited) => Matched(Row(edited.id, "a client's", edited))
      BY DEF Matched, Row
    <2>5. (mispaired => mispaired') /\ (~mispaired' => art' = art \/ Matched(art'))
      BY <2>1, <2>3, <2>4
    <2> QED
      BY <1>7, <1>8, <2>5, StillPaired DEF PutArtifact
  <1>9. CASE RegenerateImage(c)
    <2> DEFINE seen == req[c].seen
               made == Redrawn(seen, req[c].index, req[c].prompt, SlotKey(req[c]))
    <2>1. mispaired' = mispaired /\ Answered(c) /\ req[c].at # "rest"
      BY <1>9 DEF RegenerateImage, Other
    <2>2. \/ UNCHANGED <<art, touched>>
          \/ art' = Row(seen.id, "", made) /\ (Matched(seen) => Matched(made))
      BY <1>9, Regenerates
    <2>3. ~mispaired => Matched(seen)
      BY <2>1 DEF PairsFit
    <2> HIDE DEF made, seen
    <2>4. Matched(made) => Matched(Row(seen.id, "", made))
      BY DEF Matched, Row
    <2>5. ~mispaired' => art' = art \/ Matched(art')
      BY <2>1, <2>2, <2>3, <2>4
    <2> QED
      BY <1>7, <2>1, <2>5, StillPaired
  <1> QED
    BY <1>4, <1>5, <1>6, <1>8, <1>9

LEMMA NextPairs == ASSUME AInv, PairsFit, [Next]_vars PROVE PairsFit'
  <1>1. CASE UNCHANGED <<art, req, mispaired>>
    BY <1>1, StillPaired DEF PairsFit
  <1>2. CASE PostRun \/ ResumeRun \/ UNCHANGED vars
    BY <1>1, <1>2 DEF PostRun, ResumeRun, vars
  <1>3. CASE DeleteArtifact
    <2>1. art' = Absent /\ UNCHANGED <<req, mispaired>>
      BY <1>3 DEF DeleteArtifact, Other
    <2> QED
      BY <2>1 DEF PairsFit
  <1>4. CASE Crash
    <2>1. UNCHANGED <<art, mispaired>> /\ \A d \in Client : req'[d].at = "rest"
      BY <1>4 DEF Crash, NoRequest
    <2> QED
      BY <2>1, StillPaired
  <1> QED
    BY <1>2, <1>3, <1>4, RunPairs, ClientPairs DEF Next

\* Every image of the artifact was drawn from the prompt beside it, for every number
\* of clients that edit and redraw what they read before others wrote, as long as none
\* of them has itself put an image beside a prompt that it was not drawn from.
THEOREM ImagesAreOfPrompts == Spec => []ImagesMatchPrompts
  <1>1. Init => PairsFit
    BY DEF Init, PairsFit, NoRequest
  <1>2. AInv /\ PairsFit /\ [Next]_vars => PairsFit'
    BY NextPairs
  <1>3. AInv /\ PairsFit => ImagesMatchPrompts
    <2> SUFFICES ASSUME AInv, PairsFit, art # Absent, ~mispaired PROVE Paired(art)
      BY DEF ImagesMatchPrompts
    <2>1. Keys(art) \subseteq Stored /\ Matched(art) /\ \A k \in Stored : objects[k] = k[3]
      BY DEF AInv, ShownFit, ObjectsFit, PairsFit
    <2> QED
      BY <2>1 DEF Paired, Matched, Keys
  <1> QED
    BY <1>1, <1>2, <1>3, Invariant, PTL DEF Spec

\* Nobody is shown an image that was not charged.
THEOREM ShownImagesAreCharged == Spec => []ShownIsCharged
  <1>1. AInv => ShownIsCharged
    BY DEF AInv, ObjectsFit, ShownFit, ShownIsCharged, Stored, Keys
  <1> QED
    BY <1>1, Invariant, PTL

\* A run that has completed has published what it made, whatever failed, crashed and
\* was resumed between the two writes.
THEOREM CompletedRunsPublish == Spec => []CompletedIsPublished
  <1>1. AInv => CompletedIsPublished
    BY DEF AInv, Published
  <1> QED
    BY <1>1, Invariant, PTL
=============================================================================
