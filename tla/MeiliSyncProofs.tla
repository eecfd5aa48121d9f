--------------------------- MODULE MeiliSyncProofs ---------------------------
(* Proofs about MeiliSync, for any number of articles, syncs and searches.  *)
EXTENDS MeiliSync, SequenceTheorems, TLAPS

USE DEF rows, index, history, Goto

Stages == {"idle", "deleting", "creating", "load", "add", "adding",
           "ensure", "recreating", "attributes", "setting", "query",
           "answered", "missing", "failed"}
Task == [by : Requests, kind : Kinds, docs : SUBSET Documents]

Types ==
  /\ version \in [Articles -> 0..MaxVersion] /\ active \subseteq Articles
  /\ tasks \in Seq(Task)
  /\ pc \in [Requests -> Stages]
  /\ read \in [Syncs -> SUBSET Documents]
  /\ others \in [Requests -> SUBSET Syncs]
  /\ \A s \in Syncs : pc[s] \notin {"query", "missing"}
  /\ \A q \in Searches : pc[q] \notin {"deleting", "creating", "load", "add", "adding"}

\* The queue: what a new task leaves as it is, and what running one does.
LEMMA QueueGrows ==
  ASSUME tasks \in Seq(Task), NEW t \in Task, tasks' = Append(tasks, t)
  PROVE  /\ tasks' \in Seq(Task) /\ Len(tasks) \in Nat /\ Len(tasks') = Len(tasks) + 1
         /\ tasks'[Len(tasks) + 1] = t
         /\ \A i \in 1..Len(tasks) : tasks'[i] = tasks[i]
  OBVIOUS

LEMMA QueueShrinks ==
  ASSUME tasks \in Seq(Task), tasks # <<>>, tasks' = Tail(tasks)
  PROVE  /\ tasks' \in Seq(Task) /\ Len(tasks) \in Nat \ {0} /\ Len(tasks') = Len(tasks) - 1
         /\ Head(tasks) = tasks[1] /\ tasks[1] \in Task
         /\ \A i \in 1..Len(tasks') : tasks'[i] = tasks[i + 1]
  OBVIOUS

LEMMA TasksHaveAuthors ==
  ASSUME Types PROVE \A i \in 1..Len(tasks) : tasks[i].by \in Requests
  <1>1. \A i \in 1..Len(tasks) : tasks[i] \in Task
    BY DEF Types
  <1>2. QED
    BY <1>1 DEF Task

\* Every step of a request: its place moves, and at most one task is enqueued.
LEMMA TypesStep == Types /\ [Next]_vars => Types'
  <1> SUFFICES ASSUME Types, [Next]_vars PROVE Types'
    OBVIOUS
  <1> USE MeiliAssumption DEF Types, Stages, MeiliAssumption, Requests
  <1>1. CASE RunTask
    <2>1. tasks' \in Seq(Task)
      BY <1>1, QueueShrinks DEF RunTask
    <2>2. QED
      BY <1>1, <2>1 DEF RunTask
  <1>2. ASSUME NEW a \in Articles, Edit(a) PROVE Types'
    BY <1>2 DEF Edit
  <1>3. ASSUME NEW r \in Requests, NEW k \in Kinds, NEW ds \in SUBSET Documents, Enqueue(r, k, ds)
        PROVE  tasks' \in Seq(Task)
    <2>1. [by |-> r, kind |-> k, docs |-> ds] \in Task
      BY DEF Task
    <2>2. QED
      BY <1>3, <2>1, QueueGrows DEF Enqueue
  <1>4. ASSUME NEW s \in Syncs, SyncDelete(s) \/ SyncDeleted(s) PROVE Types'
    <2>1. Meets(s) => others' \in [Requests -> SUBSET Syncs]
      BY DEF Meets
    <2>2. QED
      BY <1>3, <1>4, <2>1 DEF SyncDelete, SyncDeleted, Kinds
  <1>5. ASSUME NEW s \in Syncs, SyncAdd(s) PROVE Types'
    BY <1>3, <1>5 DEF SyncAdd, Kinds
  <1>6. ASSUME NEW s \in Syncs, SyncRead(s) PROVE Types'
    <2>1. Rows \subseteq Documents
      BY DEF Rows, Documents
    <2>2. QED
      BY <1>6, <2>1 DEF SyncRead
  <1>7. ASSUME NEW s \in Syncs, SyncCreated(s) \/ SyncAnswer(s) PROVE Types'
    BY <1>7 DEF SyncCreated, SyncAnswer
  <1>8. ASSUME NEW q \in Searches, Search(q) PROVE Types'
    <2>1. CASE SearchStart(q)
      <3> DEFINE beside == Running \cap Syncs
      <3>1. beside \in SUBSET Syncs
        OBVIOUS
      <3>2. others' = [others EXCEPT ![q] = beside]
        BY <2>1 DEF SearchStart
      <3> HIDE DEF beside
      <3>3. others' \in [Requests -> SUBSET Syncs]
        BY <3>1, <3>2
      <3>4. QED
        BY <2>1, <3>3 DEF SearchStart
    <2>2. CASE SearchQuery(q)
      BY <2>2 DEF SearchQuery
    <2>3. QED
      BY <1>8, <2>1, <2>2 DEF Search
  <1>9. ASSUME NEW r \in Requests, EnsureGet(r) \/ EnsureSettings(r) PROVE Types'
    BY <1>3, <1>9 DEF EnsureGet, EnsureSettings, Kinds
  <1>10. ASSUME NEW r \in Requests, EnsureCreated(r) \/ Ensured(r) \/ Fails(r) PROVE Types'
    BY <1>10 DEF EnsureCreated, Ensured, Prepared, Fails
  <1>11. CASE UNCHANGED vars
    BY <1>11 DEF vars
  <1>12. QED
    BY <1>1, <1>2, <1>4, <1>5, <1>6, <1>7, <1>8, <1>9, <1>10, <1>11 DEF Next, Sync, Ensure

-----------------------------------------------------------------------------
(* The sync whose deletion ran last.                                       *)

\* The deletion of a sync is waited for, or the sync has failed.
DeletionsWaited ==
  \A i \in 1..Len(tasks) : tasks[i].kind = "delete" => pc[tasks[i].by] \in {"deleting", "failed"}
Covered(ds) == \A d \in ds : \E e \in docs : e.id = d.id
Adds(s)     == \E i \in 1..Len(tasks) :
                 tasks[i].by = s /\ tasks[i].kind = "add" /\ tasks[i].docs = read[s]
LastKept ==
  wiped \in Syncs \ spoiled =>
    /\ pc[wiped] = "adding" => Covered(read[wiped]) \/ Adds(wiped)
    /\ pc[wiped] = "answered" => Covered(read[wiped])
Kept == DeletionsWaited /\ LastKept

LEMMA KeptRun == ASSUME Types, Kept, RunTask PROVE Kept'
  <1> USE DEF Types
  <1>1. /\ tasks' \in Seq(Task) /\ Len(tasks) \in Nat \ {0} /\ Len(tasks') = Len(tasks) - 1
        /\ Head(tasks) = tasks[1] /\ tasks[1] \in Task
        /\ \A i \in 1..Len(tasks') : tasks'[i] = tasks[i + 1]
    BY QueueShrinks DEF RunTask
  <1>2. UNCHANGED <<pc, read>>
    BY DEF RunTask
  <1>3. DeletionsWaited'
    <2>1. \A i \in 1..Len(tasks') : i + 1 \in 1..Len(tasks)
      BY <1>1
    <2>2. QED
      BY <1>1, <1>2, <2>1 DEF Kept, DeletionsWaited
  <1>4. CASE Succeeds(tasks[1]) /\ tasks[1].kind = "delete"
    <2>1. wiped' = tasks[1].by /\ pc[wiped'] \in {"deleting", "failed"}
      BY <1>1, <1>4 DEF Succeeds, Kept, DeletionsWaited
    <2>2. QED
      BY <1>2, <1>3, <2>1 DEF Kept, LastKept
  <1>5. CASE Succeeds(tasks[1]) /\ tasks[1].kind # "delete"
    <2>1. wiped' = wiped /\ spoiled' = spoiled
      BY <1>1, <1>5 DEF Succeeds
    <2>2. docs' = docs \/ (tasks[1].kind = "add" /\ docs' = Upserted(tasks[1].docs))
      BY <1>1, <1>5 DEF Succeeds
    <2>3. ASSUME NEW s \in Syncs, Covered(read[s]) PROVE Covered(read[s])'
      BY <1>2, <2>2, <2>3 DEF Covered, Upserted
    <2>4. ASSUME NEW s \in Syncs, Adds(s) PROVE Covered(read[s])' \/ Adds(s)'
      <3>1. PICK i \in 1..Len(tasks) :
              tasks[i].by = s /\ tasks[i].kind = "add" /\ tasks[i].docs = read[s]
        BY <2>4 DEF Adds
      <3>2. CASE i = 1
        <4>1. docs' = Upserted(read[s])
          BY <1>5, <3>1, <3>2 DEF Succeeds
        <4>2. QED
          BY <1>2, <4>1 DEF Covered, Upserted
      <3>3. CASE i # 1
        <4>1. i - 1 \in 1..Len(tasks') /\ tasks'[i - 1] = tasks[i]
          BY <1>1, <3>3
        <4>2. QED
          BY <1>2, <3>1, <4>1 DEF Adds
      <3>4. QED
        BY <3>2, <3>3
    <2>5. LastKept'
      <3> SUFFICES ASSUME NEW w \in Syncs \ spoiled, w = wiped
                   PROVE  /\ pc[w] = "adding" => Covered(read[w])' \/ Adds(w)'
                          /\ pc[w] = "answered" => Covered(read[w])'
        BY <1>2, <2>1 DEF LastKept, Covered, Adds
      <3>1. QED
        BY <2>3, <2>4 DEF Kept, LastKept
    <2>6. QED
      BY <1>3, <2>5 DEF Kept
  <1>6. CASE Spoils(tasks[1])
    <2>1. /\ wiped' = wiped /\ docs' = docs /\ spoiled \subseteq spoiled'
          /\ tasks[1].by \in spoiled'
      BY <1>6 DEF Spoils
    <2>2. ASSUME NEW s \in Syncs, s # tasks[1].by, Adds(s) PROVE Adds(s)'
      <3>1. PICK i \in 1..Len(tasks) :
              tasks[i].by = s /\ tasks[i].kind = "add" /\ tasks[i].docs = read[s]
        BY <2>2 DEF Adds
      <3>2. i - 1 \in 1..Len(tasks') /\ tasks'[i - 1] = tasks[i]
        BY <1>1, <2>2, <3>1
      <3>3. QED
        BY <1>2, <3>1, <3>2 DEF Adds
    <2>3. LastKept'
      BY <1>2, <2>1, <2>2 DEF Kept, LastKept, Covered
    <2>4. QED
      BY <1>3, <2>3 DEF Kept
  <1>7. QED
    BY <1>1, <1>4, <1>5, <1>6 DEF RunTask

\* A step that leaves queue and index alone, of a request whose tasks have ended if it
\* moves on.
LEMMA KeptMove ==
  ASSUME Types, Kept, UNCHANGED <<docs, wiped, spoiled, read, tasks>>, NEW r \in Requests,
         \A q \in Requests : q # r => pc'[q] = pc[q],
         pc'[r] = "failed" \/ pc[r] \notin {"deleting", "failed"},
         pc'[r] = "adding" => pc[r] = "adding",
         pc'[r] = "answered" => r \in Searches \/ (pc[r] = "adding" /\ Finished(r))
  PROVE  Kept'
  <1>1. DeletionsWaited'
    <2>1. \A i \in 1..Len(tasks) : tasks[i].by \in Requests
      BY TasksHaveAuthors
    <2>2. QED
      BY <2>1 DEF Kept, DeletionsWaited
  <1>2. ASSUME NEW s \in Syncs, Finished(s) PROVE ~Adds(s)
    BY <1>2 DEF Finished, Adds, Range, Types
  <1>3. ASSUME NEW w \in Syncs \ spoiled, w = wiped
        PROVE  /\ pc'[w] = "adding" => Covered(read[w])' \/ Adds(w)'
               /\ pc'[w] = "answered" => Covered(read[w])'
    <2>1. (Covered(read[w])' <=> Covered(read[w])) /\ (Adds(w)' <=> Adds(w))
      BY DEF Covered, Adds
    <2>2. w \notin Searches
      BY MeiliAssumption DEF MeiliAssumption
    <2>3. QED
      BY <1>2, <1>3, <2>1, <2>2 DEF Kept, LastKept, Requests
  <1>4. QED
    BY <1>1, <1>3 DEF Kept, LastKept, Covered, Adds

\* A step that enqueues a task and does not answer.
LEMMA KeptEnqueue ==
  ASSUME Types, Kept, UNCHANGED <<docs, wiped, spoiled, read>>, NEW r \in Requests, NEW t \in Task,
         tasks' = Append(tasks, t), t.by = r,
         \A q \in Requests : q # r => pc'[q] = pc[q],
         pc[r] # "failed", pc[r] = "deleting" => Finished(r),
         t.kind = "delete" => pc'[r] = "deleting",
         pc'[r] = "adding" => t.kind = "add" /\ t.docs = read[r],
         pc'[r] # "answered"
  PROVE  Kept'
  <1>1. /\ Len(tasks) \in Nat /\ Len(tasks') = Len(tasks) + 1
        /\ tasks'[Len(tasks) + 1] = t
        /\ \A i \in 1..Len(tasks) : tasks'[i] = tasks[i] /\ tasks[i] \in Task
    BY QueueGrows DEF Types
  <1>2. DeletionsWaited'
    <2> SUFFICES ASSUME NEW i \in 1..Len(tasks'), tasks'[i].kind = "delete"
                 PROVE  pc'[tasks'[i].by] \in {"deleting", "failed"}
      BY DEF DeletionsWaited
    <2>1. CASE i = Len(tasks) + 1
      BY <1>1, <2>1
    <2>2. CASE i \in 1..Len(tasks)
      <3>1. tasks'[i] = tasks[i] /\ tasks[i].by \in Requests
            /\ pc[tasks[i].by] \in {"deleting", "failed"}
        BY <1>1, <2>2 DEF Kept, DeletionsWaited, Task
      <3>2. tasks[i].by = r => ~Finished(r)
        BY <2>2 DEF Finished, Range, Types
      <3>3. QED
        BY <3>1, <3>2
    <2>3. QED
      BY <1>1, <2>1, <2>2
  <1>3. ASSUME NEW w \in Syncs \ spoiled, w = wiped
        PROVE  /\ pc'[w] = "adding" => Covered(read[w])' \/ Adds(w)'
               /\ pc'[w] = "answered" => Covered(read[w])'
    <2>1. Covered(read[w])' <=> Covered(read[w])
      BY DEF Covered
    <2>2. Adds(w) => Adds(w)'
      BY <1>1 DEF Adds
    <2>3. CASE w = r /\ pc'[w] = "adding"
      <3>1. Len(tasks) + 1 \in 1..Len(tasks')
        BY <1>1
      <3>2. Adds(w)'
        BY <1>1, <2>3, <3>1 DEF Adds
      <3>3. QED
        BY <2>3, <3>2
    <2>4. QED
      BY <1>3, <2>1, <2>2, <2>3 DEF Kept, LastKept, Requests
  <1>4. QED
    BY <1>2, <1>3 DEF Kept, LastKept, Covered, Adds

LEMMA KeptStep == Types /\ Kept /\ [Next]_vars => Kept'
  <1> SUFFICES ASSUME Types, Kept, [Next]_vars PROVE Kept'
    OBVIOUS
  <1> USE MeiliAssumption DEF MeiliAssumption, Requests
  <1>1. CASE RunTask
    BY <1>1, KeptRun
  <1>2. CASE UNCHANGED <<docs, wiped, spoiled, read, tasks, pc>>
    BY <1>2 DEF Kept, DeletionsWaited, LastKept, Covered, Adds
  <1>3. ASSUME NEW r \in Requests, NEW k \in Kinds, NEW ds \in SUBSET Documents
        PROVE  [by |-> r, kind |-> k, docs |-> ds] \in Task
    BY DEF Task, Requests
  <1>4. ASSUME NEW s \in Syncs, SyncDelete(s) \/ SyncDeleted(s) PROVE Kept'
    <2>1. PICK k \in {"delete", "create"} :
            /\ tasks' = Append(tasks, [by |-> s, kind |-> k, docs |-> {}])
            /\ pc' = [pc EXCEPT ![s] = IF k = "delete" THEN "deleting" ELSE "creating"]
            /\ UNCHANGED <<docs, wiped, spoiled, read>>
            /\ pc[s] \in {"idle", "deleting"} /\ (pc[s] = "deleting" => Finished(s))
      BY <1>4 DEF SyncDelete, SyncDeleted, Enqueue
    <2> DEFINE t == [by |-> s, kind |-> k, docs |-> {}]
    <2>2. t \in Task
      BY <1>3 DEF Kinds
    <2>3. QED
      BY <2>1, <2>2, KeptEnqueue DEF Types
  <1>5. ASSUME NEW s \in Syncs, SyncAdd(s) PROVE Kept'
    <2> DEFINE t == [by |-> s, kind |-> "add", docs |-> read[s]]
    <2>1. t \in Task
      BY <1>3 DEF Kinds, Types
    <2>2. QED
      BY <1>5, <2>1, KeptEnqueue DEF SyncAdd, Enqueue, Types
  <1>6. ASSUME NEW r \in Requests, EnsureGet(r) \/ EnsureSettings(r) PROVE Kept'
    <2>1. CASE UNCHANGED tasks
      BY <1>6, <2>1, KeptMove DEF EnsureGet, EnsureSettings, Types
    <2>2. ASSUME NEW k \in {"create", "settings"}, Enqueue(r, k, {}) PROVE Kept'
      <3> DEFINE t == [by |-> r, kind |-> k, docs |-> {}]
      <3>1. t \in Task
        BY <1>3 DEF Kinds
      <3>2. QED
        BY <1>6, <2>2, <3>1, KeptEnqueue DEF EnsureGet, EnsureSettings, Enqueue, Types
    <2>3. QED
      BY <1>6, <2>1, <2>2 DEF EnsureGet, EnsureSettings
  <1>7. ASSUME NEW s \in Syncs, SyncRead(s) PROVE Kept'
    <2>1. /\ UNCHANGED <<docs, wiped, spoiled, tasks>>
          /\ pc[s] = "load" /\ pc'[s] = "add"
          /\ \A r \in Requests : r # s => pc'[r] = pc[r]
          /\ \A r \in Syncs : r # s => read'[r] = read[r]
      BY <1>7 DEF SyncRead, Types
    <2>2. \A i \in 1..Len(tasks) : tasks[i].by \in Requests
      BY TasksHaveAuthors
    <2>3. DeletionsWaited'
      BY <2>1, <2>2 DEF Kept, DeletionsWaited
    <2>4. ASSUME NEW w \in Syncs, w # s
          PROVE  (Covered(read[w])' <=> Covered(read[w])) /\ (Adds(w)' <=> Adds(w))
      BY <2>1, <2>4 DEF Covered, Adds
    <2>5. ASSUME NEW w \in Syncs \ spoiled, w = wiped
          PROVE  /\ pc'[w] = "adding" => Covered(read[w])' \/ Adds(w)'
                 /\ pc'[w] = "answered" => Covered(read[w])'
      BY <2>1, <2>4, <2>5 DEF Kept, LastKept
    <2>6. QED
      BY <2>1, <2>3, <2>5 DEF Kept, LastKept, Covered, Adds
  <1>8. ASSUME NEW s \in Syncs, SyncCreated(s) \/ SyncAnswer(s) PROVE Kept'
    BY <1>8, KeptMove DEF SyncCreated, SyncAnswer, Types
  <1>9. ASSUME NEW q \in Searches, Search(q) PROVE Kept'
    BY <1>9, KeptMove DEF Search, SearchStart, SearchQuery, Types
  <1>10. ASSUME NEW r \in Requests, EnsureCreated(r) \/ Ensured(r) \/ Fails(r) PROVE Kept'
    BY <1>10, KeptMove DEF EnsureCreated, Ensured, Prepared, Fails, Running, Types
  <1>11. QED
    BY <1>1, <1>2, <1>4, <1>5, <1>6, <1>7, <1>8, <1>9, <1>10
    DEF Next, Sync, Ensure, vars, Edit

-----------------------------------------------------------------------------
(* Where the documents of the index come from.                             *)

\* Since the deletion that took effect last, only syncs that ran beside its sync, or
\* began after it, have added documents, each what it had read.
Sent     == {"adding", "answered", "failed"}
Peers(s) == others[s] \cup {s}
Around   == \A s \in Syncs : pc[s] # "idle" => Running \cap Syncs \subseteq Peers(s)
OwnTasks ==
  \A i \in 1..Len(tasks) :
    /\ tasks[i].kind \in {"delete", "add"} => tasks[i].by \in Syncs
    /\ tasks[i].kind = "add" => pc[tasks[i].by] \in Sent /\ tasks[i].docs = read[tasks[i].by]
LateAdds ==
  \A i, j \in 1..Len(tasks) :
    tasks[i].kind = "delete" /\ tasks[j].kind = "add" /\ i < j => tasks[j].by \in Peers(tasks[i].by)
AddedBy(w) == \A i \in 1..Len(tasks) : tasks[i].kind = "add" => tasks[i].by \in Peers(w)
StemsFrom(w) == \A e \in docs : \E s \in Syncs : s \in Peers(w) /\ pc[s] \in Sent /\ e \in read[s]
AfterWipe == wiped \in Syncs => pc[wiped] # "idle" /\ AddedBy(wiped) /\ StemsFrom(wiped)
Sources == Around /\ OwnTasks /\ LateAdds /\ AfterWipe

LEMMA SourcesRun == ASSUME Types, Kept, Sources, RunTask PROVE Sources'
  <1>1. /\ tasks' \in Seq(Task) /\ Len(tasks) \in Nat \ {0} /\ Len(tasks') = Len(tasks) - 1
        /\ Head(tasks) = tasks[1] /\ tasks[1] \in Task
        /\ \A i \in 1..Len(tasks') : i + 1 \in 1..Len(tasks) /\ tasks'[i] = tasks[i + 1]
    BY QueueShrinks DEF RunTask, Types
  <1>2. UNCHANGED <<pc, read, others>>
    BY DEF RunTask
  <1>3. Around'
    BY <1>2 DEF Sources, Around, Running, Peers
  <1>4. OwnTasks'
    BY <1>1, <1>2 DEF Sources, OwnTasks
  <1>5. LateAdds'
    <2> SUFFICES ASSUME NEW i \in 1..Len(tasks'), NEW j \in 1..Len(tasks'),
                        tasks'[i].kind = "delete", tasks'[j].kind = "add", i < j
                 PROVE  tasks'[j].by \in Peers(tasks'[i].by)
      BY <1>2 DEF LateAdds, Peers
    <2>1. i + 1 < j + 1
      OBVIOUS
    <2>2. QED
      BY <1>1, <2>1 DEF Sources, LateAdds
  <1>6. CASE Succeeds(tasks[1]) /\ tasks[1].kind = "delete"
    <2>1. wiped' = tasks[1].by /\ docs' = {}
      BY <1>6 DEF Succeeds
    <2>2. 1 \in 1..Len(tasks)
      BY <1>1
    <2>3. pc[tasks[1].by] # "idle"
      BY <1>6, <2>2 DEF Kept, DeletionsWaited
    <2>4. ASSUME NEW j \in 1..Len(tasks'), tasks'[j].kind = "add"
          PROVE  tasks'[j].by \in Peers(tasks[1].by)
      <3>1. 1 < j + 1
        OBVIOUS
      <3>2. QED
        BY <1>1, <1>6, <2>2, <2>4, <3>1 DEF Sources, LateAdds
    <2>5. AddedBy(wiped)'
      BY <1>2, <2>1, <2>4 DEF AddedBy, Peers
    <2>6. AfterWipe'
      BY <1>2, <2>1, <2>3, <2>5 DEF AfterWipe, StemsFrom
    <2>7. QED
      BY <1>3, <1>4, <1>5, <2>6 DEF Sources
  <1>7. CASE ~(Succeeds(tasks[1]) /\ tasks[1].kind = "delete")
    <2>1. /\ wiped' = wiped
          /\ docs' = docs \/ (tasks[1].kind = "add" /\ docs' = Upserted(tasks[1].docs))
      BY <1>1, <1>7 DEF RunTask, Succeeds, Spoils
    <2> SUFFICES ASSUME NEW w \in Syncs, w = wiped
                 PROVE  pc[w] # "idle" /\ AddedBy(w)' /\ StemsFrom(w)'
      BY <1>2, <1>3, <1>4, <1>5, <2>1 DEF Sources, AfterWipe, AddedBy, StemsFrom, Peers
    <2>2. pc[w] # "idle" /\ AddedBy(w) /\ StemsFrom(w)
      BY DEF Sources, AfterWipe
    <2>3. AddedBy(w)'
      BY <1>1, <1>2, <2>2 DEF AddedBy, Peers
    <2>4. 1 \in 1..Len(tasks)
      BY <1>1
    <2>5. ASSUME NEW e \in docs'
          PROVE  \E s \in Syncs : s \in Peers(w) /\ pc[s] \in Sent /\ e \in read[s]
      <3>1. CASE e \in docs
        BY <2>2, <3>1 DEF StemsFrom
      <3>2. CASE e \notin docs
        <4>1. tasks[1].kind = "add" /\ e \in tasks[1].docs
          BY <2>1, <2>5, <3>2 DEF Upserted
        <4>2. QED
          BY <2>2, <2>4, <4>1 DEF Sources, OwnTasks, AddedBy
      <3>3. QED
        BY <3>1, <3>2
    <2>6. QED
      BY <1>2, <2>2, <2>3, <2>5 DEF StemsFrom, Peers
  <1>8. QED
    BY <1>6, <1>7

\* A step of a request, with a task of its own at the end of the queue or without.
LEMMA SourcesMove ==
  ASSUME Types, Kept, Sources, UNCHANGED <<docs, wiped>>, NEW r \in Requests,
         \A q \in Requests : q # r => pc'[q] = pc[q],
         pc'[r] # "idle", pc[r] \in Sent => pc'[r] \in Sent,
         \A s \in Syncs : pc[s] \in Sent => read'[s] = read[s],
         \A s \in Syncs : pc[s] # "idle" => Peers(s) \subseteq Peers(s)',
         Around',
         \/ tasks' = tasks
         \/ \E t \in Task :
              /\ tasks' = Append(tasks, t) /\ t.by = r
              /\ t.kind \in {"delete", "add"} => r \in Syncs
              /\ t.kind = "add" => r \in Running /\ pc'[r] \in Sent /\ t.docs = read'[r]
  PROVE  Sources'
  <1>1. \A s \in Syncs : s \in Requests
    BY DEF Requests
  <1>2. \A s \in Syncs : pc[s] \in Sent => pc'[s] \in Sent
    BY <1>1
  <1>3. \A s \in Syncs : pc[s] # "idle" => pc'[s] # "idle"
    BY <1>1
  <1>4. ASSUME NEW w \in Syncs, pc[w] # "idle", StemsFrom(w) PROVE StemsFrom(w)'
    BY <1>2, <1>4 DEF StemsFrom
  <1>5. CASE tasks' = tasks
    <2>1. OwnTasks'
      BY <1>2, <1>5 DEF Sources, OwnTasks
    <2>2. LateAdds'
      BY <1>5 DEF Sources, LateAdds, OwnTasks, Kept, DeletionsWaited
    <2>3. ASSUME NEW w \in Syncs, pc[w] # "idle", AddedBy(w) PROVE AddedBy(w)'
      BY <1>5, <2>3 DEF AddedBy
    <2>4. AfterWipe'
      BY <1>3, <1>4, <2>3 DEF Sources, AfterWipe
    <2>5. QED
      BY <2>1, <2>2, <2>4 DEF Sources
  <1>6. ASSUME NEW t \in Task, tasks' = Append(tasks, t), t.by = r,
               t.kind \in {"delete", "add"} => r \in Syncs,
               t.kind = "add" => r \in Running /\ pc'[r] \in Sent /\ t.docs = read'[r]
        PROVE  Sources'
    <2>1. /\ Len(tasks) \in Nat /\ Len(tasks') = Len(tasks) + 1
          /\ tasks'[Len(tasks) + 1] = t
          /\ \A i \in 1..Len(tasks) : tasks'[i] = tasks[i]
      BY <1>6, QueueGrows DEF Types
    <2>2. \A j \in 1..Len(tasks') :
            (j \in 1..Len(tasks) /\ tasks'[j] = tasks[j]) \/ (j = Len(tasks) + 1 /\ tasks'[j] = t)
      BY <2>1
    <2>3. OwnTasks'
      <3> SUFFICES ASSUME NEW i \in 1..Len(tasks')
                   PROVE  /\ tasks'[i].kind \in {"delete", "add"} => tasks'[i].by \in Syncs
                          /\ tasks'[i].kind = "add" => /\ pc'[tasks'[i].by] \in Sent
                                                       /\ tasks'[i].docs = read'[tasks'[i].by]
        BY DEF OwnTasks
      <3>1. CASE tasks'[i] = t
        BY <1>6, <3>1
      <3>2. CASE i \in 1..Len(tasks) /\ tasks'[i] = tasks[i]
        BY <1>2, <3>2 DEF Sources, OwnTasks
      <3>3. QED
        BY <2>2, <3>1, <3>2
    <2>4. \A w \in Syncs : t.kind = "add" /\ pc[w] # "idle" => r \in Peers(w)'
      BY <1>6 DEF Sources, Around
    <2>5. LateAdds'
      <3> SUFFICES ASSUME NEW i \in 1..Len(tasks'), NEW j \in 1..Len(tasks'),
                          tasks'[i].kind = "delete", tasks'[j].kind = "add", i < j
                   PROVE  tasks'[j].by \in others'[tasks'[i].by] \cup {tasks'[i].by}
        BY DEF LateAdds, Peers
      <3>1. i \in 1..Len(tasks) /\ tasks'[i] = tasks[i] /\ tasks[i].by \in Syncs
        BY <2>1, <2>2 DEF Sources, OwnTasks
      <3>4. pc[tasks[i].by] # "idle"
        BY <3>1 DEF Kept, DeletionsWaited
      <3>2. CASE j \in 1..Len(tasks) /\ tasks'[j] = tasks[j]
        BY <3>1, <3>2, <3>4 DEF Sources, LateAdds, Peers
      <3>3. CASE tasks'[j] = t
        BY <1>6, <2>4, <3>1, <3>3, <3>4 DEF Peers
      <3>5. QED
        BY <2>2, <3>2, <3>3
    <2>6. ASSUME NEW w \in Syncs, AddedBy(w), pc[w] # "idle" PROVE AddedBy(w)'
      BY <1>6, <2>2, <2>4, <2>6 DEF AddedBy
    <2>7. AfterWipe'
      BY <1>3, <1>4, <2>6 DEF Sources, AfterWipe
    <2>8. QED
      BY <2>3, <2>5, <2>7 DEF Sources
  <1>7. QED
    BY <1>5, <1>6

LEMMA SourcesStep == Types /\ Kept /\ Sources /\ [Next]_vars => Sources'
  <1> SUFFICES ASSUME Types, Kept, Sources, [Next]_vars PROVE Sources'
    OBVIOUS
  <1> USE MeiliAssumption DEF MeiliAssumption, Requests
  <1>0. pc \in [Requests -> Stages] /\ others \in [Requests -> SUBSET Syncs]
        /\ read \in [Syncs -> SUBSET Documents]
    BY DEF Types
  <1>1. CASE RunTask
    BY <1>1, SourcesRun
  <1>2. CASE UNCHANGED <<docs, wiped, read, tasks, pc, others>>
    BY <1>2 DEF Sources, Around, OwnTasks, LateAdds, AfterWipe, AddedBy, StemsFrom, Running, Peers
  <1>3. ASSUME NEW r \in Requests, NEW k \in Kinds, NEW ds \in SUBSET Documents
        PROVE  [by |-> r, kind |-> k, docs |-> ds] \in Task
    BY DEF Task, Requests
  <1>4. ASSUME NEW r \in Running, NEW p, pc' = [pc EXCEPT ![r] = p], UNCHANGED others
        PROVE  Around' /\ \A s \in Syncs : pc[s] # "idle" => Peers(s) \subseteq Peers(s)'
    BY <1>0, <1>4 DEF Sources, Around, Running, Peers
  <1>5. ASSUME NEW s \in Syncs, SyncDelete(s) PROVE Sources'
    <2> DEFINE t == [by |-> s, kind |-> "delete", docs |-> {}]
    <2>1. t \in Task /\ t.by = s /\ t.kind = "delete"
      BY <1>3 DEF Kinds
    <2> HIDE DEF t
    <2>2. tasks' = Append(tasks, t)
      BY <1>5 DEF SyncDelete, Enqueue, t
    <2>3. /\ pc[s] = "idle" /\ pc' = [pc EXCEPT ![s] = "deleting"]
          /\ UNCHANGED <<docs, wiped, read>> /\ Meets(s)
      BY <1>5 DEF SyncDelete
    <2>4. \A w \in Syncs : w # s => others'[w] = IF pc[w] = "idle" THEN others[w]
                                                 ELSE others[w] \cup {s}
      BY <2>3 DEF Meets
    <2>5. others'[s] = Running \cap Syncs
      BY <2>3 DEF Meets
    <2>6. Running' \cap Syncs = (Running \cap Syncs) \cup {s}
      BY <1>0, <2>3 DEF Running
    <2>7. Around'
      <3> SUFFICES ASSUME NEW w \in Syncs, pc'[w] # "idle"
                   PROVE  Running' \cap Syncs \subseteq others'[w] \cup {w}
        BY DEF Around, Peers
      <3>1. CASE w = s
        BY <2>5, <2>6, <3>1
      <3>2. CASE w # s
        <4>1. pc[w] # "idle"
          BY <1>0, <2>3, <3>2
        <4>2. Running \cap Syncs \subseteq others[w] \cup {w}
          BY <4>1 DEF Sources, Around, Peers
        <4>3. others'[w] = others[w] \cup {s}
          BY <2>4, <3>2, <4>1
        <4>4. QED
          BY <2>6, <4>2, <4>3
      <3>3. QED
        BY <3>1, <3>2
    <2>8. \A w \in Syncs : pc[w] # "idle" => Peers(w) \subseteq Peers(w)'
      BY <2>3, <2>4 DEF Peers
    <2>9. QED
      BY <1>0, <2>1, <2>2, <2>3, <2>7, <2>8, SourcesMove DEF Sent
  <1>6. ASSUME NEW s \in Syncs, SyncDeleted(s) PROVE Sources'
    <2> DEFINE t == [by |-> s, kind |-> "create", docs |-> {}]
    <2>1. t \in Task /\ t.by = s /\ t.kind = "create"
      BY <1>3 DEF Kinds
    <2> HIDE DEF t
    <2>2. tasks' = Append(tasks, t)
      BY <1>6 DEF SyncDeleted, Enqueue, t
    <2>3. QED
      BY <1>0, <1>4, <1>6, <2>1, <2>2, SourcesMove DEF SyncDeleted, Running, Sent
  <1>7. ASSUME NEW s \in Syncs, SyncAdd(s) PROVE Sources'
    <2> DEFINE t == [by |-> s, kind |-> "add", docs |-> read[s]]
    <2>1. t \in Task /\ t.by = s /\ t.kind = "add" /\ t.docs = read[s]
      BY <1>0, <1>3 DEF Kinds
    <2> HIDE DEF t
    <2>2. tasks' = Append(tasks, t)
      BY <1>7 DEF SyncAdd, Enqueue, t
    <2>3. QED
      BY <1>0, <1>4, <1>7, <2>1, <2>2, SourcesMove DEF SyncAdd, Running, Sent
  <1>8. ASSUME NEW r \in Requests, EnsureGet(r) \/ EnsureSettings(r) PROVE Sources'
    <2>1. /\ r \in Running /\ pc' = [pc EXCEPT ![r] = pc'[r]]
          /\ pc[r] \in {"ensure", "attributes"} /\ pc'[r] \in {"attributes", "recreating", "setting"}
          /\ UNCHANGED <<docs, wiped, read, others>>
      BY <1>0, <1>8 DEF EnsureGet, EnsureSettings, Running
    <2>2. tasks' = tasks \/ \E k \in {"create", "settings"} : Enqueue(r, k, {})
      BY <1>8 DEF EnsureGet, EnsureSettings
    <2>3. \/ tasks' = tasks
          \/ \E t \in Task : /\ tasks' = Append(tasks, t) /\ t.by = r
                             /\ t.kind \notin {"delete", "add"}
      <3>1. ASSUME NEW k \in {"create", "settings"}
            PROVE  /\ [by |-> r, kind |-> k, docs |-> {}] \in Task
                   /\ k \notin {"delete", "add"}
        BY <1>3 DEF Kinds
      <3>2. QED
        BY <2>2, <3>1 DEF Enqueue
    <2>4. Around' /\ \A s \in Syncs : pc[s] # "idle" => Peers(s) \subseteq Peers(s)'
      BY <1>4, <2>1
    <2>5. /\ \A q \in Requests : q # r => pc'[q] = pc[q]
          /\ pc'[r] # "idle" /\ pc[r] \notin Sent
      BY <1>0, <2>1 DEF Sent
    <2>6. QED
      BY <2>1, <2>3, <2>4, <2>5, SourcesMove
  <1>9. ASSUME NEW s \in Syncs, SyncRead(s) PROVE Sources'
    <2>1. /\ s \in Running /\ pc' = [pc EXCEPT ![s] = "add"] /\ pc[s] = "load"
          /\ UNCHANGED <<docs, wiped, tasks, others>>
          /\ \A w \in Syncs : w # s => read'[w] = read[w]
      BY <1>0, <1>9 DEF SyncRead, Running
    <2>2. QED
      BY <1>0, <1>4, <2>1, SourcesMove DEF Sent
  <1>10. ASSUME NEW s \in Syncs, SyncCreated(s) \/ SyncAnswer(s) PROVE Sources'
    <2>1. /\ s \in Running /\ pc' = [pc EXCEPT ![s] = pc'[s]]
          /\ pc'[s] # "idle" /\ (pc[s] \in Sent => pc'[s] \in Sent)
          /\ UNCHANGED <<docs, wiped, read, tasks, others>>
      BY <1>0, <1>10 DEF SyncCreated, SyncAnswer, Running, Sent
    <2>2. QED
      BY <1>0, <1>4, <2>1, SourcesMove
  <1>11. ASSUME NEW q \in Searches, SearchStart(q) PROVE Sources'
    <2>1. /\ pc' = [pc EXCEPT ![q] = "ensure"] /\ pc[q] = "idle"
          /\ UNCHANGED <<docs, wiped, read, tasks>>
          /\ \A s \in Syncs : others'[s] = others[s]
      BY <1>0, <1>11 DEF SearchStart
    <2>2. Around' /\ \A s \in Syncs : pc[s] # "idle" => Peers(s) \subseteq Peers(s)'
      BY <1>0, <2>1 DEF Sources, Around, Running, Peers
    <2>3. QED
      BY <1>0, <2>1, <2>2, SourcesMove DEF Sent
  <1>12. ASSUME NEW r \in Requests,
                SearchQuery(r) \/ EnsureCreated(r) \/ Ensured(r) \/ Fails(r)
         PROVE  Sources'
    <2>1. /\ r \in Running /\ pc' = [pc EXCEPT ![r] = pc'[r]]
          /\ pc'[r] # "idle" /\ (pc[r] \in Sent => pc'[r] \in Sent)
          /\ UNCHANGED <<docs, wiped, read, tasks, others>>
      BY <1>0, <1>12 DEF SearchQuery, EnsureCreated, Ensured, Prepared, Fails, Running, Sent
    <2>2. QED
      BY <1>0, <1>4, <2>1, SourcesMove
  <1>13. QED
    BY <1>1, <1>2, <1>5, <1>6, <1>7, <1>8, <1>9, <1>10, <1>11, <1>12
    DEF Next, Sync, Ensure, Search, vars, Edit

-----------------------------------------------------------------------------
(* Requests during which no other sync has run.                            *)

Harmless(t) == t.kind \in {"create", "settings"}
Quiet       == \A i \in 1..Len(tasks) : Harmless(tasks[i])
NoDeletion  == \A i \in 1..Len(tasks) : tasks[i].kind # "delete"

\* The task of s that is waited for, and what the queue holds beside it.
Deletes(s) ==
  \E i \in 1..Len(tasks) :
    /\ tasks[i].by = s /\ tasks[i].kind = "delete"
    /\ \A j \in 1..Len(tasks) : j > i => Harmless(tasks[j])
AddsOnly(s) ==
  \E i \in 1..Len(tasks) :
    /\ tasks[i].by = s /\ tasks[i].kind = "add" /\ tasks[i].docs = read[s]
    /\ \A j \in 1..Len(tasks) : j # i => Harmless(tasks[j])
Settles(q) ==
  \E i \in 1..Len(tasks) :
    /\ tasks[i].by = q /\ tasks[i].kind = "settings"
    /\ \A j \in 1..Len(tasks) : j > i => tasks[j].kind # "delete"

Empties == {"creating", "ensure", "recreating", "attributes", "setting", "load", "add"}

SyncPlace(s) ==
  /\ pc[s] = "deleting" => Deletes(s) \/ (docs = {} /\ Quiet)
  /\ pc[s] \in Empties  => docs = {} /\ Quiet
  /\ pc[s] = "adding"   => (docs = {} /\ AddsOnly(s)) \/ (docs = read[s] /\ Quiet)
  /\ pc[s] = "answered" => docs = read[s] /\ Quiet
SearchPlace(q) ==
  /\ pc[q] = "setting" => Settles(q) \/ (exists /\ NoDeletion)
  /\ pc[q] = "query"   => exists /\ NoDeletion
  /\ pc[q] # "missing"

SyncSolo   == \A s \in Undisturbed \cap Syncs : Running \cap Syncs \subseteq {s} /\ SyncPlace(s)
SearchSolo == \A q \in Undisturbed \cap Searches : Running \cap Syncs = {} /\ SearchPlace(q)
Solo == SyncSolo /\ SearchSolo

IInv == Types /\ Kept /\ Sources /\ Solo

\* Meilisearch runs a task.
LEMMA SoloRun == ASSUME Types, Solo, RunTask PROVE Solo'
  <1>1. /\ tasks' \in Seq(Task) /\ Len(tasks) \in Nat \ {0} /\ Len(tasks') = Len(tasks) - 1
        /\ Head(tasks) = tasks[1] /\ tasks[1] \in Task
        /\ \A i \in 1..Len(tasks') : tasks'[i] = tasks[i + 1]
    BY QueueShrinks DEF RunTask, Types
  <1>2. UNCHANGED <<pc, read, others, Running>> /\ Undisturbed' \subseteq Undisturbed
    BY DEF RunTask, Running, Succeeds, Spoils, Undisturbed
  <1>0. CASE Spoils(tasks[1])
    <2>1. /\ exists' = exists /\ docs' = docs /\ tasks[1].by \notin Undisturbed'
      BY <1>0 DEF Spoils, Undisturbed
    <2>2. \A i \in 1..Len(tasks) : tasks[i].by # tasks[1].by =>
            i > 1 /\ i - 1 \in 1..Len(tasks') /\ tasks'[i - 1] = tasks[i]
      BY <1>1
    <2>3. \A i \in 1..Len(tasks') : i + 1 \in 1..Len(tasks) /\ tasks'[i] = tasks[i + 1]
      BY <1>1
    <2>4. (Quiet => Quiet') /\ (NoDeletion => NoDeletion')
      BY <2>3 DEF Quiet, NoDeletion, Harmless
    <2>5. ASSUME NEW s, s # tasks[1].by, Deletes(s) PROVE Deletes(s)'
      <3>1. PICK i \in 1..Len(tasks) :
              /\ tasks[i].by = s /\ tasks[i].kind = "delete"
              /\ \A j \in 1..Len(tasks) : j > i => Harmless(tasks[j])
        BY <2>5 DEF Deletes
      <3>2. \A j \in 1..Len(tasks') : j > i - 1 => Harmless(tasks'[j])
        BY <2>3, <3>1
      <3>3. QED
        BY <2>2, <2>5, <3>1, <3>2 DEF Deletes, Harmless
    <2>6. ASSUME NEW s, s # tasks[1].by, AddsOnly(s) PROVE AddsOnly(s)'
      <3>1. PICK i \in 1..Len(tasks) :
              /\ tasks[i].by = s /\ tasks[i].kind = "add" /\ tasks[i].docs = read[s]
              /\ \A j \in 1..Len(tasks) : j # i => Harmless(tasks[j])
        BY <2>6 DEF AddsOnly
      <3>2. \A j \in 1..Len(tasks') : j # i - 1 => Harmless(tasks'[j])
        BY <2>3, <3>1
      <3>3. QED
        BY <1>2, <2>2, <2>6, <3>1, <3>2 DEF AddsOnly, Harmless
    <2>7. ASSUME NEW q, q # tasks[1].by, Settles(q) PROVE Settles(q)'
      <3>1. PICK i \in 1..Len(tasks) :
              /\ tasks[i].by = q /\ tasks[i].kind = "settings"
              /\ \A j \in 1..Len(tasks) : j > i => tasks[j].kind # "delete"
        BY <2>7 DEF Settles
      <3>2. \A j \in 1..Len(tasks') : j > i - 1 => tasks'[j].kind # "delete"
        BY <2>3, <3>1
      <3>3. QED
        BY <2>2, <2>7, <3>1, <3>2 DEF Settles
    <2>8. ASSUME NEW s \in Undisturbed' \cap Syncs PROVE SyncPlace(s)'
      BY <1>2, <2>1, <2>4, <2>5, <2>6, <2>8 DEF Solo, SyncSolo, SyncPlace
    <2>9. ASSUME NEW q \in Undisturbed' \cap Searches PROVE SearchPlace(q)'
      BY <1>2, <2>1, <2>4, <2>7, <2>9 DEF Solo, SearchSolo, SearchPlace
    <2>10. QED
      BY <1>2, <2>8, <2>9 DEF Solo, SyncSolo, SearchSolo
  <1> SUFFICES ASSUME Succeeds(tasks[1]) PROVE Solo'
    BY <1>0, <1>1 DEF RunTask
  <1>3. /\ exists' = (tasks[1].kind # "delete")
        /\ tasks[1].kind = "delete" => docs' = {}
        /\ tasks[1].kind = "add" => docs' = Upserted(tasks[1].docs)
        /\ Harmless(tasks[1]) => docs' = docs
    BY <1>1 DEF Succeeds, Harmless
  <1>4. \A i \in 1..Len(tasks) : i # 1 => i - 1 \in 1..Len(tasks') /\ tasks'[i - 1] = tasks[i]
    BY <1>1
  <1>5. \A i \in 1..Len(tasks') : i + 1 \in 1..Len(tasks) /\ tasks'[i] = tasks[i + 1]
    BY <1>1
  <1>6. 1 \in 1..Len(tasks)
    BY <1>1
  <1>7. Quiet => Quiet' /\ Harmless(tasks[1])
    BY <1>5, <1>6 DEF Quiet, Harmless
  <1>8. NoDeletion => NoDeletion' /\ tasks[1].kind # "delete"
    BY <1>5, <1>6 DEF NoDeletion
  <1>9. ASSUME NEW s, Deletes(s) PROVE Deletes(s)' \/ (docs' = {} /\ Quiet')
    <2>1. PICK i \in 1..Len(tasks) :
            /\ tasks[i].by = s /\ tasks[i].kind = "delete"
            /\ \A j \in 1..Len(tasks) : j > i => Harmless(tasks[j])
      BY <1>9 DEF Deletes
    <2>2. CASE i = 1
      <3>1. \A j \in 1..Len(tasks') : Harmless(tasks'[j])
        BY <1>5, <2>1, <2>2
      <3>2. QED
        BY <1>3, <2>1, <2>2, <3>1 DEF Quiet, Harmless
    <2>3. CASE i # 1
      <3>1. \A j \in 1..Len(tasks') : j > i - 1 => Harmless(tasks'[j])
        BY <1>5, <2>1
      <3>2. QED
        BY <1>4, <2>1, <2>3, <3>1 DEF Deletes, Harmless
    <2>4. QED
      BY <2>2, <2>3
  <1>10. ASSUME NEW s, AddsOnly(s), docs = {}
         PROVE  (docs' = {} /\ AddsOnly(s)') \/ (docs' = read[s]' /\ Quiet')
    <2>1. PICK i \in 1..Len(tasks) :
            /\ tasks[i].by = s /\ tasks[i].kind = "add" /\ tasks[i].docs = read[s]
            /\ \A j \in 1..Len(tasks) : j # i => Harmless(tasks[j])
      BY <1>10 DEF AddsOnly
    <2>2. CASE i = 1
      <3>1. docs' = read[s]
        BY <1>3, <1>10, <2>1, <2>2 DEF Upserted
      <3>2. \A j \in 1..Len(tasks') : Harmless(tasks'[j])
        BY <1>5, <2>1, <2>2
      <3>3. QED
        BY <1>2, <3>1, <3>2 DEF Quiet, Harmless
    <2>3. CASE i # 1
      <3>1. docs' = {}
        BY <1>3, <1>6, <1>10, <2>1, <2>3
      <3>2. \A j \in 1..Len(tasks') : j # i - 1 => Harmless(tasks'[j])
        BY <1>5, <2>1
      <3>3. QED
        BY <1>2, <1>4, <2>1, <2>3, <3>1, <3>2 DEF AddsOnly, Harmless
    <2>4. QED
      BY <2>2, <2>3
  <1>11. ASSUME NEW q, Settles(q) PROVE Settles(q)' \/ (exists' /\ NoDeletion')
    <2>1. PICK i \in 1..Len(tasks) :
            /\ tasks[i].by = q /\ tasks[i].kind = "settings"
            /\ \A j \in 1..Len(tasks) : j > i => tasks[j].kind # "delete"
      BY <1>11 DEF Settles
    <2>2. CASE i = 1
      <3>1. ASSUME NEW j \in 1..Len(tasks') PROVE tasks'[j].kind # "delete"
        <4>1. j + 1 > 1
          OBVIOUS
        <4>2. QED
          BY <1>5, <2>1, <2>2, <4>1
      <3>2. QED
        BY <1>3, <2>1, <2>2, <3>1 DEF NoDeletion
    <2>3. CASE i # 1
      <3>1. \A j \in 1..Len(tasks') : j > i - 1 => tasks'[j].kind # "delete"
        BY <1>5, <2>1
      <3>2. QED
        BY <1>4, <2>1, <2>3, <3>1 DEF Settles
    <2>4. QED
      BY <2>2, <2>3
  <1>12. ASSUME NEW s \in Undisturbed \cap Syncs PROVE SyncPlace(s)'
    BY <1>2, <1>3, <1>7, <1>9, <1>10 DEF Solo, SyncSolo, SyncPlace
  <1>13. ASSUME NEW q \in Undisturbed \cap Searches PROVE SearchPlace(q)'
    BY <1>2, <1>3, <1>8, <1>11 DEF Solo, SearchSolo, SearchPlace
  <1>14. QED
    BY <1>2, <1>12, <1>13 DEF Solo, SyncSolo, SearchSolo

\* A request's tasks are no longer in the queue when it has waited for them.
LEMMA Waited ==
  ASSUME Types, NEW r, Finished(r)
  PROVE  ~Deletes(r) /\ ~AddsOnly(r) /\ ~Settles(r)
  <1>1. \A i \in 1..Len(tasks) : tasks[i] \in Range(tasks)
    BY DEF Range, Types
  <1>2. QED
    BY <1>1 DEF Finished, Deletes, AddsOnly, Settles

\* What one more task at the end of the queue leaves true.
LEMMA SoloGrows ==
  ASSUME Types, NEW t \in Task, tasks' = Append(tasks, t), Harmless(t), UNCHANGED read
  PROVE  /\ Quiet => Quiet'
         /\ NoDeletion => NoDeletion'
         /\ t.kind = "settings" => Settles(t.by)'
         /\ \A s : Deletes(s) => Deletes(s)'
         /\ \A s : AddsOnly(s) => AddsOnly(s)'
         /\ \A s : Settles(s) => Settles(s)'
  <1>1. /\ Len(tasks) \in Nat /\ Len(tasks') = Len(tasks) + 1
        /\ tasks'[Len(tasks) + 1] = t
        /\ \A i \in 1..Len(tasks) : tasks'[i] = tasks[i]
    BY QueueGrows DEF Types
  <1>2. \A j \in 1..Len(tasks') :
          (j \in 1..Len(tasks) /\ tasks'[j] = tasks[j]) \/ (j = Len(tasks) + 1 /\ tasks'[j] = t)
    BY <1>1
  <1>3. t.kind # "delete"
    BY DEF Harmless
  <1>4. (Quiet => Quiet') /\ (NoDeletion => NoDeletion')
    BY <1>2, <1>3 DEF Quiet, NoDeletion, Harmless
  <1>5. t.kind = "settings" => Settles(t.by)'
    <2>1. Len(tasks) + 1 \in 1..Len(tasks')
      BY <1>1
    <2>2. \A j \in 1..Len(tasks') : ~(j > Len(tasks) + 1)
      BY <1>1
    <2>3. QED
      BY <1>1, <2>1, <2>2 DEF Settles
  <1>6. ASSUME NEW s, Deletes(s) PROVE Deletes(s)'
    <2>1. PICK i \in 1..Len(tasks) :
            /\ tasks[i].by = s /\ tasks[i].kind = "delete"
            /\ \A j \in 1..Len(tasks) : j > i => Harmless(tasks[j])
      BY <1>6 DEF Deletes
    <2>2. i \in 1..Len(tasks') /\ tasks'[i] = tasks[i]
      BY <1>1
    <2>3. \A j \in 1..Len(tasks') : j > i => Harmless(tasks'[j])
      BY <1>2, <2>1
    <2>4. QED
      BY <2>1, <2>2, <2>3 DEF Deletes, Harmless
  <1>7. ASSUME NEW s, AddsOnly(s) PROVE AddsOnly(s)'
    <2>1. PICK i \in 1..Len(tasks) :
            /\ tasks[i].by = s /\ tasks[i].kind = "add" /\ tasks[i].docs = read[s]
            /\ \A j \in 1..Len(tasks) : j # i => Harmless(tasks[j])
      BY <1>7 DEF AddsOnly
    <2>2. i \in 1..Len(tasks') /\ tasks'[i] = tasks[i]
      BY <1>1
    <2>3. \A j \in 1..Len(tasks') : j # i => Harmless(tasks'[j])
      BY <1>2, <2>1
    <2>4. QED
      BY <2>1, <2>2, <2>3 DEF AddsOnly, Harmless
  <1>8. ASSUME NEW s, Settles(s) PROVE Settles(s)'
    <2>1. PICK i \in 1..Len(tasks) :
            /\ tasks[i].by = s /\ tasks[i].kind = "settings"
            /\ \A j \in 1..Len(tasks) : j > i => tasks[j].kind # "delete"
      BY <1>8 DEF Settles
    <2>2. i \in 1..Len(tasks') /\ tasks'[i] = tasks[i]
      BY <1>1
    <2>3. \A j \in 1..Len(tasks') : j > i => tasks'[j].kind # "delete"
      BY <1>2, <1>3, <2>1
    <2>4. QED
      BY <2>1, <2>2, <2>3 DEF Settles
  <1>9. QED
    BY <1>4, <1>5, <1>6, <1>7, <1>8

LEMMA InitInv == ASSUME Init PROVE IInv
  <1> USE DEF Init
  <1>1. Types
    <2>1. version \in [Articles -> 0..MaxVersion] /\ active \subseteq Articles
      BY MeiliAssumption DEF MeiliAssumption
    <2>2. tasks \in Seq(Task) /\ read \in [Syncs -> SUBSET Documents]
      OBVIOUS
    <2>3. \A r \in Requests : pc[r] = "idle"
      OBVIOUS
    <2>4. pc \in [Requests -> Stages]
      BY DEF Stages
    <2>5. QED
      BY <2>1, <2>2, <2>3, <2>4 DEF Types, Requests
  <1>2. Kept
    BY MeiliAssumption DEF Kept, DeletionsWaited, LastKept, MeiliAssumption
  <1>3. Solo
    BY DEF Solo, SyncSolo, SearchSolo, Undisturbed
  <1>4. Sources
    BY MeiliAssumption DEF Sources, Around, OwnTasks, LateAdds, AfterWipe, Requests, MeiliAssumption
  <1>5. QED
    BY <1>1, <1>2, <1>3, <1>4 DEF IInv

\* A step of a running sync: nobody else is undisturbed.
LEMMA SoloOfSync ==
  ASSUME Types, Solo, NEW s \in Syncs, s \in Running, UNCHANGED history, pc' \in [Requests -> Stages],
         \A q \in Requests : q # s => pc'[q] = pc[q],
         s \in Undisturbed => SyncPlace(s)'
  PROVE  Solo'
  <1>0. Undisturbed' \subseteq Undisturbed
    BY DEF Undisturbed, Running
  <1>1. Undisturbed \cap Syncs \subseteq {s} /\ Undisturbed \cap Searches = {}
    BY DEF Solo, SyncSolo, SearchSolo
  <1>2. Running' \subseteq Running \cup {s}
    BY DEF Running
  <1>3. Running' \cap Syncs \subseteq Running \cap Syncs
    BY <1>2
  <1>4. QED
    BY <1>0, <1>1, <1>3 DEF Solo, SyncSolo, SearchSolo

\* A step of a search.
LEMMA SoloOfSearch ==
  ASSUME Types, Solo, NEW q \in Searches, UNCHANGED <<exists, docs, read>>,
         pc' \in [Requests -> Stages], \A r \in Requests : r # q => pc'[r] = pc[r],
         \/ tasks' = tasks
         \/ \E t \in Task : Harmless(t) /\ tasks' = Append(tasks, t),
         \/ Undisturbed' \subseteq Undisturbed
         \/ Undisturbed' \subseteq Undisturbed \cup {q} /\ Running \cap Syncs = {},
         q \in Undisturbed' => SearchPlace(q)'
  PROVE  Solo'
  <1>1. Running' \subseteq Running \cup {q}
    BY DEF Running
  <1>2. Running' \cap Syncs \subseteq Running \cap Syncs
    BY <1>1, MeiliAssumption DEF MeiliAssumption
  <1> DEFINE Grows ==
        /\ Quiet => Quiet'
        /\ NoDeletion => NoDeletion'
        /\ \A s : Deletes(s) => Deletes(s)'
        /\ \A s : AddsOnly(s) => AddsOnly(s)'
        /\ \A s : Settles(s) => Settles(s)'
  <1>3. Grows
    <2>1. CASE tasks' = tasks
      BY <2>1 DEF Quiet, NoDeletion, Deletes, AddsOnly, Settles
    <2>2. ASSUME NEW t \in Task, Harmless(t), tasks' = Append(tasks, t)
          PROVE  Grows
      BY <2>2, SoloGrows
    <2>3. QED
      BY <2>1, <2>2
  <1>4. ASSUME NEW s \in Undisturbed' \cap Syncs PROVE Running' \cap Syncs \subseteq {s} /\ SyncPlace(s)'
    <2>1. s \in Undisturbed \cap Syncs /\ pc'[s] = pc[s]
      BY <1>4, MeiliAssumption DEF MeiliAssumption, Requests
    <2>2. QED
      BY <1>2, <1>3, <2>1 DEF Solo, SyncSolo, SyncPlace
  <1>5. ASSUME NEW p \in Undisturbed' \cap Searches, p # q
        PROVE  Running' \cap Syncs = {} /\ SearchPlace(p)'
    <2>1. p \in Undisturbed \cap Searches /\ pc'[p] = pc[p]
      BY <1>5 DEF Requests
    <2>2. QED
      BY <1>2, <1>3, <2>1 DEF Solo, SearchSolo, SearchPlace
  <1>6. q \in Undisturbed' => Running' \cap Syncs = {}
    BY <1>2 DEF Solo, SearchSolo
  <1>7. QED
    BY <1>4, <1>5, <1>6 DEF Solo, SyncSolo, SearchSolo

LEMMA SoloStep == ASSUME Types, Types', Solo, [Next]_vars PROVE Solo'
  <1> USE MeiliAssumption DEF MeiliAssumption, Requests
  <1>0. /\ pc \in [Requests -> Stages] /\ pc' \in [Requests -> Stages] /\ tasks \in Seq(Task)
        /\ others \in [Requests -> SUBSET Syncs]
    BY DEF Types
  <1>1. CASE RunTask
    BY <1>1, SoloRun
  <1>2. CASE UNCHANGED <<exists, docs, read, tasks, pc, history>>
    BY <1>2 DEF Solo, Undisturbed, SyncSolo, SearchSolo, SyncPlace, SearchPlace, Running,
                Quiet, NoDeletion, Deletes, AddsOnly, Settles
  <1>3. ASSUME NEW r \in Requests, NEW k \in {"create", "settings"}
        PROVE  /\ [by |-> r, kind |-> k, docs |-> {}] \in Task
               /\ Harmless([by |-> r, kind |-> k, docs |-> {}])
    BY DEF Task, Kinds, Harmless
  <1>4. ASSUME NEW r \in Requests, NEW k \in {"create", "settings"}, Enqueue(r, k, {}), UNCHANGED read
        PROVE  /\ Quiet => Quiet'
               /\ k = "settings" => Settles(r)'
    <2> DEFINE t == [by |-> r, kind |-> k, docs |-> {}]
    <2>1. t \in Task /\ Harmless(t) /\ t.by = r /\ t.kind = k
      BY <1>3
    <2> HIDE DEF t
    <2>2. tasks' = Append(tasks, t)
      BY <1>4 DEF Enqueue, t
    <2>3. QED
      BY <1>4, <2>1, <2>2, SoloGrows
  <1>5. ASSUME NEW s \in Syncs, SyncDelete(s) PROVE Solo'
    <2>1. CASE Running \cap Syncs = {}
      <3>1. Undisturbed' \subseteq {s} /\ pc'[s] = "deleting"
        BY <1>0, <1>5, <2>1 DEF SyncDelete, Meets, Undisturbed
      <3>2. Running' \subseteq Running \cup {s}
        BY <1>0, <1>5 DEF SyncDelete, Running
      <3>3. Deletes(s)'
        <4> DEFINE t == [by |-> s, kind |-> "delete", docs |-> {}]
        <4>1. t \in Task /\ t.by = s /\ t.kind = "delete"
          BY DEF Task, Kinds
        <4> HIDE DEF t
        <4>2. tasks' = Append(tasks, t)
          BY <1>5 DEF SyncDelete, Enqueue, t
        <4>3. /\ Len(tasks) \in Nat /\ Len(tasks') = Len(tasks) + 1
              /\ tasks'[Len(tasks) + 1] = t
          BY <1>0, <4>1, <4>2, QueueGrows
        <4>4. Len(tasks) + 1 \in 1..Len(tasks')
          BY <4>3
        <4>5. \A j \in 1..Len(tasks') : ~(j > Len(tasks) + 1)
          BY <4>3
        <4>6. QED
          BY <4>1, <4>3, <4>4, <4>5 DEF Deletes
      <3>4. SyncPlace(s)'
        BY <3>1, <3>3 DEF SyncPlace, Empties
      <3>5. QED
        BY <2>1, <3>1, <3>2, <3>4 DEF Solo, SyncSolo, SearchSolo
    <2>2. CASE Running \cap Syncs # {}
      <3>1. Undisturbed' = {}
        BY <1>0, <1>5, <2>2 DEF SyncDelete, Meets, Undisturbed
      <3>2. QED
        BY <3>1 DEF Solo, SyncSolo, SearchSolo
    <2>3. QED
      BY <2>1, <2>2
  <1>6. ASSUME NEW s \in Syncs, SyncDeleted(s) PROVE Solo'
    <2>1. /\ pc[s] = "deleting" /\ pc'[s] = "creating" /\ Finished(s) /\ UNCHANGED history
          /\ Enqueue(s, "create", {}) /\ UNCHANGED <<docs, read>>
          /\ \A q \in Requests : q # s => pc'[q] = pc[q]
      BY <1>0, <1>6 DEF SyncDeleted
    <2>2. s \in Undisturbed => docs = {} /\ Quiet
      BY <2>1, Waited DEF Solo, SyncSolo, SyncPlace
    <2>3. s \in Undisturbed => docs' = {} /\ Quiet'
      BY <1>4, <2>1, <2>2
    <2>4. s \in Undisturbed => SyncPlace(s)'
      BY <2>1, <2>3 DEF SyncPlace
    <2>5. QED
      BY <1>0, <2>1, <2>4, SoloOfSync DEF Running
  <1>7. ASSUME NEW s \in Syncs, SyncAdd(s) PROVE Solo'
    <2>1. /\ pc[s] = "add" /\ pc'[s] = "adding" /\ UNCHANGED history
          /\ Enqueue(s, "add", read[s]) /\ UNCHANGED <<docs, read>>
          /\ \A q \in Requests : q # s => pc'[q] = pc[q]
      BY <1>0, <1>7 DEF SyncAdd
    <2>2. s \in Undisturbed => docs = {} /\ Quiet
      BY <2>1 DEF Solo, SyncSolo, SyncPlace, Empties
    <2>3. ASSUME Quiet PROVE AddsOnly(s)'
      <3> DEFINE t == [by |-> s, kind |-> "add", docs |-> read[s]]
      <3>1. t \in Task /\ t.by = s /\ t.kind = "add" /\ t.docs = read[s]
        BY DEF Task, Kinds, Types
      <3> HIDE DEF t
      <3>2. tasks' = Append(tasks, t)
        BY <2>1 DEF Enqueue, t
      <3>3. /\ Len(tasks) \in Nat /\ Len(tasks') = Len(tasks) + 1
            /\ tasks'[Len(tasks) + 1] = t
            /\ \A i \in 1..Len(tasks) : tasks'[i] = tasks[i]
        BY <1>0, <3>1, <3>2, QueueGrows
      <3>4. Len(tasks) + 1 \in 1..Len(tasks')
        BY <3>3
      <3>5. \A j \in 1..Len(tasks') : j # Len(tasks) + 1 => Harmless(tasks'[j])
        BY <2>3, <3>3 DEF Quiet
      <3>6. QED
        BY <2>1, <3>1, <3>3, <3>4, <3>5 DEF AddsOnly, Harmless
    <2>4. s \in Undisturbed => SyncPlace(s)'
      BY <2>1, <2>2, <2>3 DEF SyncPlace, Empties
    <2>5. QED
      BY <1>0, <2>1, <2>4, SoloOfSync DEF Running
  <1>8. ASSUME NEW s \in Syncs, SyncRead(s) \/ SyncCreated(s) PROVE Solo'
    <2>1. /\ pc[s] \in Empties /\ pc'[s] \in Empties /\ UNCHANGED history
          /\ UNCHANGED <<docs, tasks>> /\ \A q \in Requests : q # s => pc'[q] = pc[q]
      BY <1>0, <1>8 DEF SyncRead, SyncCreated, Empties
    <2>2. s \in Undisturbed => docs' = {} /\ Quiet'
      BY <2>1 DEF Solo, SyncSolo, SyncPlace, Quiet
    <2>3. s \in Undisturbed => SyncPlace(s)'
      BY <2>1, <2>2 DEF SyncPlace, Empties
    <2>4. QED
      BY <1>0, <2>1, <2>3, SoloOfSync DEF Running, Empties
  <1>9. ASSUME NEW s \in Syncs, SyncAnswer(s) PROVE Solo'
    <2>1. /\ pc[s] = "adding" /\ pc'[s] = "answered" /\ Finished(s) /\ UNCHANGED history
          /\ UNCHANGED <<docs, read, tasks>> /\ \A q \in Requests : q # s => pc'[q] = pc[q]
      BY <1>0, <1>9 DEF SyncAnswer
    <2>2. s \in Undisturbed => docs' = read'[s] /\ Quiet'
      BY <2>1, Waited DEF Solo, SyncSolo, SyncPlace, Quiet
    <2>3. s \in Undisturbed => SyncPlace(s)'
      BY <2>1, <2>2 DEF SyncPlace, Empties
    <2>4. QED
      BY <1>0, <2>1, <2>3, SoloOfSync DEF Running
  <1>10. ASSUME NEW s \in Syncs, Ensure(s) PROVE Solo'
    <2>1. /\ pc[s] \in Empties /\ pc'[s] \in Empties /\ UNCHANGED history /\ UNCHANGED <<docs, read>>
          /\ \A q \in Requests : q # s => pc'[q] = pc[q]
      BY <1>0, <1>10 DEF Ensure, EnsureGet, EnsureCreated, EnsureSettings, Ensured, Prepared, Empties
    <2>2. tasks' = tasks \/ \E k \in {"create", "settings"} : Enqueue(s, k, {})
      BY <1>10 DEF Ensure, EnsureGet, EnsureCreated, EnsureSettings, Ensured
    <2>3. Quiet => Quiet'
      BY <1>4, <2>1, <2>2 DEF Quiet
    <2>4. s \in Undisturbed => docs' = {} /\ Quiet'
      BY <2>1, <2>3 DEF Solo, SyncSolo, SyncPlace
    <2>5. s \in Undisturbed => SyncPlace(s)'
      BY <2>1, <2>4 DEF SyncPlace, Empties
    <2>6. QED
      BY <1>0, <2>1, <2>5, SoloOfSync DEF Running, Empties
  <1>11. ASSUME NEW s \in Syncs, Fails(s) PROVE Solo'
    <2>1. /\ s \in Running /\ pc'[s] = "failed" /\ UNCHANGED history
          /\ \A q \in Requests : q # s => pc'[q] = pc[q]
      BY <1>0, <1>11 DEF Fails
    <2>2. SyncPlace(s)'
      BY <2>1 DEF SyncPlace, Empties
    <2>3. QED
      BY <1>0, <2>1, <2>2, SoloOfSync
  <1>12. ASSUME NEW q \in Searches, Search(q) \/ Ensure(q) \/ Fails(q) PROVE Solo'
    <2>1. /\ UNCHANGED <<exists, docs, read>> /\ \A r \in Requests : r # q => pc'[r] = pc[r]
      BY <1>0, <1>12 DEF Search, SearchStart, SearchQuery, Fails,
                         Ensure, EnsureGet, EnsureCreated, EnsureSettings, Ensured, Prepared
    <2>2. tasks' = tasks \/ \E k \in {"create", "settings"} : Enqueue(q, k, {})
      BY <1>12 DEF Search, SearchStart, SearchQuery, Fails,
                   Ensure, EnsureGet, EnsureCreated, EnsureSettings, Ensured
    <2>3. tasks' = tasks \/ \E t \in Task : Harmless(t) /\ tasks' = Append(tasks, t)
      BY <1>3, <2>2 DEF Enqueue
    <2>4. \/ Undisturbed' \subseteq Undisturbed
          \/ Undisturbed' \subseteq Undisturbed \cup {q} /\ Running \cap Syncs = {}
      <3>1. CASE SearchStart(q)
        <4>1. /\ pc[q] = "idle" /\ spoiled' = spoiled /\ others'[q] = Running \cap Syncs
              /\ \A r \in Requests : r # q => pc'[r] = pc[r] /\ others'[r] = others[r]
          BY <1>0, <3>1 DEF SearchStart
        <4>2. QED
          BY <4>1 DEF Undisturbed
      <3>2. CASE SearchQuery(q) \/ Ensure(q) \/ Fails(q)
        <4>1. pc[q] # "idle" /\ UNCHANGED history
          BY <3>2 DEF SearchQuery, Fails, Ensure, EnsureGet, EnsureCreated, EnsureSettings, Ensured,
                      Running
        <4>2. QED
          BY <2>1, <4>1 DEF Undisturbed
      <3>3. QED
        BY <1>12, <3>1, <3>2 DEF Search
    <2>5. q \in Undisturbed => SearchPlace(q)
      BY DEF Solo, SearchSolo
    <2>8. UNCHANGED history /\ pc[q] # "idle" => (q \in Undisturbed' => q \in Undisturbed)
      BY DEF Undisturbed
    <2>6. q \in Undisturbed' => SearchPlace(q)'
      <3>1. CASE SearchStart(q) \/ Fails(q) \/ EnsureGet(q) \/ EnsureCreated(q)
        BY <1>0, <3>1 DEF SearchStart, Fails, EnsureGet, EnsureCreated, SearchPlace
      <3>2. CASE SearchQuery(q)
        BY <1>0, <2>5, <2>8, <3>2 DEF SearchQuery, SearchPlace
      <3>3. CASE EnsureSettings(q)
        BY <1>0, <1>4, <3>3 DEF EnsureSettings, SearchPlace
      <3>4. CASE Ensured(q)
        <4>1. /\ pc[q] = "setting" /\ pc'[q] = "query" /\ Finished(q)
              /\ UNCHANGED <<exists, tasks, history>>
          BY <1>0, <3>4 DEF Ensured, Prepared
        <4>2. q \in Undisturbed => exists /\ NoDeletion
          BY <2>5, <4>1, Waited DEF SearchPlace
        <4>3. QED
          BY <2>8, <4>1, <4>2 DEF SearchPlace, NoDeletion
      <3>5. QED
        BY <1>12, <3>1, <3>2, <3>3, <3>4 DEF Search, Ensure
    <2>7. QED
      BY <1>0, <2>1, <2>3, <2>4, <2>6, SoloOfSearch
  <1>13. QED
    BY <1>1, <1>2, <1>5, <1>6, <1>7, <1>8, <1>9, <1>10, <1>11, <1>12
    DEF Next, Sync, vars, Edit

-----------------------------------------------------------------------------
LEMMA Invariant == Spec => []IInv
  <1>1. IInv /\ [Next]_vars => IInv'
    BY TypesStep, KeptStep, SourcesStep, SoloStep DEF IInv
  <1>2. QED
    BY InitInv, <1>1, PTL DEF Spec

\* SyncSQLToMeili: a sync that ran alone, and whose tasks succeeded, leaves the index
\* with what it read.
THEOREM SyncsAlone == Spec => []SyncedAlone
  <1>1. IInv => SyncedAlone
    BY DEF IInv, Solo, SyncSolo, SyncPlace, SyncedAlone
  <1>2. QED
    BY Invariant, <1>1, PTL

\* SyncSQLToMeili: the sync that deleted last, its own tasks succeeding, loses no article,
\* and no text older than those of the syncs beside or after it takes the place of its own.
THEOREM LastSyncWins == Spec => []LastSyncKept
  <1>1. IInv => LastSyncKept
    BY DEF IInv, Kept, LastKept, Covered, Sources, AfterWipe, StemsFrom, Peers, LastSyncKept
  <1>2. QED
    BY Invariant, <1>1, PTL

\* SearchArticles: a search without a sync beside it, and whose tasks succeed, finds the
\* index.
THEOREM SearchesFindIndex == Spec => []SearchFindsIndex
  <1>1. IInv => SearchFindsIndex
    BY DEF IInv, Types, Requests, Solo, SearchSolo, SearchPlace, SearchFindsIndex, Undisturbed
  <1>2. QED
    BY Invariant, <1>1, PTL

=============================================================================
