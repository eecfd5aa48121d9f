------------------------------ MODULE MeiliSync ------------------------------
(***************************************************************************)
(* The search index (handlers/article_handler.go).  SyncSQLToMeili deletes *)
(* the index, makes it again, reads the active articles and adds them; it  *)
(* sets searchable attributes through ensureMeiliArticleIndex, which every *)
(* search calls too.  Each call to Meilisearch only enqueues a task, and   *)
(* the handler waits for that task to end: WaitForTask returns the task    *)
(* with its status, which no handler looks at, and an error only when the  *)
(* waiting itself fails.                                                   *)
(*                                                                         *)
(* Meilisearch itself is external: it runs its tasks one at a time, in the *)
(* order in which they came; adding documents and setting attributes make  *)
(* the index when it is missing; a task that fails changes nothing. Left   *)
(* out: the score that a search adds to the Redis set "searchKeywords",    *)
(* which no code reads.                                                    *)
(***************************************************************************)
EXTENDS Naturals, Sequences, FiniteSets, Functions

CONSTANTS
  Articles,
  NoSync,       \* no sync has deleted the index yet
  Syncs,        \* requests of SyncSQLToMeili
  Searches,     \* requests of SearchArticles
  MaxVersion,   \* bound on the edits of an article
  CanFail       \* calls to Meilisearch and the database may fail

ASSUME MeiliAssumption ==
  /\ Syncs \cap Searches = {} /\ NoSync \notin Syncs
  /\ MaxVersion \in Nat
  /\ CanFail \in BOOLEAN

Requests == Syncs \cup Searches

VARIABLES
  version,   \* version[a]: what the article's row says
  active,    \* articles that are active and not deleted
  exists,    \* the index exists
  docs,      \* its documents, a set of [id, version]
  tasks,     \* Meilisearch's queue of [by, kind, docs]
  pc,        \* pc[r]: where request r is
  read,      \* read[s]: the documents that sync s made from the rows
  wiped,     \* the sync whose deletion ran last (history)
  others,    \* others[r]: syncs that ran beside request r, or began after it (history)
  spoiled    \* requests one of whose tasks has failed (history)

vars == <<version, active, exists, docs, tasks, pc, read, wiped, others, spoiled>>

index == <<exists, docs, wiped>>
rows == <<version, active>>
history == <<others, spoiled>>

Kinds == {"delete", "create", "settings", "add"}
Documents == [id : Articles, version : 0..MaxVersion]
Rows == {[id |-> a, version |-> version[a]] : a \in active}

Init ==
  /\ version = [a \in Articles |-> 0]
  /\ active = Articles
  /\ exists = FALSE /\ docs = {} /\ tasks = <<>>
  /\ pc = [r \in Requests |-> "idle"]
  /\ read = [s \in Syncs |-> {}]
  /\ wiped = NoSync
  /\ others = [r \in Requests |-> {}]
  /\ spoiled = {}

Running == {r \in Requests : pc[r] \notin {"idle", "answered", "missing", "failed"}}
Finished(r) == \A t \in Range(tasks) : t.by # r
Goto(r, p) == pc' = [pc EXCEPT ![r] = p]
Enqueue(r, kind, ds) == tasks' = Append(tasks, [by |-> r, kind |-> kind, docs |-> ds])

\* The documents after ds were added: a document replaces that of the same id.
Upserted(ds) == {d \in docs : \A e \in ds : d.id # e.id} \cup ds
-----------------------------------------------------------------------------
(* Meilisearch runs the first task of its queue.                           *)

Succeeds(t) ==
  /\ exists' = (t.kind # "delete")
  /\ docs' = CASE t.kind = "delete" -> {}
               [] t.kind = "add"    -> Upserted(t.docs)
               [] OTHER             -> docs
  /\ wiped' = IF t.kind = "delete" THEN t.by ELSE wiped
  /\ UNCHANGED spoiled

Spoils(t) ==
  /\ CanFail
  /\ spoiled' = spoiled \cup {t.by}
  /\ UNCHANGED index

RunTask ==
  /\ tasks # <<>>
  /\ Succeeds(Head(tasks)) \/ Spoils(Head(tasks))
  /\ tasks' = Tail(tasks)
  /\ UNCHANGED <<rows, pc, read, others>>

(* Articles change while requests run.                                     *)
Edit(a) ==
  /\ version[a] < MaxVersion
  /\ version' = [version EXCEPT ![a] = @ + 1]
  /\ active' \in {active \cup {a}, active \ {a}}
  /\ UNCHANGED <<index, tasks, pc, read, history>>
-----------------------------------------------------------------------------
(* SyncSQLToMeili.                                                         *)

\* Sync s begins: beside those that run, and beside or after every other request.
Meets(s) ==
  others' = [r \in Requests |-> IF r = s THEN Running \cap Syncs
                               ELSE IF pc[r] = "idle" THEN others[r] ELSE others[r] \cup {s}]

\* Mutant: the old index is kept.
SyncDeleteNot(s) ==
  /\ pc[s] = "idle"
  /\ Goto(s, "deleting")
  /\ Meets(s)
  /\ UNCHANGED <<rows, index, tasks, read, spoiled>>

\* DeleteIndex.
SyncDelete(s) ==
  /\ pc[s] = "idle"
  /\ Enqueue(s, "delete", {})
  /\ Goto(s, "deleting")
  /\ Meets(s)
  /\ UNCHANGED <<rows, index, read, spoiled>>

SyncDeleted(s) ==
  /\ pc[s] = "deleting" /\ Finished(s)
  /\ Enqueue(s, "create", {})
  /\ Goto(s, "creating")
  /\ UNCHANGED <<rows, index, read, history>>

SyncCreated(s) ==
  /\ pc[s] = "creating" /\ Finished(s)
  /\ Goto(s, "ensure")
  /\ UNCHANGED <<rows, index, tasks, read, history>>

SyncRead(s) ==
  /\ pc[s] = "load"
  /\ read' = [read EXCEPT ![s] = Rows]
  /\ Goto(s, "add")
  /\ UNCHANGED <<rows, index, tasks, history>>

SyncAdd(s) ==
  /\ pc[s] = "add"
  /\ Enqueue(s, "add", read[s])
  /\ Goto(s, "adding")
  /\ UNCHANGED <<rows, index, read, history>>

\* Mutant: the answer does not wait for the documents.
SyncAnswerEarly(s) ==
  /\ pc[s] = "adding"
  /\ Goto(s, "answered")
  /\ UNCHANGED <<rows, index, tasks, read, history>>

SyncAnswer(s) ==
  /\ pc[s] = "adding" /\ Finished(s)
  /\ Goto(s, "answered")
  /\ UNCHANGED <<rows, index, tasks, read, history>>
-----------------------------------------------------------------------------
(* ensureMeiliArticleIndex, for a sync and for a search.                   *)

EnsureGet(r) ==
  /\ pc[r] = "ensure"
  /\ \/ exists  /\ Goto(r, "attributes") /\ UNCHANGED tasks
     \/ ~exists /\ Goto(r, "recreating") /\ Enqueue(r, "create", {})
  /\ UNCHANGED <<rows, index, read, history>>

EnsureCreated(r) ==
  /\ pc[r] = "recreating" /\ Finished(r)
  /\ Goto(r, "attributes")
  /\ UNCHANGED <<rows, index, tasks, read, history>>

EnsureSettings(r) ==
  /\ pc[r] = "attributes"
  /\ Enqueue(r, "settings", {})
  /\ Goto(r, "setting")
  /\ UNCHANGED <<rows, index, read, history>>

Prepared(r) == Goto(r, IF r \in Syncs THEN "load" ELSE "query")

\* Mutant: the settings are not waited for.
EnsuredEarly(r) ==
  /\ pc[r] = "setting"
  /\ Prepared(r)
  /\ UNCHANGED <<rows, index, tasks, read, history>>

Ensured(r) ==
  /\ pc[r] = "setting" /\ Finished(r)
  /\ Prepared(r)
  /\ UNCHANGED <<rows, index, tasks, read, history>>
-----------------------------------------------------------------------------
(* SearchArticles.                                                         *)

SearchStart(q) ==
  /\ pc[q] = "idle"
  /\ Goto(q, "ensure")
  /\ others' = [others EXCEPT ![q] = Running \cap Syncs]
  /\ UNCHANGED <<rows, index, tasks, read, spoiled>>

SearchQuery(q) ==
  /\ pc[q] = "query"
  /\ Goto(q, IF exists THEN "answered" ELSE "missing")
  /\ UNCHANGED <<rows, index, tasks, read, history>>

\* A call fails, or its answer is lost, or waiting for its task does: what was
\* done or enqueued stays.
Fails(r) ==
  /\ CanFail
  /\ r \in Running
  /\ Goto(r, "failed")
  /\ UNCHANGED <<rows, index, tasks, read, history>>

Sync(s) ==
  \/ SyncDelete(s) \/ SyncDeleted(s) \/ SyncCreated(s)
  \/ SyncRead(s) \/ SyncAdd(s) \/ SyncAnswer(s)
Ensure(r) == EnsureGet(r) \/ EnsureCreated(r) \/ EnsureSettings(r) \/ Ensured(r)
Search(q) == SearchStart(q) \/ SearchQuery(q)

Next ==
  \/ RunTask
  \/ \E a \in Articles : Edit(a)
  \/ \E s \in Syncs : Sync(s)
  \/ \E q \in Searches : Search(q)
  \/ \E r \in Requests : Ensure(r) \/ Fails(r)

Spec == Init /\ [][Next]_vars
-----------------------------------------------------------------------------
\* Requests during which no other sync has run, and none of whose tasks has failed.
Undisturbed == {r \in Requests : pc[r] # "idle" /\ others[r] = {} /\ r \notin spoiled}

\* SyncSQLToMeili: when a sync that ran alone and whose tasks succeeded has answered,
\* and until another one starts, the index holds what it read from the table and
\* nothing else, whatever earlier syncs left behind in the index or in Meilisearch's
\* queue.
SyncedAlone ==
  \A s \in Undisturbed \cap Syncs : pc[s] = "answered" => docs = read[s]

\* Of syncs that overlapped, the one whose deletion took effect last has lost no article
\* it had read, unless a task of its own failed: each is there with the text that it
\* read, or with one that a sync beside it or after it has read.
LastSyncKept ==
  wiped \in Syncs \ spoiled /\ pc[wiped] = "answered" =>
    \A d \in read[wiped] : \E e \in docs :
      e.id = d.id /\ \E s \in others[wiped] \cup {wiped} : e \in read[s]

\* ensureMeiliArticleIndex: a search during which no sync runs, and whose tasks succeed,
\* finds the index, even if a sync that failed before it left its deletion in the queue.
SearchFindsIndex ==
  \A q \in Undisturbed : pc[q] # "missing"
=============================================================================
