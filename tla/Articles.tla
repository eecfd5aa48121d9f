------------------------------ MODULE Articles ------------------------------
(***************************************************************************)
(* The life of an article: its row in Postgres (content, Discourse topic,  *)
(* embedding), its summary in the Redis hash "articleSummary", and the     *)
(* Kafka topic ARTICLE_UPDATE_TOPIC whose consumer derives summary and     *)
(* embedding from the row.  HTTP handlers of handlers/article_handler.go   *)
(* and handlers/discourse_webhook_handler.go run concurrently with the     *)
(* consumer goroutine of kafka/article_consumer.go.                        *)
(*                                                                         *)
(* One step is one access to shared state.  A call that touches nothing    *)
(* modelled here (revalidation, LLM, embedding server, Dify) is folded     *)
(* into the step that follows it, with its failure as an alternative.      *)
(* Contents are version numbers: every edit writes a new one.              *)
(***************************************************************************)
EXTENDS Integers, FiniteSets

CONSTANTS
  Articles,      \* row ids
  NoArticle,     \* the article of a request that has none yet
  Topics,        \* Discourse topic ids
  NoTopic,       \* the topic of a row written by CreateArticle
  Requests,      \* HTTP requests, each served once
  Kind,          \* Kind[r]: the handler that serves request r
  MaxServed,     \* bound: requests that are served
  Faults,        \* the failures the environment may produce
  MaxCrashes     \* bound on process exits

Kinds == {"create", "update", "webhook", "summary", "manual", "vectorize", "dify"}
\* "remote": the embedding server or Dify does not answer with a result; "bus": a
\* message does not arrive, see ProduceAstray.
FaultKinds == {"db", "redis", "revalidate", "llm", "remote", "bus"}

ASSUME ArticlesAssumption ==
  /\ NoTopic \notin Topics
  /\ NoArticle \notin Articles
  /\ Kind \in [Requests -> Kinds]
  /\ Faults \subseteq FaultKinds
  /\ MaxServed \in Nat
  /\ MaxCrashes \in Nat

VARIABLES
  content,    \* content[a]: version of the content in the row, 0 = no row
  topic,      \* topic[a]: column discourse_topic_id
  embedding,  \* embedding[a]: version the embedding was computed from, 0 = NULL
  summary,    \* summary[a]: version the summary describes, 0 = no field
  pending,    \* pending[a]: messages for a in the topic, not yet read
  edits,      \* versions handed out so far
  pc, art, row, \* per request: next step, article it is about, row it read
  cpc, cart, cver, \* the consumer: next step, article, version it read
  lostSum, lostEmb, \* <<a, version>> that is not derived from, by a failure or
                    \* because an export brought it back (history)
  lateSum, lateEmb, \* <<a, version>> over whose derivation a request stored what
                    \* it had made from an earlier row (history)
  crashes     \* process exits so far

db    == <<content, topic, embedding>>
reqs  == <<pc, art, row>>
cons  == <<cpc, cart, cver>>
lost  == <<lostSum, lostEmb>>
late  == <<lateSum, lateEmb>>
vars  == <<db, summary, pending, edits, reqs, cons, lost, late, crashes>>

Manual == -1   \* a summary typed by the administrator describes no version
NoRow  == [content |-> 0, topic |-> NoTopic, embedding |-> 0]
Wanted(t) == [content |-> 0, topic |-> t, embedding |-> 0]
Exists(a) == content[a] # 0
RowOf(a)  == [content |-> content[a], topic |-> topic[a], embedding |-> embedding[a]]
WithTopic(t) == {a \in Articles : Exists(a) /\ topic[a] = t}

Init ==
  /\ content = [a \in Articles |-> 0]
  /\ topic = [a \in Articles |-> NoTopic]
  /\ embedding = [a \in Articles |-> 0]
  /\ summary = [a \in Articles |-> 0]
  /\ pending = [a \in Articles |-> 0]
  /\ edits = 0
  /\ pc = [r \in Requests |-> "start"]
  /\ art = [r \in Requests |-> NoArticle]
  /\ row = [r \in Requests |-> NoRow]
  /\ cpc = "idle"
  /\ cart = NoArticle
  /\ cver = 0
  /\ lostSum = {}
  /\ lostEmb = {}
  /\ lateSum = {}
  /\ lateEmb = {}
  /\ crashes = 0
-----------------------------------------------------------------------------
(* Shared pieces of the handlers.                                          *)

Starts(r) == pc[r] = "start"

SetPc(r, p) == pc' = [pc EXCEPT ![r] = p]
Done(r)     == SetPc(r, "done")

\* A new row with a fresh id; the embedding column is omitted, so NULL.
InsertRow(r, a, t) ==
  /\ content' = [content EXCEPT ![a] = edits + 1]
  /\ topic' = [topic EXCEPT ![a] = t]
  /\ embedding' = [embedding EXCEPT ![a] = 0]
  /\ edits' = edits + 1
  /\ art' = [art EXCEPT ![r] = a]

\* UPDATE of title, content, tag and is_active: the embedding stays.
UpdateRow(a) ==
  /\ content' = [content EXCEPT ![a] = edits + 1]
  /\ edits' = edits + 1
  /\ UNCHANGED <<topic, embedding>>

SetSummary(a, v) == summary' = [summary EXCEPT ![a] = v]

SetEmbedding(a, v) ==
  /\ embedding' = [embedding EXCEPT ![a] = v]
  /\ UNCHANGED <<content, topic>>

\* What failures cut short, and versions that nobody announces: recorded so that
\* properties can tell a stale value that is explained from one nothing explains.
LoseSummary(a, v)   == lostSum' = lostSum \cup {<<a, v>>}
LoseEmbedding(a, v) == lostEmb' = lostEmb \cup {<<a, v>>}

\* A request stores what it made from an earlier row over version v.
LateSummary(a, v)   == lateSum' = lateSum \cup {<<a, v>>} /\ UNCHANGED lateEmb
LateEmbedding(a, v) == lateEmb' = lateEmb \cup {<<a, v>>} /\ UNCHANGED lateSum

\* The handler answers an error and changes nothing.
Fails(r, fault) ==
  /\ fault \in Faults
  /\ Done(r)
  /\ UNCHANGED <<db, summary, pending, edits, art, row, cons, lost, late, crashes>>

\* ProduceMessage(ArticleUpdateTopic, "id", art[r]), the handler's last step.
Produce(r) ==
  /\ pc[r] = "produce"
  /\ pending' = [pending EXCEPT ![art[r]] = @ + 1]
  /\ Done(r)
  /\ UNCHANGED <<db, summary, edits, art, row, cons, lost, late, crashes>>

\* The send returns without an error, and yet the message is not in the topic: an
\* overlapping call for another topic has overwritten the writer's Topic (module
\* Bus), or the broker did not keep a message of which it acknowledges nothing.
ProduceAstray(r) ==
  /\ pc[r] = "produce" /\ "bus" \in Faults
  /\ LoseSummary(art[r], content[art[r]]) /\ LoseEmbedding(art[r], content[art[r]])
  /\ Done(r)
  /\ UNCHANGED <<db, summary, pending, edits, art, row, cons, late, crashes>>
-----------------------------------------------------------------------------
(* CreateArticle: insert the row, then publish its id.                     *)

CreateInsert(r) ==
  /\ Kind[r] = "create" /\ Starts(r)
  /\ \E a \in Articles : ~Exists(a) /\ InsertRow(r, a, NoTopic)
  /\ SetPc(r, "produce")
  /\ UNCHANGED <<summary, pending, row, cons, lost, late, crashes>>

CreateFails(r) == Kind[r] = "create" /\ Starts(r) /\ Fails(r, "db")

(* UpdateArticle: drop the summary, look the row up, write it, publish.    *)

\* HDel comes first, whether or not the article exists; its error is ignored.
UpdateDropSummary(r) ==
  /\ Kind[r] = "update" /\ Starts(r)
  /\ \E a \in Articles :
        /\ art' = [art EXCEPT ![r] = a]
        /\ \/ SetSummary(a, 0)
           \/ "redis" \in Faults /\ UNCHANGED summary
  /\ SetPc(r, "take")
  /\ UNCHANGED <<db, pending, edits, row, cons, lost, late, crashes>>

UpdateTake(r) ==
  /\ Kind[r] = "update" /\ pc[r] = "take"
  /\ SetPc(r, IF Exists(art[r]) THEN "write" ELSE "done")
  /\ UNCHANGED <<db, summary, pending, edits, art, row, cons, lost, late, crashes>>

UpdateWrite(r) ==
  /\ Kind[r] = "update" /\ pc[r] = "write"
  /\ UpdateRow(art[r])
  /\ SetPc(r, "produce")
  /\ UNCHANGED <<summary, pending, art, row, cons, lost, late, crashes>>

\* When the UPDATE fails the message is published all the same.
UpdateWriteFails(r) ==
  /\ Kind[r] = "update" /\ pc[r] = "write" /\ "db" \in Faults
  /\ SetPc(r, "produce")
  /\ UNCHANGED <<db, summary, pending, edits, art, row, cons, lost, late, crashes>>

UpdateTakeFails(r) == Kind[r] = "update" /\ pc[r] = "take" /\ Fails(r, "db")

(* Discourse webhook: find the row of the topic, insert or update it,      *)
(* publish.  Unlike UpdateArticle it keeps the old summary, and publishes  *)
(* nothing when the write fails.                                           *)

\* Mutant: the row found is not kept.
WebhookFindForgets(r) ==
  /\ Kind[r] = "webhook" /\ Starts(r)
  /\ \E t \in Topics :
        /\ row' = [row EXCEPT ![r] = Wanted(t)]
        /\ SetPc(r, IF WithTopic(t) = {} THEN "insert" ELSE "write")
  /\ UNCHANGED <<db, summary, pending, edits, art, cons, lost, late, crashes>>

WebhookFind(r) ==
  /\ Kind[r] = "webhook" /\ Starts(r)
  /\ \E t \in Topics :
        /\ row' = [row EXCEPT ![r] = Wanted(t)]
        /\ \/ /\ WithTopic(t) = {}
              /\ SetPc(r, "insert")
              /\ UNCHANGED art
           \/ \E a \in WithTopic(t) :
                /\ SetPc(r, "write")
                /\ art' = [art EXCEPT ![r] = a]
  /\ UNCHANGED <<db, summary, pending, edits, cons, lost, late, crashes>>

WebhookInsert(r) ==
  /\ Kind[r] = "webhook" /\ pc[r] = "insert"
  /\ \E a \in Articles : ~Exists(a) /\ InsertRow(r, a, row[r].topic)
  /\ SetPc(r, "produce")
  /\ UNCHANGED <<summary, pending, row, cons, lost, late, crashes>>

\* Mutant: only a created article is published.
WebhookWriteSilently(r) ==
  /\ Kind[r] = "webhook" /\ pc[r] = "write"
  /\ UpdateRow(art[r])
  /\ Done(r)
  /\ UNCHANGED <<summary, pending, art, row, cons, lost, late, crashes>>

WebhookWrite(r) ==
  /\ Kind[r] = "webhook" /\ pc[r] = "write"
  /\ UpdateRow(art[r])
  /\ SetPc(r, "produce")
  /\ UNCHANGED <<summary, pending, art, row, cons, lost, late, crashes>>

\* The row is written but cannot be read back: nothing is published.
WebhookRereadFails(r) ==
  /\ Kind[r] = "webhook" /\ pc[r] = "write" /\ "db" \in Faults
  /\ UpdateRow(art[r])
  /\ LoseSummary(art[r], edits + 1) /\ LoseEmbedding(art[r], edits + 1)
  /\ Done(r)
  /\ UNCHANGED <<summary, pending, art, row, cons, late, crashes>>

WebhookFails(r) ==
  Kind[r] = "webhook" /\ (Starts(r) \/ pc[r] \in {"insert", "write"}) /\ Fails(r, "db")
-----------------------------------------------------------------------------
(* GetArticleSummary: a cache fill.  The summary is missing, so the row is *)
(* read, summarised by the LLM, and the text stored.  A failing HGet also  *)
(* looks like a missing summary.                                           *)

SummaryLookup(r) ==
  /\ Kind[r] = "summary" /\ Starts(r)
  /\ \E a \in Articles :
        /\ art' = [art EXCEPT ![r] = a]
        /\ \/ summary[a] # 0 /\ Done(r)
           \/ (summary[a] # 0 => "redis" \in Faults) /\ SetPc(r, "take")
  /\ UNCHANGED <<db, summary, pending, edits, row, cons, lost, late, crashes>>

SummaryTake(r) ==
  /\ Kind[r] = "summary" /\ pc[r] = "take"
  /\ row' = [row EXCEPT ![r] = RowOf(art[r])]
  /\ SetPc(r, IF Exists(art[r]) THEN "save" ELSE "done")
  /\ UNCHANGED <<db, summary, pending, edits, art, cons, lost, late, crashes>>

SummarySave(r) ==
  /\ Kind[r] = "summary" /\ pc[r] = "save"
  /\ SetSummary(art[r], row[r].content)
  /\ \/ row[r].content = content[art[r]] /\ UNCHANGED late
     \/ row[r].content # content[art[r]] /\ LateSummary(art[r], content[art[r]])
  /\ Done(r)
  /\ UNCHANGED <<db, pending, edits, art, row, cons, lost, crashes>>

\* Take fails (answered as not found), the LLM call fails, or HSet does.
SummaryFails(r) ==
  /\ Kind[r] = "summary"
  /\ \/ pc[r] = "take" /\ Fails(r, "db")
     \/ pc[r] = "save" /\ \E f \in {"llm", "redis"} : Fails(r, f)

(* UpdateArticleSummary: the administrator's text, for whatever id.        *)
ManualSummary(r) ==
  /\ Kind[r] = "manual" /\ Starts(r)
  /\ \E a \in Articles :
        art' = [art EXCEPT ![r] = a] /\ SetSummary(a, Manual)
  /\ Done(r)
  /\ UNCHANGED <<db, pending, edits, row, cons, lost, late, crashes>>

ManualFails(r) == Kind[r] = "manual" /\ Starts(r) /\ Fails(r, "redis")

(* VectorizeArticle and SyncToDify read the row and, one HTTP call later,  *)
(* write to it: the first the embedding alone, the second the whole row.   *)

RowTake(r) ==
  /\ Kind[r] \in {"vectorize", "dify"} /\ Starts(r)
  /\ \E a \in Articles :
        /\ art' = [art EXCEPT ![r] = a]
        /\ row' = [row EXCEPT ![r] = RowOf(a)]
        /\ SetPc(r, IF Exists(a) THEN "save" ELSE "done")
  /\ UNCHANGED <<db, summary, pending, edits, cons, lost, late, crashes>>

\* Mutant: the whole row is saved, as SyncToDify does.
VectorizeSaveRow(r) ==
  /\ Kind[r] = "vectorize" /\ pc[r] = "save"
  /\ content' = [content EXCEPT ![art[r]] = row[r].content]
  /\ embedding' = [embedding EXCEPT ![art[r]] = row[r].content]
  /\ UNCHANGED late
  /\ Done(r)
  /\ UNCHANGED <<topic, summary, pending, edits, art, row, cons, lost, crashes>>

VectorizeSave(r) ==
  /\ Kind[r] = "vectorize" /\ pc[r] = "save"
  /\ SetEmbedding(art[r], row[r].content)
  /\ \/ row[r].content = content[art[r]] /\ UNCHANGED late
     \/ row[r].content # content[art[r]] /\ LateEmbedding(art[r], content[art[r]])
  /\ Done(r)
  /\ UNCHANGED <<summary, pending, edits, art, row, cons, lost, crashes>>

\* pgvector refuses a vector without dimensions: a row read with a NULL
\* embedding cannot be saved whole.
DifySave(r) ==
  /\ Kind[r] = "dify" /\ pc[r] = "save" /\ row[r].embedding # 0
  /\ content' = [content EXCEPT ![art[r]] = row[r].content]
  /\ topic' = [topic EXCEPT ![art[r]] = row[r].topic]
  /\ embedding' = [embedding EXCEPT ![art[r]] = row[r].embedding]
  /\ \/ row[r].content = content[art[r]] /\ UNCHANGED lost
     \/ /\ row[r].content # content[art[r]]
        /\ LoseSummary(art[r], row[r].content) /\ LoseEmbedding(art[r], row[r].content)
  /\ \/ row[r].embedding = embedding[art[r]] /\ UNCHANGED late
     \/ /\ row[r].embedding # embedding[art[r]]
        /\ LateEmbedding(art[r], row[r].content)
  /\ Done(r)
  /\ UNCHANGED <<summary, pending, edits, art, row, cons, crashes>>

DifySaveRefused(r) ==
  /\ Kind[r] = "dify" /\ pc[r] = "save" /\ row[r].embedding = 0
  /\ Done(r)
  /\ UNCHANGED <<db, summary, pending, edits, art, row, cons, lost, late, crashes>>

SaveFails(r) ==
  /\ Kind[r] \in {"vectorize", "dify"}
  /\ \/ (Starts(r) \/ pc[r] = "save") /\ Fails(r, "db")
     \/ pc[r] = "save" /\ Fails(r, "remote")
-----------------------------------------------------------------------------
(* The consumer goroutine.  ReadMessage commits the offset before it       *)
(* returns, so a message is gone once received, whatever happens next.     *)

Receive(a) ==
  /\ cpc = "idle" /\ pending[a] > 0
  /\ pending' = [pending EXCEPT ![a] = @ - 1]
  /\ cpc' = "take" /\ cart' = a
  /\ UNCHANGED <<db, summary, edits, reqs, cver, lost, late, crashes>>

ConsumerTake ==
  /\ cpc = "take" /\ Exists(cart)
  /\ cver' = content[cart]
  /\ cpc' = "llm"
  /\ UNCHANGED <<db, summary, pending, edits, reqs, cart, lost, late, crashes>>

ConsumerSummary ==
  /\ cpc = "llm"
  /\ SetSummary(cart, cver)
  /\ cpc' = "embed"
  /\ UNCHANGED <<db, pending, edits, reqs, cart, cver, lost, late, crashes>>

\* Mutant: the handler does not come back to the reading loop.
ConsumerEmbeddingStuck ==
  /\ cpc = "embed"
  /\ SetEmbedding(cart, cver)
  /\ UNCHANGED <<summary, pending, edits, reqs, cons, lost, late, crashes>>

ConsumerEmbedding ==
  /\ cpc = "embed"
  /\ SetEmbedding(cart, cver)
  /\ cpc' = "idle"
  /\ UNCHANGED <<summary, pending, edits, reqs, cart, cver, lost, late, crashes>>

\* Revalidation fails, or the row cannot be read or is not there: return.
ConsumerGivesUp ==
  /\ cpc = "take"
  /\ Exists(cart) => {"revalidate", "db"} \cap Faults # {}
  /\ LoseSummary(cart, content[cart]) /\ LoseEmbedding(cart, content[cart])
  /\ cpc' = "idle"
  /\ UNCHANGED <<db, summary, pending, edits, reqs, cart, cver, late, crashes>>

\* The LLM answers with an error status or with no JSON: return.
ConsumerNoAnswer ==
  /\ cpc = "llm" /\ "llm" \in Faults
  /\ LoseSummary(cart, cver) /\ LoseEmbedding(cart, cver)
  /\ cpc' = "idle"
  /\ UNCHANGED <<db, summary, pending, edits, reqs, cart, cver, late, crashes>>

\* Mutant: a failed HSet ends the handler.
ConsumerSkipsBoth ==
  /\ cpc = "llm" /\ {"llm", "redis"} \cap Faults # {}
  /\ LoseSummary(cart, cver)
  /\ cpc' = "idle"
  /\ UNCHANGED <<db, summary, pending, edits, reqs, cart, cver, lostEmb, late, crashes>>

\* A malformed answer, or HSet fails: the summary is skipped, not the embedding.
ConsumerSkipsSummary ==
  /\ cpc = "llm" /\ {"llm", "redis"} \cap Faults # {}
  /\ LoseSummary(cart, cver)
  /\ cpc' = "embed"
  /\ UNCHANGED <<db, summary, pending, edits, reqs, cart, cver, lostEmb, late, crashes>>

ConsumerSkipsEmbedding ==
  /\ cpc = "embed" /\ {"remote", "db"} \cap Faults # {}
  /\ LoseEmbedding(cart, cver)
  /\ cpc' = "idle"
  /\ UNCHANGED <<db, summary, pending, edits, reqs, cart, cver, lostSum, late, crashes>>
-----------------------------------------------------------------------------
\* The process exits (log.Fatalf of the producer or of the reader, the nil
\* response dereferenced by the article consumer, a kill) and is started again:
\* rows, summaries and unread messages survive, everything in flight is gone.
Unpublished(a) == \E r \in Requests : pc[r] = "produce" /\ art[r] = a
CutShort(a, stages) == Unpublished(a) \/ (cart = a /\ cpc \in stages)
Cut(stages) == {<<a, content[a]>> : a \in {b \in Articles : CutShort(b, stages)}}

Crash ==
  /\ crashes < MaxCrashes
  /\ crashes' = crashes + 1
  /\ pc' = [r \in Requests |-> IF pc[r] = "start" THEN "start" ELSE "done"]
  /\ lostSum' = lostSum \cup Cut({"take", "llm"})
  /\ lostEmb' = lostEmb \cup Cut({"take", "llm", "embed"})
  /\ cpc' = "idle"
  /\ UNCHANGED <<db, summary, pending, edits, art, row, cart, cver, late>>

\* A request under way, or one more within the bound of MaxServed.
Admitted(r) ==
  /\ pc[r] # "done"
  /\ Starts(r) => Cardinality({q \in Requests : ~Starts(q)}) < MaxServed

Serve(r) ==
  \/ CreateInsert(r) \/ UpdateDropSummary(r) \/ UpdateTake(r) \/ UpdateWrite(r)
  \/ WebhookFind(r) \/ WebhookInsert(r) \/ WebhookWrite(r) \/ Produce(r)
  \/ SummaryLookup(r) \/ SummaryTake(r) \/ SummarySave(r) \/ ManualSummary(r)
  \/ RowTake(r) \/ VectorizeSave(r) \/ DifySave(r) \/ DifySaveRefused(r)

ServeFails(r) ==
  \/ ProduceAstray(r) \/ CreateFails(r) \/ UpdateTakeFails(r) \/ UpdateWriteFails(r)
  \/ WebhookRereadFails(r) \/ WebhookFails(r)
  \/ SummaryFails(r) \/ ManualFails(r) \/ SaveFails(r)

Consume ==
  \/ \E a \in Articles : Receive(a)
  \/ ConsumerTake \/ ConsumerSummary \/ ConsumerEmbedding

ConsumeFails ==
  \/ ConsumerGivesUp \/ ConsumerNoAnswer
  \/ ConsumerSkipsSummary \/ ConsumerSkipsEmbedding

Next ==
  \/ \E r \in Requests : Admitted(r) /\ (Serve(r) \/ ServeFails(r))
  \/ Consume \/ ConsumeFails \/ Crash

Spec == Init /\ [][Next]_vars

\* Every outgoing call of the consumer has a timeout, so it always goes on; of the
\* requests no more is needed than that they publish what they have written, one
\* after the other: each publishes once.
FairSpec ==
  /\ Spec
  /\ WF_vars(\E r \in Requests : Produce(r))
  /\ WF_vars(Consume)
-----------------------------------------------------------------------------
(* Properties.                                                             *)

Versions == 0..edits
Stages   == {"start", "take", "write", "insert", "save", "produce", "done"}

\* Types; a request about to touch an article knows which one.
TypeOK ==
  /\ edits \in Nat
  /\ content \in [Articles -> Versions]
  /\ topic \in [Articles -> Topics \cup {NoTopic}]
  /\ embedding \in [Articles -> Versions]
  /\ summary \in [Articles -> Versions \cup {Manual}]
  /\ pending \in [Articles -> Nat]
  /\ pc \in [Requests -> Stages]
  /\ art \in [Requests -> Articles \cup {NoArticle}]
  /\ \A r \in Requests : pc[r] \in {"take", "write", "save", "produce"} => art[r] \in Articles
  /\ row \in [Requests -> [content : Versions, topic : Topics \cup {NoTopic},
                            embedding : Versions]]
  /\ cpc \in {"idle", "take", "llm", "embed"}
  /\ cart \in Articles \cup {NoArticle}
  /\ cpc # "idle" => cart \in Articles
  /\ cver \in Versions
  /\ lostSum \subseteq Articles \X Versions
  /\ lostEmb \subseteq Articles \X Versions
  /\ lateSum \subseteq Articles \X Versions
  /\ lateEmb \subseteq Articles \X Versions
  /\ crashes \in 0..MaxCrashes

\* Somebody is still going to have the consumer look at the current row.
Announced(a) == pending[a] > 0 \/ Unpublished(a)

\* The consumer holds the current version of a, or is about to read it.
Deriving(a, stages) ==
  cart = a /\ (cpc = "take" \/ (cpc \in stages /\ cver = content[a]))

\* A generated summary, whoever stored it, describes the current content, unless
\* work that will replace it is under way, a failure dropped that work, or a reader
\* filled the cache with the summary of a text it had read before the current one
\* was written.  Nothing else leaves an old summary behind.
SummaryFollowsContent ==
  \A a \in Articles :
    summary[a] \notin {0, Manual, content[a]}
      => \/ Announced(a) \/ Deriving(a, {"llm"})
         \/ <<a, content[a]>> \in lostSum \cup lateSum

\* Likewise for the embedding that vector search ranks by, a missing one included:
\* it is of the current text, or is about to be, or a failure dropped that work, or
\* an administrator's request stored a vector over it that belongs to an earlier row.
EmbeddingFollowsContent ==
  \A a \in Articles :
    embedding[a] # content[a]
      => \/ Announced(a) \/ Deriving(a, {"llm", "embed"})
         \/ <<a, content[a]>> \in lostEmb \cup lateEmb

\* While the consumer works on an old version, the newer one is announced: what
\* it stores next may be stale, but not for good, save for a version that a
\* failure kept from being announced.
StaleReadAnnounced ==
  cpc \in {"llm", "embed"} /\ cver # content[cart]
    => Announced(cart) \/ <<cart, content[cart]>> \in lostSum \cap lostEmb

\* No step puts an older text back into a row: edits are never undone by a
\* handler that only meant to derive or export something ("update the
\* synchronisation status", says SyncToDify of its save).
NoLostEdit ==
  [][\A a \in Articles : content'[a] >= content[a]]_vars

\* Whatever fails or overlaps, an older text comes back only when SyncToDify saves
\* the row it read: no cache fill, vectorisation, webhook or consumer undoes an edit.
OnlyExportsUndoEdits ==
  [][\A a \in Articles : content'[a] < content[a] =>
       \E r \in Requests : Kind[r] = "dify" /\ pc[r] = "save" /\ art[r] = a]_vars

\* Once requests and crashes end, the generated summaries and the embeddings settle
\* on the last content of every article, save for versions whose derivation a failure
\* dropped or an earlier text covered: a burst of updates and deliveries is never
\* half applied for good.
EventuallyFresh ==
  <>[](\A a \in Articles :
         /\ \/ summary[a] \in {0, Manual, content[a]}
            \/ <<a, content[a]>> \in lostSum \cup lateSum
         /\ embedding[a] = content[a] \/ <<a, content[a]>> \in lostEmb \cup lateEmb)
=============================================================================
