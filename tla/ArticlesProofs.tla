--------------------------- MODULE ArticlesProofs ---------------------------
(* Proofs about Articles, for any number of articles, topics and requests. *)
EXTENDS Articles, TLAPS

\* Requests, consumer and crashes keep every variable in its type: in particular
\* no version is used before it was handed out.
LEMMA InitTypeOK == Init => TypeOK
  BY ArticlesAssumption DEF ArticlesAssumption, Init, TypeOK, Versions, Stages, NoRow

USE DEF db, reqs, cons, lost, late

LEMMA TypeStep == TypeOK /\ [Next]_vars => TypeOK'
  <1> SUFFICES ASSUME TypeOK, [Next]_vars PROVE TypeOK'
    OBVIOUS
  <1> USE ArticlesAssumption DEF ArticlesAssumption, Versions, Stages, SetPc, Done
  <1>1. ASSUME NEW r \in Requests, Serve(r) PROVE TypeOK'
    <2>1. CASE CreateInsert(r)
      <3>1. PICK a \in Articles : InsertRow(r, a, NoTopic)
        BY <2>1 DEF CreateInsert
      <3>2. /\ pc' = [pc EXCEPT ![r] = "produce"]
            /\ UNCHANGED <<summary, pending, row, cons, lost, late, crashes>>
        BY <2>1 DEF CreateInsert
      <3>3. /\ edits' \in Nat /\ content' \in [Articles -> Versions']
            /\ topic' \in [Articles -> Topics \cup {NoTopic}]
            /\ embedding' \in [Articles -> Versions']
        BY <3>1 DEF TypeOK, InsertRow
      <3>4. Versions \subseteq Versions'
        BY <3>1 DEF TypeOK, InsertRow
      <3>5. /\ art' \in [Requests -> Articles \cup {NoArticle}]
            /\ \A q \in Requests : pc'[q] \in {"take", "write", "save", "produce"}
                                    => art'[q] \in Articles
        BY <3>1, <3>2 DEF TypeOK, InsertRow
      <3> HIDE DEF Versions
      <3>6. QED
        BY <3>2, <3>3, <3>4, <3>5 DEF TypeOK
    <2>2. CASE UpdateDropSummary(r)
      BY <2>2 DEF TypeOK, UpdateDropSummary, SetSummary
    <2>3. CASE UpdateTake(r)
      BY <2>3 DEF TypeOK, UpdateTake
    <2>4. CASE UpdateWrite(r)
      BY <2>4 DEF TypeOK, UpdateWrite, UpdateRow
    <2>5. CASE WebhookFind(r)
      <3>1. PICK t \in Topics :
              /\ row' = [row EXCEPT ![r] = Wanted(t)]
              /\ \/ SetPc(r, "insert") /\ UNCHANGED art
                 \/ \E a \in WithTopic(t) : SetPc(r, "write") /\ art' = [art EXCEPT ![r] = a]
        BY <2>5 DEF WebhookFind
      <3>2. row' \in [Requests -> [content : Versions, topic : Topics \cup {NoTopic},
                                  embedding : Versions]]
        BY <3>1 DEF TypeOK, Wanted
      <3>3. /\ pc' \in [Requests -> Stages]
            /\ art' \in [Requests -> Articles \cup {NoArticle}]
            /\ \A q \in Requests : pc'[q] \in {"take", "write", "save", "produce"}
                                    => art'[q] \in Articles
        <4>1. CASE SetPc(r, "insert") /\ UNCHANGED art
          BY <4>1 DEF TypeOK
        <4>2. ASSUME NEW a \in WithTopic(t), SetPc(r, "write"), art' = [art EXCEPT ![r] = a]
              PROVE  /\ pc' \in [Requests -> Stages]
                     /\ art' \in [Requests -> Articles \cup {NoArticle}]
                     /\ \A q \in Requests : pc'[q] \in {"take", "write", "save", "produce"}
                                             => art'[q] \in Articles
          <5>1. a \in Articles
            BY DEF WithTopic
          <5>2. QED
            BY <4>2, <5>1 DEF TypeOK
        <4>3. QED
          BY <3>1, <4>1, <4>2
      <3>4. UNCHANGED <<db, summary, pending, edits, cons, lost, late, crashes>>
        BY <2>5 DEF WebhookFind
      <3>5. QED
        BY <3>2, <3>3, <3>4 DEF TypeOK
    <2>6. CASE WebhookInsert(r)
      BY <2>6 DEF TypeOK, WebhookInsert, InsertRow
    <2>7. CASE WebhookWrite(r)
      BY <2>7 DEF TypeOK, WebhookWrite, UpdateRow
    <2>8. CASE Produce(r)
      BY <2>8 DEF TypeOK, Produce
    <2>9. CASE SummaryLookup(r)
      <3>1. PICK a \in Articles :
              /\ art' = [art EXCEPT ![r] = a]
              /\ pc' = [pc EXCEPT ![r] = "done"] \/ pc' = [pc EXCEPT ![r] = "take"]
        BY <2>9 DEF SummaryLookup
      <3>2. /\ pc' \in [Requests -> Stages]
            /\ art' \in [Requests -> Articles \cup {NoArticle}]
            /\ \A q \in Requests : pc'[q] \in {"take", "write", "save", "produce"}
                                    => art'[q] \in Articles
        BY <3>1 DEF TypeOK
      <3>3. QED
        BY <2>9, <3>2 DEF TypeOK, SummaryLookup
    <2>10. CASE SummaryTake(r)
      BY <2>10 DEF TypeOK, SummaryTake, RowOf
    <2>11. CASE SummarySave(r)
      BY <2>11 DEF TypeOK, SummarySave, SetSummary, LateSummary
    <2>12. CASE ManualSummary(r)
      BY <2>12 DEF TypeOK, ManualSummary, SetSummary
    <2>13. CASE RowTake(r)
      BY <2>13 DEF TypeOK, RowTake, RowOf
    <2>14. CASE VectorizeSave(r)
      BY <2>14 DEF TypeOK, VectorizeSave, SetEmbedding, LateEmbedding
    <2>15. CASE DifySave(r)
      BY <2>15 DEF TypeOK, DifySave, LoseSummary, LoseEmbedding, LateEmbedding
    <2>16. CASE DifySaveRefused(r)
      BY <2>16 DEF TypeOK, DifySaveRefused
    <2>17. QED
      BY <1>1, <2>1, <2>2, <2>3, <2>4, <2>5, <2>6, <2>7, <2>8, <2>9, <2>10, <2>11,
         <2>12, <2>13, <2>14, <2>15, <2>16 DEF Serve
  <1>2. ASSUME NEW r \in Requests, ServeFails(r) PROVE TypeOK'
    <2>1. ASSUME NEW f \in FaultKinds, Fails(r, f) PROVE TypeOK'
      BY <2>1 DEF TypeOK, Fails
    <2>2. CASE UpdateWriteFails(r)
      BY <2>2 DEF TypeOK, UpdateWriteFails
    <2>3. CASE WebhookRereadFails(r)
      BY <2>3 DEF TypeOK, WebhookRereadFails, UpdateRow, LoseSummary, LoseEmbedding
    <2>4. CASE ProduceAstray(r)
      BY <2>4 DEF TypeOK, ProduceAstray, LoseSummary, LoseEmbedding
    <2>5. QED
      BY <1>2, <2>1, <2>2, <2>3, <2>4 DEF ServeFails, CreateFails, UpdateTakeFails, WebhookFails,
         SummaryFails, ManualFails, SaveFails, FaultKinds
  <1>3. CASE Consume
    <2>1. ASSUME NEW a \in Articles, Receive(a) PROVE TypeOK'
      BY <2>1 DEF TypeOK, Receive
    <2>2. CASE ConsumerTake
      BY <2>2 DEF TypeOK, ConsumerTake
    <2>3. CASE ConsumerSummary
      BY <2>3 DEF TypeOK, ConsumerSummary, SetSummary
    <2>4. CASE ConsumerEmbedding
      BY <2>4 DEF TypeOK, ConsumerEmbedding, SetEmbedding
    <2>5. QED
      BY <1>3, <2>1, <2>2, <2>3, <2>4 DEF Consume
  <1>4. CASE ConsumeFails
    <2> USE DEF LoseSummary, LoseEmbedding
    <2>1. CASE ConsumerGivesUp
      BY <2>1 DEF TypeOK, ConsumerGivesUp
    <2>2. CASE ConsumerNoAnswer
      BY <2>2 DEF TypeOK, ConsumerNoAnswer
    <2>3. CASE ConsumerSkipsSummary
      BY <2>3 DEF TypeOK, ConsumerSkipsSummary
    <2>4. CASE ConsumerSkipsEmbedding
      BY <2>4 DEF TypeOK, ConsumerSkipsEmbedding
    <2>5. QED
      BY <1>4, <2>1, <2>2, <2>3, <2>4 DEF ConsumeFails
  <1>5. CASE Crash
    BY <1>5 DEF TypeOK, Crash, Cut
  <1>6. CASE UNCHANGED vars
    BY <1>6 DEF TypeOK, vars
  <1>7. QED
    BY <1>1, <1>2, <1>3, <1>4, <1>5, <1>6 DEF Next

\* In every behaviour all variables keep their types.
THEOREM TypeCorrect == Spec => []TypeOK
  <1>1. Init => TypeOK
    BY InitTypeOK
  <1>2. TypeOK /\ [Next]_vars => TypeOK'
    BY TypeStep
  <1>3. QED
    BY <1>1, <1>2, PTL DEF Spec
-----------------------------------------------------------------------------
(* Freshness.  SummaryFollowsContent and EmbeddingFollowsContent are not   *)
(* inductive by themselves: when the consumer stores what it derived from  *)
(* an old version, somebody must already have announced the newer one.     *)

Fresh == SummaryFollowsContent /\ EmbeddingFollowsContent /\ StaleReadAnnounced

\* Announcements are only withdrawn by the consumer, by a crash and by a message
\* that goes astray.
LEMMA AnnouncedKept ==
  ASSUME TypeOK, NEW r \in Requests, Serve(r) \/ ServeFails(r), ~ProduceAstray(r),
         NEW a \in Articles, Announced(a)
  PROVE  Announced(a)'
  <1> USE DEF Announced, Unpublished, SetPc, Done, Starts
  <1>1. CASE Produce(r)
    <2>1. CASE pending[a] > 0
      BY <1>1, <2>1 DEF Produce, TypeOK
    <2>2. CASE \E q \in Requests : pc[q] = "produce" /\ art[q] = a
      <3>1. PICK q \in Requests : pc[q] = "produce" /\ art[q] = a
        BY <2>2
      <3>2. CASE q = r
        BY <1>1, <3>1, <3>2 DEF Produce, TypeOK
      <3>3. CASE q # r
        BY <1>1, <3>1, <3>3 DEF Produce, TypeOK
      <3>4. QED
        BY <3>2, <3>3
    <2>3. QED
      BY <2>1, <2>2
  <1>2. CASE ~Produce(r)
    <2>1. UNCHANGED pending
      BY <1>2 DEF Serve, ServeFails, CreateInsert, UpdateDropSummary, UpdateTake, UpdateWrite,
         WebhookFind, WebhookInsert, WebhookWrite, SummaryLookup, SummaryTake, SummarySave,
         ManualSummary, RowTake, VectorizeSave, DifySave, DifySaveRefused, CreateFails,
         UpdateTakeFails, UpdateWriteFails, WebhookRereadFails, WebhookFails, SummaryFails,
         ManualFails, SaveFails, Fails
    <2>2. /\ pc[r] # "produce"
          /\ \A q \in Requests \ {r} : pc'[q] = pc[q] /\ art'[q] = art[q]
      <3> USE DEF TypeOK
      <3>1. CASE CreateInsert(r) \/ WebhookInsert(r)
        BY <3>1 DEF CreateInsert, WebhookInsert, InsertRow
      <3>2. CASE UpdateDropSummary(r) \/ UpdateTake(r) \/ UpdateWrite(r) \/ UpdateWriteFails(r)
        BY <3>2 DEF UpdateDropSummary, UpdateTake, UpdateWrite, UpdateWriteFails
      <3>3. CASE WebhookFind(r) \/ WebhookWrite(r)
        BY <3>3 DEF WebhookFind, WebhookWrite
      <3>4. CASE SummaryLookup(r) \/ SummaryTake(r) \/ SummarySave(r) \/ ManualSummary(r)
        BY <3>4 DEF SummaryLookup, SummaryTake, SummarySave, ManualSummary
      <3>5. CASE RowTake(r) \/ VectorizeSave(r) \/ DifySave(r) \/ DifySaveRefused(r)
        BY <3>5 DEF RowTake, VectorizeSave, DifySave, DifySaveRefused
      <3>6. CASE ServeFails(r)
        <4>1. pc[r] # "produce"
          BY <3>6 DEF ServeFails, CreateFails, UpdateTakeFails, UpdateWriteFails,
             WebhookRereadFails, WebhookFails, SummaryFails, ManualFails, SaveFails
        <4>2. CASE UpdateWriteFails(r) \/ WebhookRereadFails(r)
          BY <4>1, <4>2 DEF UpdateWriteFails, WebhookRereadFails
        <4>3. CASE \E f \in {"db", "llm", "redis", "remote"} : Fails(r, f)
          BY <4>1, <4>3 DEF Fails
        <4>4. QED
          BY <3>6, <4>2, <4>3 DEF ServeFails, CreateFails, UpdateTakeFails, WebhookFails,
             SummaryFails, ManualFails, SaveFails
      <3>7. QED
        BY <1>2, <3>1, <3>2, <3>3, <3>4, <3>5, <3>6 DEF Serve
    <2>3. QED
      BY <2>1, <2>2
  <1>3. QED
    BY <1>1, <1>2

\* Freshness holds while nothing it speaks of changes.
LEMMA FreshFrame ==
  ASSUME TypeOK, Fresh, UNCHANGED <<db, summary, cons, lost, late>>,
         \A a \in Articles : Announced(a) => Announced(a)'
  PROVE  Fresh'
  BY DEF TypeOK, Fresh, SummaryFollowsContent, EmbeddingFollowsContent, StaleReadAnnounced, Deriving

\* A new version of one article, announced, leaves freshness intact.
LEMMA FreshEdit ==
  ASSUME TypeOK, Fresh, NEW b \in Articles, Announced(b)',
         \A a \in Articles \ {b} : /\ content'[a] = content[a]
                                  /\ embedding'[a] = embedding[a],
         UNCHANGED <<summary, cons, lost, late>>,
         \A a \in Articles : Announced(a) => Announced(a)'
  PROVE  Fresh'
  BY DEF TypeOK, Fresh, SummaryFollowsContent, EmbeddingFollowsContent, StaleReadAnnounced, Deriving

\* A new version that a failure keeps from being announced is recorded as lost.
LEMMA FreshLose ==
  ASSUME TypeOK, Fresh, NEW r \in Requests, WebhookRereadFails(r),
         \A a \in Articles : Announced(a) => Announced(a)'
  PROVE  Fresh'
  <1>1. PICK b \in Articles : b = art[r]
    BY DEF WebhookRereadFails, TypeOK
  <1>2. /\ content' = [content EXCEPT ![b] = edits + 1]
        /\ lostSum' = lostSum \cup {<<b, edits + 1>>} /\ lostEmb' = lostEmb \cup {<<b, edits + 1>>}
        /\ UNCHANGED <<embedding, summary, cons, late>>
    BY <1>1 DEF WebhookRereadFails, UpdateRow, LoseSummary, LoseEmbedding
  <1>3. <<b, content'[b]>> \in lostSum' /\ <<b, content'[b]>> \in lostEmb'
    BY <1>2 DEF TypeOK
  <1>4. /\ \A a \in Articles \ {b} : content'[a] = content[a]
        /\ lostSum \subseteq lostSum' /\ lostEmb \subseteq lostEmb'
    BY <1>2 DEF TypeOK
  <1>5. QED
    BY <1>2, <1>3, <1>4 DEF TypeOK, Fresh, SummaryFollowsContent, EmbeddingFollowsContent,
       StaleReadAnnounced, Deriving

\* So is the version whose message goes astray.
LEMMA FreshAstray ==
  ASSUME TypeOK, Fresh, NEW r \in Requests, ProduceAstray(r)
  PROVE  Fresh'
  <1>1. PICK b \in Articles : b = art[r]
    BY DEF ProduceAstray, TypeOK
  <1>2. /\ lostSum' = lostSum \cup {<<b, content[b]>>}
        /\ lostEmb' = lostEmb \cup {<<b, content[b]>>}
        /\ pc' = [pc EXCEPT ![r] = "done"]
        /\ UNCHANGED <<db, summary, pending, art, cons, late>>
    BY <1>1 DEF ProduceAstray, LoseSummary, LoseEmbedding, SetPc, Done
  <1>3. \A a \in Articles \ {b} : Announced(a) => Announced(a)'
    BY <1>1, <1>2 DEF Announced, Unpublished, TypeOK
  <1>4. QED
    BY <1>2, <1>3 DEF TypeOK, Fresh, SummaryFollowsContent, EmbeddingFollowsContent,
       StaleReadAnnounced, Deriving

\* So is a version that an export brings back, and a vector that it puts over
\* another one is recorded as late.
LEMMA FreshExport ==
  ASSUME TypeOK, Fresh, NEW r \in Requests, DifySave(r),
         \A a \in Articles : Announced(a) => Announced(a)'
  PROVE  Fresh'
  <1>1. PICK b \in Articles : b = art[r]
    BY DEF DifySave, TypeOK
  <1>2. PICK v \in Versions, w \in Versions : v = row[r].content /\ w = row[r].embedding
    BY DEF TypeOK
  <1>3. /\ content' = [content EXCEPT ![b] = v] /\ embedding' = [embedding EXCEPT ![b] = w]
        /\ \/ v = content[b] /\ lostSum' = lostSum /\ lostEmb' = lostEmb
           \/ lostSum' = lostSum \cup {<<b, v>>} /\ lostEmb' = lostEmb \cup {<<b, v>>}
        /\ \/ w = embedding[b] /\ lateEmb' = lateEmb
           \/ lateEmb' = lateEmb \cup {<<b, v>>}
        /\ UNCHANGED <<summary, cons, lateSum>>
    BY <1>1, <1>2 DEF DifySave, LoseSummary, LoseEmbedding, LateEmbedding
  <1>4. /\ content'[b] = content[b] \/ <<b, content'[b]>> \in lostSum' \cap lostEmb'
        /\ embedding'[b] = embedding[b] \/ <<b, content'[b]>> \in lateEmb'
    BY <1>3 DEF TypeOK
  <1>5. /\ \A a \in Articles \ {b} : content'[a] = content[a] /\ embedding'[a] = embedding[a]
        /\ lostSum \subseteq lostSum' /\ lostEmb \subseteq lostEmb' /\ lateEmb \subseteq lateEmb'
    BY <1>3 DEF TypeOK
  <1> HIDE DEF late, lost, db
  <1>6. SummaryFollowsContent'
    BY <1>3, <1>4, <1>5 DEF TypeOK, Fresh, SummaryFollowsContent, Deriving, cons
  <1>7. EmbeddingFollowsContent'
    BY <1>3, <1>4, <1>5 DEF TypeOK, Fresh, EmbeddingFollowsContent, Deriving, cons
  <1>8. StaleReadAnnounced'
    BY <1>3, <1>4, <1>5 DEF TypeOK, Fresh, StaleReadAnnounced, cons
  <1>9. QED
    BY <1>6, <1>7, <1>8 DEF Fresh

LEMMA FreshServe ==
  ASSUME TypeOK, Fresh, NEW r \in Requests, Serve(r) \/ ServeFails(r)
  PROVE  Fresh'
  <1> SUFFICES ASSUME ~ProduceAstray(r) PROVE Fresh'
    BY FreshAstray
  <1>1. \A a \in Articles : Announced(a) => Announced(a)'
    BY AnnouncedKept
  <1> USE DEF SetPc, Done, Starts
  <1>2. CASE CreateInsert(r) \/ WebhookInsert(r)
    <2>1. PICK b \in Articles, t \in Topics \cup {NoTopic} : InsertRow(r, b, t)
      BY <1>2 DEF CreateInsert, WebhookInsert, TypeOK
    <2>2. Announced(b)'
      BY <1>2, <2>1 DEF CreateInsert, WebhookInsert, InsertRow, Announced, Unpublished, TypeOK
    <2>3. UNCHANGED <<summary, cons, lost, late>>
      BY <1>2 DEF CreateInsert, WebhookInsert
    <2>4. \A a \in Articles \ {b} : /\ content'[a] = content[a]
                                  /\ embedding'[a] = embedding[a]
      BY <2>1 DEF InsertRow, TypeOK
    <2>5. QED
      BY <1>1, <2>2, <2>3, <2>4, FreshEdit
  <1>3. CASE UpdateWrite(r) \/ WebhookWrite(r)
    <2>1. PICK b \in Articles : b = art[r] /\ UpdateRow(b)
      BY <1>3 DEF UpdateWrite, WebhookWrite, TypeOK
    <2>2. Announced(b)'
      BY <1>3, <2>1 DEF UpdateWrite, WebhookWrite, Announced, Unpublished, TypeOK
    <2>3. UNCHANGED <<summary, cons, lost, late>>
      BY <1>3 DEF UpdateWrite, WebhookWrite
    <2>4. \A a \in Articles \ {b} : /\ content'[a] = content[a]
                                  /\ embedding'[a] = embedding[a]
      BY <2>1 DEF UpdateRow, TypeOK
    <2>5. QED
      BY <1>1, <2>1, <2>2, <2>3, <2>4, FreshEdit
  <1>4. CASE UpdateDropSummary(r) \/ SummarySave(r) \/ ManualSummary(r)
    <2>1. UNCHANGED <<db, cons, lost, lateEmb>> /\ lateSum \subseteq lateSum'
      BY <1>4 DEF UpdateDropSummary, SummarySave, ManualSummary, LateSummary
    <2>2. \A a \in Articles : \/ summary'[a] = summary[a]
                              \/ summary'[a] \in {0, Manual, content[a]}
                              \/ <<a, content[a]>> \in lateSum'
      BY <1>4 DEF UpdateDropSummary, SummarySave, ManualSummary, SetSummary, LateSummary, TypeOK
    <2>3. QED
      BY <1>1, <2>1, <2>2 DEF TypeOK, Fresh, SummaryFollowsContent, EmbeddingFollowsContent,
         StaleReadAnnounced, Deriving
  <1>5. CASE VectorizeSave(r)
    <2>1. UNCHANGED <<summary, cons, lost, content, lateSum>> /\ lateEmb \subseteq lateEmb'
      BY <1>5 DEF VectorizeSave, SetEmbedding, LateEmbedding
    <2>2. \A a \in Articles : \/ embedding'[a] = embedding[a]
                              \/ embedding'[a] = content[a]
                              \/ <<a, content[a]>> \in lateEmb'
      BY <1>5 DEF VectorizeSave, SetEmbedding, LateEmbedding, TypeOK
    <2>3. QED
      BY <1>1, <2>1, <2>2 DEF TypeOK, Fresh, SummaryFollowsContent, EmbeddingFollowsContent,
         StaleReadAnnounced, Deriving
  <1>6. CASE UpdateTake(r) \/ WebhookFind(r) \/ Produce(r) \/ SummaryLookup(r) \/ SummaryTake(r)
             \/ RowTake(r) \/ DifySaveRefused(r)
    <2>1. UNCHANGED <<db, summary, cons, lost, late>>
      BY <1>6 DEF UpdateTake, WebhookFind, Produce, SummaryLookup, SummaryTake, RowTake,
         DifySaveRefused
    <2>2. QED
      BY <1>1, <2>1, FreshFrame
  <1>7. CASE ServeFails(r) /\ ~WebhookRereadFails(r)
    <2>1. UNCHANGED <<db, summary, cons, lost, late>>
      BY <1>7 DEF ServeFails, CreateFails, UpdateTakeFails, UpdateWriteFails, WebhookFails,
         SummaryFails, ManualFails, SaveFails, Fails
    <2>2. QED
      BY <1>1, <2>1, FreshFrame
  <1>8. QED
    BY <1>1, <1>2, <1>3, <1>4, <1>5, <1>6, <1>7, FreshLose, FreshExport DEF Serve

LEMMA FreshConsume ==
  ASSUME TypeOK, Fresh, Consume \/ ConsumeFails
  PROVE  Fresh'
  <1> USE DEF Fresh, SummaryFollowsContent, EmbeddingFollowsContent, StaleReadAnnounced,
              Announced, Unpublished, Deriving
  <1>1. ASSUME NEW b \in Articles, Receive(b) PROVE Fresh'
    <2>1. \A a \in Articles : pending[a] > 0 => pending'[a] > 0 \/ a = b
      BY <1>1 DEF Receive, TypeOK
    <2>2. QED
      BY <1>1, <2>1 DEF Receive, TypeOK
  <1>2. CASE ConsumerTake
    BY <1>2 DEF ConsumerTake, TypeOK
  <1>3. CASE ConsumerSummary
    BY <1>3 DEF ConsumerSummary, SetSummary, TypeOK
  <1>4. CASE ConsumerEmbedding
    BY <1>4 DEF ConsumerEmbedding, SetEmbedding, TypeOK
  <1> USE DEF LoseSummary, LoseEmbedding
  <1>5. CASE ConsumerGivesUp
    BY <1>5 DEF ConsumerGivesUp, TypeOK
  <1>6. CASE ConsumerNoAnswer
    BY <1>6 DEF ConsumerNoAnswer, TypeOK
  <1>7. CASE ConsumerSkipsSummary
    BY <1>7 DEF ConsumerSkipsSummary, TypeOK
  <1>8. CASE ConsumerSkipsEmbedding
    BY <1>8 DEF ConsumerSkipsEmbedding, TypeOK
  <1>9. QED
    BY <1>1, <1>2, <1>3, <1>4, <1>5, <1>6, <1>7, <1>8 DEF Consume, ConsumeFails

\* A crash withdraws what the writers had not published and what the consumer was
\* deriving; all of that is recorded as lost.
LEMMA FreshCrash ==
  ASSUME TypeOK, Fresh, Crash
  PROVE  Fresh'
  BY DEF Fresh, SummaryFollowsContent, EmbeddingFollowsContent, StaleReadAnnounced,
         Announced, Unpublished, Deriving, CutShort, Cut, Crash, TypeOK

\* article_handler.go, kafka/article_consumer.go: whatever the server does, whatever
\* fails and whichever handler stored it, a generated summary or an embedding that is
\* not of the row's text is being replaced, or the loss of that work is recorded, or a
\* request stored it over that text from a row it had read before.
THEOREM Freshness ==
  Spec => [](SummaryFollowsContent /\ EmbeddingFollowsContent /\ StaleReadAnnounced)
  <1>1. Init => TypeOK /\ Fresh
    BY InitTypeOK DEF Init, Fresh, SummaryFollowsContent, EmbeddingFollowsContent, StaleReadAnnounced
  <1>2. TypeOK /\ Fresh /\ [Next]_vars => Fresh'
    <2> SUFFICES ASSUME TypeOK, Fresh, [Next]_vars PROVE Fresh'
      OBVIOUS
    <2>1. ASSUME NEW r \in Requests, Serve(r) \/ ServeFails(r) PROVE Fresh'
      BY <2>1, FreshServe
    <2>2. CASE Consume \/ ConsumeFails
      BY <2>2, FreshConsume
    <2>3. CASE Crash
      BY <2>3, FreshCrash
    <2>4. CASE UNCHANGED vars
      BY <2>4, FreshFrame DEF vars, Announced, Unpublished
    <2>5. QED
      BY <2>1, <2>2, <2>3, <2>4 DEF Next
  <1>3. QED
    BY <1>1, <1>2, TypeStep, PTL DEF Spec, Fresh

\* The half about embeddings, the column that vector search ranks by: one that is not
\* of the row's text, or is missing, is accounted for in the same way.
THEOREM EmbeddingsFollow == Spec => []EmbeddingFollowsContent
  BY Freshness, PTL
-----------------------------------------------------------------------------
(* Edits.                                                                  *)

\* A step keeps all texts, writes a new version into one row, or is an export.
LEMMA ContentStep ==
  ASSUME TypeOK, [Next]_vars
  PROVE  \/ UNCHANGED content
         \/ \E b \in Articles : content' = [content EXCEPT ![b] = edits + 1]
         \/ \E r \in Requests : DifySave(r)
  <1>1. ASSUME NEW r \in Requests, Serve(r) \/ ServeFails(r), ~DifySave(r)
        PROVE  UNCHANGED content \/ \E b \in Articles : content' = [content EXCEPT ![b] = edits + 1]
    <2>1. CASE CreateInsert(r) \/ WebhookInsert(r)
      BY <2>1 DEF CreateInsert, WebhookInsert, InsertRow
    <2>2. CASE UpdateWrite(r) \/ WebhookWrite(r) \/ WebhookRereadFails(r)
      BY <2>2 DEF UpdateWrite, WebhookWrite, WebhookRereadFails, UpdateRow, TypeOK
    <2>3. QED
      BY <1>1, <2>1, <2>2 DEF Serve, ServeFails, UpdateDropSummary, UpdateTake,
         WebhookFind, Produce, SummaryLookup, SummaryTake, SummarySave, ManualSummary, RowTake,
         VectorizeSave, SetEmbedding, DifySaveRefused, CreateFails, UpdateTakeFails,
         UpdateWriteFails, ProduceAstray, WebhookFails, SummaryFails, ManualFails, SaveFails, Fails
  <1>2. CASE Consume \/ ConsumeFails \/ Crash
    BY <1>2 DEF Consume, ConsumeFails, Crash, Receive, ConsumerTake, ConsumerSummary,
       ConsumerEmbedding, SetEmbedding, ConsumerGivesUp, ConsumerNoAnswer,
       ConsumerSkipsSummary, ConsumerSkipsEmbedding
  <1>3. CASE UNCHANGED vars
    BY <1>3 DEF vars
  <1>4. QED
    BY <1>1, <1>2, <1>3 DEF Next

LEMMA NewVersionIsLater ==
  ASSUME TypeOK, UNCHANGED content \/ \E b \in Articles : content' = [content EXCEPT ![b] = edits + 1]
  PROVE  \A a \in Articles : content'[a] >= content[a]
  BY DEF TypeOK, Versions

\* Whatever fails or overlaps, an older text comes back into a row only when
\* SyncToDify saves the row that it read.
THEOREM EditsUndoneByExports == Spec => OnlyExportsUndoEdits
  <1>1. TypeOK /\ [Next]_vars =>
          [\A a \in Articles : content'[a] < content[a] =>
             \E r \in Requests : Kind[r] = "dify" /\ pc[r] = "save" /\ art[r] = a]_vars
    <2> SUFFICES ASSUME TypeOK, [Next]_vars, NEW a \in Articles, content'[a] < content[a]
                 PROVE  \E r \in Requests : Kind[r] = "dify" /\ pc[r] = "save" /\ art[r] = a
      OBVIOUS
    <2>1. content[a] \in Int /\ ~(content'[a] >= content[a])
      <3>1. content[a] \in Int /\ content'[a] \in Int
        BY TypeStep DEF TypeOK, Versions
      <3>2. QED
        BY <3>1
    <2>2. PICK r \in Requests : DifySave(r)
      BY <2>1, ContentStep, NewVersionIsLater
    <2>3. Kind[r] = "dify" /\ pc[r] = "save"
      BY <2>2 DEF DifySave
    <2>4. art[r] = a
      BY <2>1, <2>2 DEF DifySave, TypeOK, Versions
    <2>5. QED
      BY <2>3, <2>4
  <1>2. QED
    BY <1>1, TypeCorrect, PTL DEF Spec, OnlyExportsUndoEdits

\* SyncToDify writes old contents back; the rest of the server does not.
NoDify == \A r \in Requests : Kind[r] # "dify"

\* Without SyncToDify no step puts an older text into a row.
THEOREM EditsStay ==
  ASSUME NoDify
  PROVE  Spec => NoLostEdit
  <1>1. TypeOK /\ [Next]_vars => [\A a \in Articles : content'[a] >= content[a]]_vars
    <2> SUFFICES ASSUME TypeOK, [Next]_vars
                 PROVE  \A a \in Articles : content'[a] >= content[a]
      OBVIOUS
    <2>1. \A r \in Requests : ~DifySave(r)
      BY DEF NoDify, DifySave
    <2>2. QED
      BY <2>1, ContentStep, NewVersionIsLater
  <1>2. QED
    BY <1>1, TypeCorrect, PTL DEF Spec, NoLostEdit
=============================================================================
