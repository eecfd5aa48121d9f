SPECIFICATION FairSpec
CONSTANTS
  a1 = a1
  a2 = a2
  t1 = t1
  create = create
  update = update
  webhook = webhook
  webhook2 = webhook2
  summarize = summarize
  manual = manual
  vectorize = vectorize
  dify = dify
  Articles = {a1, a2}
  NoArticle = NoArticle
  Topics = {t1}
  NoTopic = NoTopic
  Requests <- RequestsAny
  Kind <- KindAny
  MaxServed = 3
  Faults <- AllFaults
  MaxCrashes = 1
CHECK_DEADLOCK FALSE
INVARIANTS TypeOK SummaryFollowsContent EmbeddingFollowsContent
PROPERTIES OnlyExportsUndoEdits EventuallyFresh
