SPECIFICATION Spec
CONSTANTS
  a1 = a1
  a2 = a2
  t1 = t1
  create = create
  update = update
  webhook = webhook
  webhook2 = webhook2
  summarize = summarize
  manual = manual
  vectorize = vectorize
  dify = dify
  Articles = {a1}
  NoArticle = NoArticle
  Topics = {t1}
  NoTopic = NoTopic
  Requests <- RequestsDify
  Kind <- KindDify
  MaxServed = 3
  Faults <- NoFaults
  MaxCrashes = 0
CHECK_DEADLOCK FALSE
PROPERTIES NoLostEdit
