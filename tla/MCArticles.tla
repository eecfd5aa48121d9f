----------------------------- MODULE MCArticles -----------------------------
(* Instances of Articles for TLC: which requests the server receives.      *)
EXTENDS Articles, TLC

CONSTANTS a1, a2, t1, create, update, webhook, webhook2, summarize, manual, vectorize, dify

\* One request for every handler, two deliveries of the webhook; any MaxServed of
\* them are served.
KindAny ==
  create :> "create" @@ update :> "update" @@ webhook :> "webhook" @@ webhook2 :> "webhook"
  @@ summarize :> "summary" @@ manual :> "manual" @@ vectorize :> "vectorize" @@ dify :> "dify"

\* SyncToDify against an edit.
KindDify ==
  create :> "create" @@ update :> "update" @@ dify :> "dify"

RequestsAny  == DOMAIN KindAny
RequestsDify == DOMAIN KindDify

NoFaults  == {}
AllFaults == FaultKinds
=============================================================================
