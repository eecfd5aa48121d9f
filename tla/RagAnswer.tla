------------------------------ MODULE RagAnswer ------------------------------
(***************************************************************************)
(* Questions about the blog (handlers/article_rag.go, with GenerateStream  *)
(* and the logging transport of services/llm_service.go).  RAGQuestion has *)
(* the language model expand the question into queries, searches articles  *)
(* by vector for each, merges what it finds and streams an answer.  Each   *)
(* of the calls to the model and to the embedding service has a deadline;  *)
(* articles are switched on and off meanwhile.  Questions share nothing    *)
(* but the table, so that one at a time is enough.                         *)
(*                                                                         *)
(* Similarities are whatever the vectors make them.  External: the model   *)
(* sends MaxChunks chunks, or its transfer ends before that.               *)
(***************************************************************************)
EXTENDS Naturals, Sequences, FiniteSets

CONSTANTS
  Articles,      \* articles with an embedding
  TopK,          \* hits per query
  Scores,        \* similarities
  MaxQueries,    \* bound on the queries that the model makes of a question
  MaxChunks      \* chunks of a whole answer

ASSUME RagAssumption ==
  /\ Scores \subseteq Nat /\ Scores # {}
  /\ TopK \in Nat \ {0} /\ MaxQueries \in Nat /\ MaxChunks \in Nat \ {0}
  /\ IsFiniteSet(Articles)

VARIABLES
  active,     \* articles that are active and not deleted
  phase,      \* where the question is
  left,       \* queries still to be searched
  merged,     \* allArticles: the similarity kept for each article found
  seen,       \* all hits of the question, pairs of article and similarity (history)
  chunks,     \* chunks that the transport holds
  events      \* events written to the browser

question == <<active, phase, left, merged, seen, chunks, events>>
search == <<merged, seen>>
stream == <<chunks, events>>

Nothing == [a \in {} |-> 0]

RagInit ==
  /\ active \in SUBSET Articles
  /\ phase = "idle" /\ left = 0
  /\ merged = Nothing /\ seen = {}
  /\ chunks = 0 /\ events = <<>>

Switch(a) ==
  /\ active' = IF a \in active THEN active \ {a} ELSE active \cup {a}
  /\ UNCHANGED <<phase, left, merged, seen, stream>>
-----------------------------------------------------------------------------
(* Expansion of the question.                                              *)

Ask ==
  /\ phase \in {"idle", "done", "error"}
  /\ phase' = "expanding"
  /\ left' = 0
  /\ merged' = Nothing /\ seen' = {}
  /\ chunks' = 0 /\ events' = <<>>
  /\ UNCHANGED active

\* The model's array of queries, an empty one included.
Expand ==
  /\ phase = "expanding"
  /\ phase' = "searching"
  /\ left' \in 0..MaxQueries
  /\ UNCHANGED <<active, search, stream>>

\* No answer in time, or not an array: the question itself is the query.
ExpandFallsBack ==
  /\ phase = "expanding"
  /\ phase' = "searching"
  /\ left' = 1
  /\ UNCHANGED <<active, search, stream>>
-----------------------------------------------------------------------------
(* One query: the TopK nearest of the active articles, merged by article.  *)

\* The hits are TopK of the candidates (or all), none less similar than one left out.
Hits(candidates, sim) ==
  {h \in SUBSET candidates :
     /\ Cardinality(h) = IF Cardinality(candidates) < TopK THEN Cardinality(candidates) ELSE TopK
     /\ \A a \in h, b \in candidates \ h : sim[a] >= sim[b]}

\* Mutant: a later hit replaces an earlier one.
MergeLast(hits, sim) ==
  [a \in DOMAIN merged \cup hits |-> IF a \in hits THEN sim[a] ELSE merged[a]]

Merge(hits, sim) ==
  [a \in DOMAIN merged \cup hits |->
     IF a \in hits /\ (a \in DOMAIN merged => sim[a] > merged[a]) THEN sim[a] ELSE merged[a]]

Search ==
  /\ phase = "searching" /\ left > 0
  /\ \E sim \in [active -> Scores] : \E hits \in Hits(active, sim) :
       /\ merged' = Merge(hits, sim)
       /\ seen' = seen \cup {<<a, sim[a]>> : a \in hits}
  /\ left' = left - 1
  /\ UNCHANGED <<active, phase, stream>>

\* Mutant: the query is tried again.
SearchRetries ==
  /\ phase = "searching" /\ left > 0
  /\ UNCHANGED question

\* No embedding in time, or the database fails: on to the next query.
SearchFails ==
  /\ phase = "searching" /\ left > 0
  /\ left' = left - 1
  /\ UNCHANGED <<active, phase, search, stream>>

\* The articles found go out first.
Begin ==
  /\ phase = "searching" /\ left = 0
  /\ phase' = "connecting"
  /\ events' = IF DOMAIN merged = {} THEN events ELSE Append(events, "articles")
  /\ UNCHANGED <<active, left, search, chunks>>
-----------------------------------------------------------------------------
(* The answer.  The logging transport reads the whole body of a response   *)
(* before the client sees any of it, and drops the error that reading may  *)
(* end with.                                                               *)

ReadWhole ==
  /\ phase = "connecting"
  /\ phase' = "streaming"
  /\ chunks' = MaxChunks
  /\ UNCHANGED <<active, left, search, events>>

\* The connection breaks, or the deadline of the answer passes, in mid-body.
ReadCut ==
  /\ phase = "connecting"
  /\ phase' = "streaming"
  /\ chunks' \in 0..MaxChunks - 1
  /\ UNCHANGED <<active, left, search, events>>

\* No response at all, in time or with a good status.
ConnectFails ==
  /\ phase = "connecting"
  /\ phase' = "error"
  /\ events' = Append(events, "error")
  /\ UNCHANGED <<active, left, search, chunks>>

Message ==
  /\ phase = "streaming" /\ chunks > 0
  /\ chunks' = chunks - 1
  /\ events' = Append(events, "message")
  /\ UNCHANGED <<active, phase, left, search>>

\* The browser has gone: flushing fails.
MessageFails ==
  /\ phase = "streaming" /\ chunks > 0
  /\ phase' = "error"
  /\ events' = Append(events, "error")
  /\ UNCHANGED <<active, left, search, chunks>>

\* stream.Recv answers EOF.
Finish ==
  /\ phase = "streaming" /\ chunks = 0
  /\ phase' = "done"
  /\ events' = Append(events, "done")
  /\ UNCHANGED <<active, left, search, chunks>>

RagNext ==
  \/ \E a \in Articles : Switch(a)
  \/ Ask \/ Expand \/ ExpandFallsBack
  \/ Search \/ SearchFails \/ Begin
  \/ ReadWhole \/ ReadCut \/ ConnectFails
  \/ Message \/ MessageFails \/ Finish

RagSpec == RagInit /\ [][RagNext]_question

\* The handler's goroutine runs on and deadlines pass; the model and the embedding
\* service need never answer.
FairRag ==
  /\ RagSpec
  /\ WF_question(ExpandFallsBack) /\ WF_question(SearchFails) /\ WF_question(Begin)
  /\ WF_question(ConnectFails) /\ WF_question(Message) /\ WF_question(Finish)
-----------------------------------------------------------------------------
\* RAGQuestion: of all hits of all queries, every article is kept once, with the
\* highest similarity that any query gave it.
BestHitKept ==
  /\ DOMAIN merged = {h[1] : h \in seen}
  /\ \A h \in seen : <<h[1], merged[h[1]]>> \in seen /\ h[2] <= merged[h[1]]

\* The deadlines: a question is answered or refused in the end.
AnswerEnds ==
  phase = "expanding" ~> phase \in {"done", "error"}
=============================================================================
