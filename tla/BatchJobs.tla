------------------------------ MODULE BatchJobs ------------------------------
(***************************************************************************)
(* The worker pools of SyncAllToDify and VectorizeAllArticles: a goroutine *)
(* per article, a semaphore channel, a buffered channel of results, a      *)
(* WaitGroup whose last Done lets a closer goroutine close the channel,    *)
(* and the handler that collects until the channel is closed and empty.    *)
(* The deferred calls of a goroutine run in reverse order: the semaphore   *)
(* is released before the WaitGroup is told.                               *)
(***************************************************************************)
EXTENDS Naturals, FiniteSets

CONSTANTS
  Jobs,    \* the articles found
  Limit    \* capacity of the semaphore: 5 for Dify, 3 for the embeddings

ASSUME BatchAssumption == IsFiniteSet(Jobs) /\ Limit \in Nat \ {0}

VARIABLES
  pc,        \* pc[j]: where the goroutine of j is
  tokens,    \* tokens in the semaphore channel
  waiting,   \* counter of the WaitGroup
  channel,   \* results sent and not yet received
  closed,    \* the channel is closed
  main,      \* the handler: "spawn", "collect", "answer" or "done"
  closer,    \* the closer goroutine: "none", "wait" or "done"
  results,   \* results collected
  answer     \* the response

pool == <<tokens, waiting>>
chan == <<channel, closed>>
vars == <<pc, pool, chan, main, closer, results, answer>>

Result(j, ok) == [job |-> j, ok |-> ok]
NoAnswer == [total |-> 0, success |-> 0, failure |-> 0, sent |-> FALSE]
Succeeded(R) == {r \in R : r.ok}

Init ==
  /\ pc = [j \in Jobs |-> "none"]
  /\ tokens = 0
  /\ waiting = 0
  /\ channel = {}
  /\ closed = FALSE
  /\ main = "spawn"
  /\ closer = "none"
  /\ results = {}
  /\ answer = NoAnswer

Goto(j, p) == pc' = [pc EXCEPT ![j] = p]
-----------------------------------------------------------------------------
(* The handler.                                                            *)

Spawn(j) ==
  /\ main = "spawn" /\ pc[j] = "none"
  /\ waiting' = waiting + 1
  /\ Goto(j, "acquire")
  /\ UNCHANGED <<tokens, chan, main, closer, results, answer>>

StartCloser ==
  /\ main = "spawn" /\ \A j \in Jobs : pc[j] # "none"
  /\ closer' = "wait"
  /\ main' = "collect"
  /\ UNCHANGED <<pc, pool, chan, results, answer>>

Collect ==
  /\ main = "collect"
  /\ \E r \in channel :
        /\ channel' = channel \ {r}
        /\ results' = results \cup {r}
  /\ UNCHANGED <<pc, pool, closed, main, closer, answer>>

\* Mutant: the handler stops at the first moment the channel is empty.
CollectedEarly ==
  /\ main = "collect" /\ channel = {}
  /\ main' = "answer"
  /\ UNCHANGED <<pc, pool, chan, closer, results, answer>>

Collected ==
  /\ main = "collect" /\ channel = {} /\ closed
  /\ main' = "answer"
  /\ UNCHANGED <<pc, pool, chan, closer, results, answer>>

Respond ==
  /\ main = "answer"
  /\ answer' = [total |-> Cardinality(Jobs),
                success |-> Cardinality(Succeeded(results)),
                failure |-> Cardinality(results \ Succeeded(results)), sent |-> TRUE]
  /\ main' = "done"
  /\ UNCHANGED <<pc, pool, chan, closer, results>>
-----------------------------------------------------------------------------
(* The goroutine of an article.                                            *)

\* Mutant: one place too many.
AcquireOver(j) ==
  /\ pc[j] = "acquire" /\ tokens <= Limit
  /\ tokens' = tokens + 1
  /\ Goto(j, "work")
  /\ UNCHANGED <<waiting, chan, main, closer, results, answer>>

Acquire(j) ==
  /\ pc[j] = "acquire" /\ tokens < Limit
  /\ tokens' = tokens + 1
  /\ Goto(j, "work")
  /\ UNCHANGED <<waiting, chan, main, closer, results, answer>>

\* Mutant: an early return that sends no result.
WorkSilently(j) ==
  /\ pc[j] = "work"
  /\ channel' \in {channel, channel \cup {Result(j, TRUE)}}
  /\ Goto(j, "release")
  /\ UNCHANGED <<pool, closed, main, closer, results, answer>>

\* The remote call and the database write, with whatever outcome; the buffer has
\* room for a result of every article, so the send does not block.
Work(j) ==
  /\ pc[j] = "work"
  /\ \E ok \in BOOLEAN : channel' = channel \cup {Result(j, ok)}
  /\ Goto(j, "release")
  /\ UNCHANGED <<pool, closed, main, closer, results, answer>>

Release(j) ==
  /\ pc[j] = "release"
  /\ tokens' = tokens - 1
  /\ Goto(j, "leave")
  /\ UNCHANGED <<waiting, chan, main, closer, results, answer>>

Leave(j) ==
  /\ pc[j] = "leave"
  /\ waiting' = waiting - 1
  /\ Goto(j, "done")
  /\ UNCHANGED <<tokens, chan, main, closer, results, answer>>

CloseChannel ==
  /\ closer = "wait" /\ waiting = 0
  /\ closed' = TRUE
  /\ closer' = "done"
  /\ UNCHANGED <<pc, pool, channel, main, results, answer>>

Handler == (\E j \in Jobs : Spawn(j)) \/ StartCloser \/ Collect \/ Collected \/ Respond
Worker(j) == Acquire(j) \/ Work(j) \/ Release(j) \/ Leave(j)

Next == Handler \/ (\E j \in Jobs : Worker(j)) \/ CloseChannel
Spec == Init /\ [][Next]_vars

\* Goroutines are scheduled and the remote calls time out after 30 seconds; the
\* semaphore is a channel, which serves its senders in order.
FairSpec ==
  /\ Spec
  /\ WF_vars(Handler) /\ WF_vars(CloseChannel)
  /\ \A j \in Jobs : SF_vars(Worker(j))
-----------------------------------------------------------------------------
\* Types; every place of the semaphore that is taken is held by one goroutine, so
\* that no more than Limit calls ("at most 5 concurrent") are out.
TypeOK ==
  /\ pc \in [Jobs -> {"none", "acquire", "work", "release", "leave", "done"}]
  /\ tokens \in 0..Limit
  /\ tokens = Cardinality({j \in Jobs : pc[j] \in {"work", "release"}})
  /\ waiting \in 0..Cardinality(Jobs)
  /\ channel \subseteq [job : Jobs, ok : BOOLEAN]
  /\ results \subseteq [job : Jobs, ok : BOOLEAN]
  /\ closed \in BOOLEAN
  /\ main \in {"spawn", "collect", "answer", "done"}
  /\ closer \in {"none", "wait", "done"}
  /\ answer \in [total : Nat, success : Nat, failure : Nat, sent : BOOLEAN]

\* The channel is not closed while a goroutine may still send on it, which would
\* end the process, and the handler does not stop collecting before that.
NoSendAfterClose ==
  closed \/ main \in {"answer", "done"}
    => \A j \in Jobs : pc[j] \in {"leave", "done"}

\* The pool answers as the abstract batch does: once, when every article has one
\* outcome, with counts that add up, and always in the end.
OutcomeOf(j) ==
  IF Result(j, TRUE) \in channel \cup results THEN "ok"
  ELSE IF Result(j, FALSE) \in channel \cup results THEN "failed"
  ELSE "pending"
Promise == INSTANCE Batch WITH outcome <- [j \in Jobs |-> OutcomeOf(j)]
ImplementsBatch == Promise!Spec
=============================================================================
