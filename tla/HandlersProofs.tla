--------------------------- MODULE HandlersProofs ---------------------------
(***************************************************************************)
(* Proofs about three handlers that share nothing: the pools of BatchJobs, *)
(* for any number of articles and places; Comments, for any number of      *)
(* requests; and RagAnswer, for any number of queries, hits and articles.  *)
(***************************************************************************)
EXTENDS BatchJobs, Comments, RagAnswer, FiniteSetTheorems, FunctionTheorems, SequenceTheorems, TLAPS
-----------------------------------------------------------------------------
(* The pools.                                                               *)
Holders == {j \in Jobs : pc[j] \in {"work", "release"}}
Running == {j \in Jobs : pc[j] \notin {"none", "done"}}
Sent    == channel \cup results

\* The WaitGroup counts the goroutines that run; the closer is started after the
\* last of them and closes the channel after the last Done; the handler leaves the
\* collection, with everything received, after that.
WaitCounts == waiting = Cardinality(Running)
Order ==
  /\ main = "spawn" <=> closer = "none"
  /\ closer # "none" => \A j \in Jobs : pc[j] # "none"
  /\ closed <=> closer = "done"
  /\ closer = "done" => \A j \in Jobs : pc[j] = "done"
  /\ main \in {"answer", "done"} => closed /\ channel = {}
  /\ answer.sent <=> main = "done"
  /\ main # "done" => answer = NoAnswer

\* A goroutine that is past its call has sent one result, and no other has.
SentOnce ==
  \A j \in Jobs :
    /\ \A ok \in BOOLEAN : Result(j, ok) \in Sent => pc[j] \in {"release", "leave", "done"}
    /\ pc[j] \in {"release", "leave", "done"} => \E ok \in BOOLEAN : Result(j, ok) \in Sent
    /\ ~(Result(j, TRUE) \in Sent /\ Result(j, FALSE) \in Sent)

Inv == TypeOK /\ WaitCounts /\ Order /\ SentOnce

USE BatchAssumption DEF BatchAssumption, pool, chan, vars, Goto

\* As many results of one outcome as articles that have it.
LEMMA Counting ==
  ASSUME NEW R \in SUBSET [job : Jobs, ok : BOOLEAN], NEW b \in BOOLEAN
  PROVE  /\ Cardinality({r \in R : r.ok = b}) = Cardinality({j \in Jobs : Result(j, b) \in R})
         /\ Cardinality({r \in R : r.ok = b}) \in Nat
  <1> DEFINE S == {j \in Jobs : Result(j, b) \in R}
             T == {r \in R : r.ok = b}
             f == [j \in S |-> Result(j, b)]
  <1>1. IsFiniteSet(S)
    BY FS_Subset
  <1>2. f \in Bijection(S, T)
    <2>1. f \in [S -> T]
      BY DEF Result
    <2>2. \A i, j \in S : f[i] = f[j] => i = j
      BY DEF Result
    <2>3. ASSUME NEW r \in T PROVE \E j \in S : f[j] = r
      <3>1. r = Result(r.job, b) /\ r.job \in Jobs
        BY DEF Result
      <3>2. QED
        BY <3>1
    <2>4. QED
      BY <2>1, <2>2, <2>3, Fun_IsBij
  <1>3. ExistsBijection(S, T)
    BY <1>2 DEF ExistsBijection
  <1>4. QED
    BY <1>1, <1>3, FS_Bijection, FS_CardinalityType

\* How one goroutine's move changes a count of goroutines.
LEMMA CountMove ==
  ASSUME NEW S \in SUBSET Jobs, NEW j \in Jobs
  PROVE  /\ Cardinality(S) \in 0..Cardinality(Jobs)
         /\ j \notin S => Cardinality(S \cup {j}) = Cardinality(S) + 1
         /\ j \in S => Cardinality(S \ {j}) = Cardinality(S) - 1 /\ Cardinality(S) > 0
  <1>1. IsFiniteSet(S) /\ Cardinality(S) <= Cardinality(Jobs)
    BY FS_Subset
  <1>2. Cardinality(S) \in Nat /\ Cardinality(Jobs) \in Nat
    BY <1>1, FS_CardinalityType
  <1>3. j \in S => Cardinality(S) # 0
    BY <1>1, FS_EmptySet
  <1>4. j \notin S => Cardinality(S \cup {j}) = Cardinality(S) + 1
    BY <1>1, FS_AddElement
  <1>5. j \in S => Cardinality(S \ {j}) = Cardinality(S) - 1
    BY <1>1, FS_RemoveElement
  <1>6. QED
    BY <1>1, <1>2, <1>3, <1>4, <1>5

LEMMA InvInit == Init => Inv
  <1> SUFFICES ASSUME Init PROVE Inv
    OBVIOUS
  <1>1. Holders = {} /\ Running = {}
    BY DEF Init, Holders, Running
  <1>2. Cardinality({}) = 0 /\ Cardinality(Jobs) \in Nat
    BY FS_EmptySet, FS_CardinalityType
  <1>3. TypeOK
    <2>1. tokens = Cardinality({j \in Jobs : pc[j] \in {"work", "release"}})
      BY <1>1, <1>2 DEF Init, Holders
    <2>2. answer \in [total : Nat, success : Nat, failure : Nat, sent : BOOLEAN]
      BY DEF Init, NoAnswer
    <2>3. tokens \in 0..Limit /\ waiting \in 0..Cardinality(Jobs)
      BY <1>2 DEF Init
    <2>4. QED
      BY <2>1, <2>2, <2>3 DEF Init, TypeOK
  <1>4. WaitCounts
    BY <1>1, <1>2 DEF Init, WaitCounts
  <1>5. Order /\ SentOnce
    BY DEF Init, Order, SentOnce, NoAnswer, Sent
  <1>6. QED
    BY <1>3, <1>4, <1>5 DEF Inv

LEMMA InvStep == Inv /\ [Next]_vars => Inv'
  <1> SUFFICES ASSUME Inv, [Next]_vars PROVE Inv'
    OBVIOUS
  <1> USE DEF Inv
  <1>0. tokens = Cardinality(Holders)
    BY DEF TypeOK, Holders
  <1>1. CASE UNCHANGED vars
    BY <1>1 DEF TypeOK, WaitCounts, Running, Order, SentOnce, Sent
  <1>2. ASSUME NEW j \in Jobs, Spawn(j) PROVE Inv'
    <2>1. Holders' = Holders /\ Running' = Running \cup {j} /\ j \notin Running
      <3>1. Holders' = Holders \ {j} /\ Running' = Running \cup {j}
        <4>1. \A i \in Jobs : pc'[i] = IF i = j THEN "acquire" ELSE pc[i]
          BY <1>2 DEF Spawn, TypeOK
        <4>2. QED
          BY <1>2, <4>1 DEF Spawn, Holders, Running
      <3>2. j \notin Holders /\ j \notin Running
        BY <1>2 DEF Spawn, Holders, Running
      <3>3. QED
        BY <3>1, <3>2
    <2>2. Cardinality(Running \cup {j}) = Cardinality(Running) + 1
          /\ Cardinality(Running \cup {j}) \in 0..Cardinality(Jobs)
      BY <2>1, CountMove DEF Running
    <2>3. TypeOK'
      BY <1>0, <1>2, <2>1, <2>2 DEF Spawn, TypeOK, WaitCounts, Holders
    <2>4. WaitCounts'
      BY <1>2, <2>1, <2>2 DEF Spawn, WaitCounts
    <2>5. Order'
      BY <1>2 DEF Spawn, Order, TypeOK
    <2>6. SentOnce'
      BY <1>2 DEF Spawn, SentOnce, Sent, TypeOK
    <2>7. QED
      BY <2>3, <2>4, <2>5, <2>6
  <1>3. CASE StartCloser
    BY <1>3 DEF StartCloser, TypeOK, WaitCounts, Running, Order, SentOnce, Sent
  <1>4. CASE Collect
    <2>1. Sent' = Sent
      BY <1>4 DEF Collect, Sent
    <2>2. QED
      BY <1>4, <2>1 DEF Collect, TypeOK, WaitCounts, Running, Order, SentOnce
  <1>5. CASE Collected
    BY <1>5 DEF Collected, TypeOK, WaitCounts, Running, Order, SentOnce, Sent
  <1>6. CASE Respond
    <2>1. /\ Cardinality({r \in results : r.ok = TRUE}) \in Nat
          /\ Cardinality({r \in results : r.ok = FALSE}) \in Nat
      BY Counting DEF TypeOK
    <2>2. /\ Succeeded(results) = {r \in results : r.ok = TRUE}
          /\ results \ Succeeded(results) = {r \in results : r.ok = FALSE}
      BY DEF Succeeded, TypeOK
    <2>3. Cardinality(Jobs) \in Nat
      BY FS_CardinalityType
    <2>4. answer' \in [total : Nat, success : Nat, failure : Nat, sent : BOOLEAN]
      BY <1>6, <2>1, <2>2, <2>3 DEF Respond
    <2>5. TypeOK'
      BY <1>6, <2>4 DEF Respond, TypeOK
    <2>6. QED
      BY <1>6, <2>5 DEF Respond, WaitCounts, Running, Order, SentOnce, Sent
  <1>7. ASSUME NEW j \in Jobs, Acquire(j) PROVE Inv'
    <2>1. Holders' = Holders \cup {j} /\ j \notin Holders /\ Running' = Running
      BY <1>7 DEF Acquire, TypeOK, Holders, Running
    <2>2. Cardinality(Holders \cup {j}) = Cardinality(Holders) + 1
      BY <2>1, CountMove DEF Holders
    <2>3. tokens' = Cardinality(Holders')
      BY <1>0, <1>7, <2>1, <2>2 DEF Acquire
    <2>4. TypeOK'
      BY <1>7, <2>3 DEF Acquire, TypeOK, Holders
    <2>5. WaitCounts' /\ Order' /\ SentOnce'
      BY <1>7, <2>1 DEF Acquire, WaitCounts, Order, SentOnce, Sent, TypeOK
    <2>6. QED
      BY <2>4, <2>5
  <1>8. ASSUME NEW j \in Jobs, Work(j) PROVE Inv'
    <2>1. Holders' = Holders /\ Running' = Running
      BY <1>8 DEF Work, TypeOK, Holders, Running
    <2>2. PICK ok \in BOOLEAN : channel' = channel \cup {Result(j, ok)}
      BY <1>8 DEF Work
    <2>3. Sent' = Sent \cup {Result(j, ok)}
      BY <1>8, <2>2 DEF Work, Sent
    <2>4. TypeOK'
      <3>1. Result(j, ok) \in [job : Jobs, ok : BOOLEAN]
        BY DEF Result
      <3>2. tokens' = Cardinality(Holders')
        BY <1>0, <1>8, <2>1 DEF Work
      <3>3. QED
        BY <1>8, <2>2, <3>1, <3>2 DEF Work, TypeOK, Holders
    <2>5. WaitCounts'
      BY <1>8, <2>1 DEF Work, WaitCounts
    <2>6. Order'
      BY <1>8 DEF Work, Order, TypeOK
    <2>7. SentOnce'
      <3>1. \A i \in Jobs, b \in BOOLEAN :
              Result(i, b) \in Sent' <=> Result(i, b) \in Sent \/ (i = j /\ b = ok)
        BY <2>3 DEF Result
      <3>2. \A b \in BOOLEAN : Result(j, b) \notin Sent
        BY <1>8 DEF Work, SentOnce
      <3>3. \A i \in Jobs : pc'[i] = IF i = j THEN "release" ELSE pc[i]
        BY <1>8 DEF Work, TypeOK
      <3>4. QED
        BY <3>1, <3>2, <3>3 DEF SentOnce
    <2>8. QED
      BY <2>4, <2>5, <2>6, <2>7
  <1>9. ASSUME NEW j \in Jobs, Release(j) PROVE Inv'
    <2>1. Holders' = Holders \ {j} /\ j \in Holders /\ Running' = Running
      <3>1. Holders' = Holders \ {j} /\ Running' = Running \cup {j}
        <4>1. \A i \in Jobs : pc'[i] = IF i = j THEN "leave" ELSE pc[i]
          BY <1>9 DEF Release, TypeOK
        <4>2. QED
          BY <1>9, <4>1 DEF Release, Holders, Running
      <3>2. j \in Holders /\ j \in Running
        BY <1>9 DEF Release, Holders, Running
      <3>3. QED
        BY <3>1, <3>2
    <2>2. Cardinality(Holders \ {j}) = Cardinality(Holders) - 1 /\ Cardinality(Holders) > 0
      BY <2>1, CountMove DEF Holders
    <2>3. tokens' = Cardinality(Holders') /\ tokens > 0
      BY <1>0, <1>9, <2>1, <2>2 DEF Release
    <2>4. TypeOK'
      BY <1>9, <2>3 DEF Release, TypeOK, Holders
    <2>5. WaitCounts' /\ Order' /\ SentOnce'
      BY <1>9, <2>1 DEF Release, WaitCounts, Order, SentOnce, Sent, TypeOK
    <2>6. QED
      BY <2>4, <2>5
  <1>10. ASSUME NEW j \in Jobs, Leave(j) PROVE Inv'
    <2>1. Holders' = Holders /\ Running' = Running \ {j} /\ j \in Running
      BY <1>10 DEF Leave, TypeOK, Holders, Running
    <2>2. Cardinality(Running \ {j}) = Cardinality(Running) - 1 /\ Cardinality(Running) > 0
      BY <2>1, CountMove DEF Running
    <2>3. tokens' = Cardinality(Holders')
      BY <1>0, <1>10, <2>1 DEF Leave
    <2>4. waiting' = Cardinality(Running') /\ waiting > 0
      BY <1>10, <2>1, <2>2 DEF Leave, WaitCounts
    <2>5. TypeOK'
      <3>1. waiting' \in 0..Cardinality(Jobs)
        BY <2>4, CountMove DEF Running
      <3>2. tokens' = Cardinality({i \in Jobs : pc[i] \in {"work", "release"}})'
        BY <2>3 DEF Holders
      <3>3. QED
        BY <1>10, <3>1, <3>2 DEF Leave, TypeOK
    <2>6. WaitCounts' /\ Order' /\ SentOnce'
      BY <1>10, <2>4 DEF Leave, WaitCounts, Order, SentOnce, Sent, TypeOK
    <2>7. QED
      BY <2>5, <2>6
  <1>11. CASE CloseChannel
    <2>1. Running = {}
      BY <1>11, FS_EmptySet, FS_Subset DEF CloseChannel, WaitCounts, Running
    <2>2. \A j \in Jobs : pc[j] = "done"
      BY <1>11, <2>1 DEF CloseChannel, Running, Order
    <2>3. QED
      BY <1>11, <2>2 DEF CloseChannel, TypeOK, WaitCounts, Running, Order, SentOnce, Sent
  <1>12. QED
    BY <1>1, <1>2, <1>3, <1>4, <1>5, <1>6, <1>7, <1>8, <1>9, <1>10, <1>11
       DEF Next, Handler, Worker

LEMMA InvAlways == Spec => []Inv
  BY InvInit, InvStep, PTL DEF Spec

\* No more goroutines are inside the remote call than the semaphore has places.
THEOREM PlacesHeld == Spec => []TypeOK
  BY InvAlways, PTL DEF Inv

\* The channel is closed after the last send, and the handler collects until then.
THEOREM ClosedAfterSends == Spec => []NoSendAfterClose
  <1>1. Inv => NoSendAfterClose
    BY DEF Inv, Order, NoSendAfterClose
  <1>2. QED
    BY InvAlways, <1>1, PTL
-----------------------------------------------------------------------------
(* The abstract batch.                                                     *)

LEMMA OutcomeKept ==
  ASSUME UNCHANGED <<Sent, answer>> PROVE UNCHANGED Promise!vars
  BY DEF Promise!vars, OutcomeOf, Sent

LEMMA WorkFinishes == ASSUME Inv, NEW j \in Jobs, Work(j) PROVE Promise!Finish
  <1>1. PICK ok \in BOOLEAN : channel' = channel \cup {Result(j, ok)}
    BY DEF Work
  <1>2. \A i \in Jobs, b \in BOOLEAN :
          Result(i, b) \in Sent' <=> Result(i, b) \in Sent \/ (i = j /\ b = ok)
    BY <1>1 DEF Work, Sent, Result
  <1>3. \A b \in BOOLEAN : Result(j, b) \notin Sent
    BY DEF Work, Inv, SentOnce
  <1>4. OutcomeOf(j) = "pending" /\ OutcomeOf(j)' = IF ok THEN "ok" ELSE "failed"
    BY <1>2, <1>3 DEF OutcomeOf, Sent
  <1>5. \A i \in Jobs \ {j} : OutcomeOf(i)' = OutcomeOf(i)
    BY <1>2 DEF OutcomeOf, Sent
  <1>6. [i \in Jobs |-> OutcomeOf(i)]'
          = [[i \in Jobs |-> OutcomeOf(i)] EXCEPT ![j] = IF ok THEN "ok" ELSE "failed"]
    BY <1>4, <1>5
  <1>7. QED
    BY <1>4, <1>6 DEF Promise!Finish, Promise!Having, Promise!Pending, Work

LEMMA RespondAnswers == ASSUME Inv, Respond PROVE Promise!Answer
  <1>1. Sent = results /\ Sent' = Sent /\ \A j \in Jobs : pc[j] = "done"
    BY DEF Respond, Inv, Order, Sent
  <1>2. Promise!Having("ok") = {j \in Jobs : Result(j, TRUE) \in results}
    BY <1>1 DEF Promise!Having, OutcomeOf, Sent
  <1>3. Promise!Having("failed") = {j \in Jobs : Result(j, FALSE) \in results}
    BY <1>1 DEF Promise!Having, OutcomeOf, Sent, Inv, SentOnce
  <1>4. Promise!Having("pending") = {}
    <2>1. \A j \in Jobs : \E ok \in BOOLEAN : Result(j, ok) \in Sent
      BY <1>1 DEF Inv, SentOnce
    <2>2. QED
      BY <2>1 DEF Promise!Having, OutcomeOf, Sent
  <1>5. /\ Succeeded(results) = {r \in results : r.ok = TRUE}
        /\ results \ Succeeded(results) = {r \in results : r.ok = FALSE}
    BY DEF Succeeded, Inv, TypeOK
  <1>6. /\ Cardinality(Succeeded(results)) = Cardinality(Promise!Having("ok"))
        /\ Cardinality(results \ Succeeded(results)) = Cardinality(Promise!Having("failed"))
    BY <1>2, <1>3, <1>5, Counting DEF Inv, TypeOK
  <1>7. ~answer.sent
    BY DEF Respond, Inv, Order
  <1>8. [j \in Jobs |-> OutcomeOf(j)]' = [j \in Jobs |-> OutcomeOf(j)]
    BY <1>1 DEF OutcomeOf, Sent
  <1>9. QED
    <2>1. answer' = [total |-> Cardinality(Jobs), success |-> Cardinality(Promise!Having("ok")),
                     failure |-> Cardinality(Promise!Having("failed")), sent |-> TRUE]
      BY <1>6 DEF Respond
    <2>2. Promise!Having(Promise!Pending) = {}
      BY <1>4 DEF Promise!Pending
    <2>3. \A S : Promise!Cardinality(S) = Cardinality(S)
      BY DEF Promise!Cardinality, Cardinality
    <2>4. QED
      BY <1>7, <1>8, <2>1, <2>2, <2>3 DEF Promise!Answer

LEMMA StepOfBatch ==
  Inv /\ [Next]_vars => [Promise!Finish \/ Promise!Answer]_(Promise!vars)
  <1> SUFFICES ASSUME Inv, [Next]_vars, ~UNCHANGED Promise!vars
               PROVE  Promise!Finish \/ Promise!Answer
    OBVIOUS
  <1>1. ASSUME NEW j \in Jobs, Worker(j), ~Work(j) PROVE UNCHANGED <<Sent, answer>>
    BY <1>1 DEF Worker, Acquire, Release, Leave, Sent
  <1>2. ASSUME NEW j \in Jobs, Spawn(j) PROVE UNCHANGED <<Sent, answer>>
    BY <1>2 DEF Spawn, Sent
  <1>3. StartCloser \/ Collect \/ Collected \/ CloseChannel \/ UNCHANGED vars
          => UNCHANGED <<Sent, answer>>
    BY DEF StartCloser, Collect, Collected, CloseChannel, Sent
  <1>4. QED
    BY <1>1, <1>2, <1>3, OutcomeKept, WorkFinishes, RespondAnswers DEF Next, Handler

\* The pool implements the abstract batch: every article gets one outcome, once, and
\* the one answer comes after all of them and counts them all.
THEOREM StepsOfBatch ==
  Spec => Promise!Init /\ [][Promise!Finish \/ Promise!Answer]_(Promise!vars)
  <1>1. Init => Promise!Init
    BY DEF Init, Promise!Init, OutcomeOf, NoAnswer, Promise!NoAnswer, Promise!Pending
  <1>2. QED
    BY InvAlways, <1>1, StepOfBatch, PTL DEF Spec

HIDE BatchAssumption DEF BatchAssumption, pool, chan, vars, Goto
-----------------------------------------------------------------------------
(* Comments.                                                               *)

Authors == Users \cup {NoUser}
Post    == [topic : Topics, number : Nat, by : Authors]
Letter  == [topic : Topics \cup {NoTopic}, replyTo : Nat, by : Authors]
Steps   == {"idle", "refused", "checked", "ready", "sent", "created", "failed", "timedout"}
OnTheWay == {"sent", "created", "failed", "timedout"}

CommentTypes ==
  /\ posts \in Seq(Post)
  /\ step \in [Requests -> Steps]
  /\ user \in [Requests -> Authors]
  /\ client \in [Requests -> Requests \cup {Shared}]
  /\ apiUser \in [Requests \cup {Shared} -> Authors]
  /\ body \in [Requests -> Letter]
  /\ stored \in [Requests -> Nat]

\* A topic always has a post, so that no later one is its first.
Opened == \A t \in Topics : \E i \in 1..Len(posts) : posts[i].topic = t

\* A request has a client of its own, and writes its user's name on what it sends.
Named ==
  \A r \in Requests :
    /\ step[r] = "ready" => client[r] = r /\ apiUser[r] = user[r]
    /\ step[r] \in OnTheWay => body[r].by = user[r]

\* What Discourse has made of a request is a later post of its topic, under its name.
Stored ==
  \A r \in Requests :
    /\ step[r] = "created" => stored[r] # 0
    /\ stored[r] # 0 =>
         /\ step[r] \in OnTheWay /\ stored[r] \in 1..Len(posts)
         /\ posts[stored[r]].by = user[r] /\ posts[stored[r]].topic = body[r].topic
         /\ posts[stored[r]].number > 1

CInv == CommentTypes /\ Opened /\ Named /\ Stored

\* What a reading has been answered with: all that it knew of on the first page.
ListsHold ==
  /\ list \in [Readers -> SUBSET Nat] /\ known \in [Readers -> SUBSET Nat]
  /\ \A g \in Readers \ blind : \A i \in known[g] :
       i \in 1..Len(posts) /\ (i \in list[g] \/ posts[i].number > PageSize)

LEMMA CInvInit == ASSUME CommentsInit PROVE CInv
  <1> DEFINE n == Cardinality(Topics)
  <1>1. IsFiniteSet(Topics) /\ n \in Nat
    BY FS_CardinalityType, CommentsAssumption DEF CommentsAssumption
  <1>2. /\ posts \in [1..n -> [topic : Topics, number : {1}, by : {NoUser}]]
        /\ \A i, j \in 1..n : posts[i].topic = posts[j].topic => i = j
    BY <1>1 DEF CommentsInit
  <1>3. posts \in Seq(Post) /\ Len(posts) = n
    <2>1. posts \in [1..n -> Post]
      BY <1>2 DEF Post, Authors
    <2>2. QED
      BY <1>1, <2>1, LenProperties, SeqDef
  <1>4. CommentTypes
    <2>1. NoBody \in Letter
      BY DEF NoBody, Letter, Authors
    <2>2. QED
      BY <1>3, <2>1 DEF CommentsInit, CommentTypes, Steps, Authors
  <1>5. Opened
    <2> DEFINE f == [i \in 1..n |-> posts[i].topic]
    <2>1. f \in Injection(1..n, Topics)
      <3>1. \A i \in 1..n : posts[i].topic \in Topics
        BY <1>2
      <3>2. f \in [1..n -> Topics] /\ \A i, j \in 1..n : f[i] = f[j] => i = j
        BY <1>2, <3>1
      <3>3. QED
        BY <3>2, Fun_IsInj
    <2>2. Cardinality(1..n) = n
      BY <1>1, FS_Interval
    <2>3. f \in Surjection(1..n, Topics)
      BY <1>1, <2>1, <2>2, FS_Injection
    <2>4. \A t \in Topics : \E i \in 1..n : f[i] = t
      BY <2>3 DEF Surjection
    <2>5. QED
      BY <1>3, <2>4 DEF Opened
  <1>6. Named /\ Stored
    BY DEF CommentsInit, Named, Stored, OnTheWay
  <1>7. QED
    BY <1>4, <1>5, <1>6 DEF CInv

LEMMA CInvStep == ASSUME CInv, [CommentsNext]_comments PROVE CInv'
  <1> USE DEF CInv, CommentTypes, Steps, OnTheWay, StepTo
  <1>1. ASSUME NEW r \in Requests, NEW u \in Authors, NEW b \in Letter,
               step[r] = "idle", user' = [user EXCEPT ![r] = u], body' = [body EXCEPT ![r] = b],
               step' = [step EXCEPT ![r] = IF u = NoUser THEN "refused" ELSE "checked"],
               UNCHANGED <<posts, client, apiUser, stored>>
        PROVE  CInv'
    <2>1. CommentTypes'
      BY <1>1
    <2>2. Opened' /\ stored[r] = 0
      BY <1>1 DEF Opened, Stored
    <2>3. Named' /\ Stored'
      BY <1>1, <2>2 DEF Named, Stored
    <2>4. QED
      BY <2>1, <2>2, <2>3
  <1>2. ASSUME NEW r \in Requests, NEW u \in Authors, NEW t \in Topics \cup {NoTopic},
               Comment(r, u, t)
        PROVE  CInv'
    <2>1. [NoBody EXCEPT !.topic = t] \in Letter
      BY DEF NoBody, Letter, Authors
    <2>2. QED
      BY <1>1, <1>2, <2>1 DEF Comment
  <1>3. ASSUME NEW r \in Requests, NEW u \in Authors, NEW t \in Topics, NEW i \in Shown(t),
               Reply(r, u, i)
        PROVE  CInv'
    <2>1. i \in Nat
      BY DEF Shown, Of
    <2>2. [NoBody EXCEPT !.replyTo = i] \in Letter
      BY <2>1 DEF NoBody, Letter, Authors
    <2>3. QED
      BY <1>1, <1>3, <2>2 DEF Reply
  <1>4. ASSUME NEW r \in Requests, TakeClient(r) PROVE CInv'
    <2>1. CommentTypes' /\ Opened'
      BY <1>4 DEF TakeClient, Opened
    <2>2. Named'
      BY <1>4 DEF TakeClient, Named
    <2>3. Stored'
      BY <1>4 DEF TakeClient, Stored
    <2>4. QED
      BY <2>1, <2>2, <2>3
  <1>5. ASSUME NEW r \in Requests, Send(r) PROVE CInv'
    <2>1. client[r] = r /\ apiUser[r] = user[r] /\ user[r] \in Authors
      BY <1>5 DEF Send, Named
    <2>2. body' = [body EXCEPT ![r].by = user[r]]
      BY <1>5, <2>1 DEF Send
    <2>3. body' \in [Requests -> Letter] /\ body'[r].by = user[r]
          /\ \A q \in Requests : body'[q].topic = body[q].topic
      <3>1. PICK m : m = [body[r] EXCEPT !.by = user[r]]
        OBVIOUS
      <3>2. m \in Letter /\ m.by = user[r] /\ m.topic = body[r].topic
        BY <2>1, <3>1 DEF Letter
      <3>3. body' = [body EXCEPT ![r] = m]
        BY <2>2, <3>1
      <3>4. QED
        BY <3>2, <3>3
    <2>4. CommentTypes' /\ Opened'
      BY <1>5, <2>3 DEF Send, Opened
    <2>5. Named'
      BY <1>5, <2>2, <2>3 DEF Send, Named
    <2>6. Stored'
      BY <1>5, <2>3 DEF Send, Stored
    <2>7. QED
      BY <2>4, <2>5, <2>6
  <1>6. ASSUME NEW r \in Requests, Store(r) PROVE CInv'
    <2> DEFINE t == body[r].topic
               p == [topic |-> t, number |-> Cardinality(Of(t)) + 1, by |-> body[r].by]
    <2>1. t \in Topics /\ posts' = Append(posts, p) /\ step[r] \in OnTheWay
          /\ stored' = [stored EXCEPT ![r] = Len(posts')] /\ stored[r] = 0
          /\ UNCHANGED <<step, user, client, apiUser, body>>
      BY <1>6 DEF Store
    <2>2. Cardinality(Of(t)) \in Nat \ {0}
      <3>0. posts \in Seq(Post) /\ DOMAIN posts = 1..Len(posts) /\ Len(posts) \in Nat
        BY LenProperties
      <3>1. Of(t) \subseteq 1..Len(posts) /\ IsFiniteSet(1..Len(posts))
        <4>1. Of(t) \subseteq 1..Len(posts)
          BY <3>0, Zenon DEF Of
        <4>2. IsFiniteSet(1..Len(posts))
          BY <3>0, FS_Interval
        <4>3. QED
          BY <4>1, <4>2
      <3>2. IsFiniteSet(Of(t))
        BY <3>1, FS_Subset
      <3>3. PICK i \in 1..Len(posts) : posts[i].topic = t
        BY <2>1 DEF Opened
      <3>4. i \in Of(t)
        BY <3>0, <3>3 DEF Of
      <3>5. QED
        BY <3>2, <3>4, FS_CardinalityType, FS_EmptySet
    <2>3. p.number \in Nat /\ p.number > 1
      BY <2>2
    <2>4. body[r].by = user[r] /\ user[r] \in Authors
      BY <2>1 DEF Named
    <2>5. p \in Post /\ p.by = user[r] /\ p.topic = body[r].topic
      BY <2>1, <2>3, <2>4 DEF Post
    <2> HIDE DEF p
    <2>6. PICK n \in Nat : n = Len(posts)
      OBVIOUS
    <2>7. posts' \in Seq(Post) /\ Len(posts') = n + 1 /\ posts'[n + 1] = p
          /\ \A i \in 1..n : posts'[i] = posts[i]
      BY <2>1, <2>5, <2>6
    <2>8. CommentTypes'
      BY <2>1, <2>6, <2>7
    <2>9. Opened'
      <3>1. \A i \in 1..n : i \in 1..(n + 1)
        OBVIOUS
      <3>2. QED
        BY <2>6, <2>7, <3>1 DEF Opened
    <2>10. Named'
      BY <2>1 DEF Named
    <2>11. Stored'
      BY <2>1, <2>3, <2>5, <2>6, <2>7 DEF Stored
    <2>12. QED
      BY <2>8, <2>9, <2>10, <2>11
  <1>7. ASSUME NEW r \in Requests, Created(r) \/ Fails(r) \/ TimeOut(r) PROVE CInv'
    <2>1. PICK p \in {"created", "failed", "timedout"} :
            /\ step[r] = "sent" /\ step' = [step EXCEPT ![r] = p]
            /\ p = "created" => stored[r] # 0
            /\ UNCHANGED <<posts, user, client, apiUser, body, stored>>
      BY <1>7 DEF Created, Fails, TimeOut
    <2>2. CommentTypes' /\ Opened'
      BY <2>1 DEF Opened
    <2>3. Named'
      BY <2>1 DEF Named
    <2>4. Stored'
      BY <2>1 DEF Stored
    <2>5. QED
      BY <2>2, <2>3, <2>4
  <1>8. CASE UNCHANGED <<posts, step, user, client, apiUser, body, stored>>
    BY <1>8 DEF Opened, Named, Stored
  <1>9. QED
    BY <1>2, <1>3, <1>4, <1>5, <1>6, <1>7, <1>8
    DEF CommentsNext, Write, GetComments, Authors, comments

LEMMA ReadStep == ASSUME CInv, ListsHold, [CommentsNext]_comments PROVE ListsHold'
  <1>1. CASE UNCHANGED readings /\ UNCHANGED posts
    BY <1>1 DEF ListsHold, readings
  <1>2. ASSUME NEW p, posts' = Append(posts, p), UNCHANGED readings PROVE ListsHold'
    <2>1. /\ Len(posts) \in Nat /\ Len(posts') = Len(posts) + 1
          /\ \A i \in 1..Len(posts) : posts'[i] = posts[i]
      BY <1>2 DEF CInv, CommentTypes
    <2>2. QED
      BY <1>2, <2>1 DEF ListsHold, readings
  <1>3. ASSUME NEW r \in Requests, Write(r)
        PROVE  UNCHANGED readings /\ (posts' = posts \/ \E p : posts' = Append(posts, p))
    <2>1. Store(r) => UNCHANGED readings /\ \E p : posts' = Append(posts, p)
      BY DEF Store
    <2>2. QED
      BY <1>3, <2>1 DEF Write, Comment, Reply, TakeClient, Send, Created, Fails, TimeOut
  <1>4. ASSUME NEW g \in Readers, NEW t \in Topics, GetComments(g, t) PROVE ListsHold'
    <2> DEFINE answered == {stored[r] : r \in {q \in Requests : step[q] = "created" /\ body[q].topic = t}}
    <2>1. /\ known' = [known EXCEPT ![g] = answered] /\ posts' = posts
          /\ \/ list' = [list EXCEPT ![g] = Shown(t)] /\ blind' = blind
             \/ blind' = blind \cup {g} /\ list' = list
      BY <1>4 DEF GetComments
    <2>2. ASSUME NEW i \in answered
          PROVE  i \in 1..Len(posts) /\ posts[i].number > 1 /\ posts[i].topic = t
                 /\ posts[i].number \in Nat
      <3>1. PICK r \in Requests : step[r] = "created" /\ body[r].topic = t /\ i = stored[r]
        OBVIOUS
      <3>2. i \in 1..Len(posts) /\ posts[i].number > 1 /\ posts[i].topic = t
        BY <3>1 DEF CInv, Stored
      <3>3. posts[i] \in Post
        BY <3>2 DEF CInv, CommentTypes
      <3>4. QED
        BY <3>2, <3>3 DEF Post
    <2>3. answered \subseteq Nat
      BY <2>2
    <2>4. Shown(t) \subseteq Nat
      BY DEF Shown, Of, CInv, CommentTypes
    <2>5. \A i \in answered : i \in Shown(t) \/ posts[i].number > PageSize
      BY <2>2, CommentsAssumption DEF Shown, Of, CInv, CommentTypes, CommentsAssumption
    <2> HIDE DEF answered
    <2>6. list' \in [Readers -> SUBSET Nat] /\ known' \in [Readers -> SUBSET Nat]
      BY <2>1, <2>3, <2>4 DEF ListsHold
    <2>7. ASSUME NEW h \in Readers \ blind', NEW i \in known'[h]
          PROVE  i \in 1..Len(posts) /\ (i \in list'[h] \/ posts[i].number > PageSize)
      <3>1. CASE h = g
        BY <2>1, <2>2, <2>5, <3>1 DEF ListsHold
      <3>2. CASE h # g
        BY <2>1, <3>2 DEF ListsHold
      <3>3. QED
        BY <3>1, <3>2
    <2>8. QED
      BY <2>1, <2>6, <2>7 DEF ListsHold
  <1>5. QED
    BY <1>1, <1>2, <1>3, <1>4 DEF CommentsNext, comments

LEMMA CommentsInvariant == CommentsSpec => [](CInv /\ ListsHold)
  <1>1. CommentsInit => CInv /\ ListsHold
    BY CInvInit DEF CommentsInit, ListsHold
  <1>2. CInv /\ ListsHold /\ [CommentsNext]_comments => (CInv /\ ListsHold)'
    BY CInvStep, ReadStep
  <1>3. QED
    BY <1>1, <1>2, PTL DEF CommentsSpec

\* CreateComment and CreateReply: what Discourse stores of a request is under the name
\* of the user who asked, for any number of requests at once.
THEOREM PostsHaveAuthors == CommentsSpec => []PostedAsAuthor
  <1>1. CInv => PostedAsAuthor
    BY DEF CInv, Stored, PostedAsAuthor
  <1>2. QED
    BY <1>1, CommentsInvariant, PTL

\* GetComments: a post that was answered with 201 is among those that a later reading is
\* answered with, unless Discourse failed it or the first page was full.
THEOREM AnswersShown == CommentsSpec => []AnsweredIsShown
  <1>1. ListsHold => AnsweredIsShown
    BY DEF ListsHold, AnsweredIsShown
  <1>2. QED
    BY <1>1, CommentsInvariant, PTL
-----------------------------------------------------------------------------
(* Questions.                                                              *)

\* Hits are pairs of an article and a similarity; the merge keeps some of them.
Pairs == \A h \in seen : h = <<h[1], h[2]>> /\ h[2] \in Scores
Kept  ==
  /\ merged = [a \in DOMAIN merged |-> merged[a]]
  /\ \A a \in DOMAIN merged : merged[a] \in Scores
QInv  == Pairs /\ Kept /\ BestHitKept

LEMMA QuestionsStep == ASSUME QInv, [RagNext]_question PROVE QInv'
  <1> USE DEF QInv, search
  <1>1. CASE Search
    <2>1. PICK sim, hits :
            /\ sim \in [active -> Scores] /\ hits \in Hits(active, sim)
            /\ merged' = Merge(hits, sim)
            /\ seen' = seen \cup {<<a, sim[a]>> : a \in hits}
      BY <1>1 DEF Search
    <2>2. \A a \in hits : sim[a] \in Scores
      BY <2>1 DEF Hits
    <2> DEFINE Better(a) == a \in hits /\ (a \in DOMAIN merged => sim[a] > merged[a])
    <2>3. merged' = [a \in DOMAIN merged \cup hits |-> IF Better(a) THEN sim[a] ELSE merged[a]]
      BY <2>1 DEF Merge
    <2>4. /\ DOMAIN merged' = DOMAIN merged \cup hits
          /\ \A a \in DOMAIN merged \cup hits :
               /\ Better(a) => merged'[a] = sim[a]
               /\ ~Better(a) => merged'[a] = merged[a]
      BY <2>3
    <2>5. \A h \in seen' : h \in seen \/ \E a \in hits : h = <<a, sim[a]>>
      BY <2>1
    <2>6. \A a \in hits : <<a, sim[a]>> \in seen'
      BY <2>1
    <2>7. Pairs'
      BY <2>2, <2>5 DEF Pairs
    <2>8. Kept'
      <3>1. merged' = [a \in DOMAIN merged' |-> merged'[a]]
        BY <2>3
      <3>2. \A a \in DOMAIN merged' : merged'[a] \in Scores
        BY <2>2, <2>4 DEF Kept
      <3>3. QED
        BY <3>1, <3>2 DEF Kept
    <2>9. BestHitKept'
      <3> USE RagAssumption DEF BestHitKept, RagAssumption
      <3>1. DOMAIN merged' = {h[1] : h \in seen'}
        <4>1. \A a \in DOMAIN merged' : \E h \in seen' : h[1] = a
          BY <2>1, <2>4, <2>6
        <4>2. \A h \in seen' : h[1] \in DOMAIN merged'
          BY <2>4, <2>5
        <4>3. QED
          BY <4>1, <4>2
      <3>2. ASSUME NEW h \in seen' PROVE <<h[1], merged'[h[1]]>> \in seen' /\ h[2] <= merged'[h[1]]
        <4> DEFINE a == h[1]
        <4>1. a \in DOMAIN merged'
          BY <3>1
        <4>2. CASE Better(a)
          <5>1. merged'[a] = sim[a] /\ <<a, sim[a]>> \in seen' /\ sim[a] \in Nat
            BY <2>2, <2>4, <2>6, <4>2
          <5>2. CASE h \in seen
            <6>1. a \in DOMAIN merged /\ h[2] <= merged[a] /\ merged[a] \in Nat /\ h[2] \in Nat
              BY <5>2 DEF Kept, Pairs
            <6>2. h[2] <= sim[a]
              BY <4>2, <5>1, <6>1
            <6>3. QED
              BY <5>1, <6>2
          <5>3. CASE h \notin seen
            <6>1. h[2] = sim[a]
              BY <2>5, <5>3
            <6>2. QED
              BY <5>1, <6>1
          <5>4. QED
            BY <5>2, <5>3
        <4>3. CASE ~Better(a)
          <5>1. a \in DOMAIN merged /\ merged'[a] = merged[a] /\ merged[a] \in Nat
            BY <2>4, <4>1, <4>3 DEF Kept
          <5>2. <<a, merged[a]>> \in seen
            BY <5>1
          <5>3. CASE h \in seen
            BY <2>1, <5>1, <5>2, <5>3
          <5>4. CASE h \notin seen
            <6>1. h[2] = sim[a] /\ a \in hits /\ sim[a] \in Nat
              BY <2>2, <2>5, <5>4
            <6>2. h[2] <= merged[a]
              BY <4>3, <5>1, <6>1
            <6>3. QED
              BY <2>1, <5>1, <5>2, <6>2
          <5>5. QED
            BY <5>3, <5>4
        <4>4. QED
          BY <4>2, <4>3
      <3>3. QED
        BY <3>1, <3>2
    <2>10. QED
      BY <2>7, <2>8, <2>9
  <1>2. CASE Ask
    <2>1. seen' = {} /\ DOMAIN merged' = {} /\ merged' = [a \in {} |-> 0]
      BY <1>2 DEF Ask, Nothing
    <2>2. QED
      BY <2>1 DEF Pairs, Kept, BestHitKept
  <1>3. CASE UNCHANGED <<merged, seen>>
    BY <1>3 DEF Pairs, Kept, BestHitKept
  <1>4. QED
    BY <1>1, <1>2, <1>3
    DEF RagNext, question, Switch, Expand, ExpandFallsBack, SearchFails, Begin,
        ReadWhole, ReadCut, ConnectFails, Message, MessageFails, Finish

\* RAGQuestion: the merge keeps each article found by any query once, with the best
\* similarity it was found with, for any number of queries, hits and articles.
THEOREM BestHitsKept == RagSpec => []BestHitKept
  <1>1. RagInit => QInv
    BY DEF RagInit, Nothing, QInv, Pairs, Kept, BestHitKept
  <1>2. QInv /\ [RagNext]_question => QInv'
    BY QuestionsStep
  <1>3. QInv => BestHitKept
    BY DEF QInv
  <1>4. QED
    BY <1>1, <1>2, <1>3, PTL DEF RagSpec
=============================================================================
