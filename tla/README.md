# Verification of blog-server-go

TLA+ models of the blog server (Go, Fiber, GORM on Postgres, Redis, Kafka,
Meilisearch, Discourse), checked with TLC on small instances, and theorems about
each component modelled, checked with TLAPS for every instance. Every definition
stands for lines of the source; `PROJECT.json` ("map") says which.

## 1. The system

| Component | Source | State | Operations | Interacts through |
|---|---|---|---|---|
| Article life cycle | `handlers/article_handler.go`, `handlers/discourse_webhook_handler.go`, `kafka/article_consumer.go` | `article` rows (content, topic, embedding), Redis hash `articleSummary`, topic `ARTICLE_UPDATE_TOPIC` | create, update, webhook, read/type a summary, vectorise, export to Dify, consume | rows and hash shared by handlers and consumer; messages; language model and embedding server |
| Batch pools | `SyncAllToDify`, `VectorizeAllArticles` | semaphore channel, WaitGroup, results channel | one goroutine per article, a closer, a collector | channels |
| Search index | `SyncSQLToMeili`, `SearchArticles` | Meilisearch's index and task queue | sync, ensure, search | tasks that are enqueued and awaited |
| Questions from articles | `handlers/article_rag.go`, `services/llm_service.go` | per-request map of hits, event stream | expand, search, merge, stream | table, model, deadlines |
| Snowflake generator, row ids | `common/snowflake.go`, `common/generate_id.go`, `models/base_model.go` | node: mutex, time, step | Generate, BeforeCreate | mutex, clock |
| Message bus | `kafka/` , wiring in `main.go` | one `kafka.Writer` with a Topic field, broker's topics | ProduceMessage, consumer loops | shared field, broker |
| Presence | `handlers/webSocket_handler.go` | map of clients, its mutex, Redis set `online_users`, sockets | join, echo, broadcast, leave | mutex, Redis commands, sockets |
| Sessions | `handlers/app_user_handler.go`, validator in `main.go` | two Redis hashes, inverse to each other | login, logout, validate | Redis commands |
| Sign-in, registration | same file, `common/discourse_connect.go`, `discourse_app_user_migration.sql` | nonces in Redis, `app_user` rows with three unique indexes | DiscourseLogin, DiscourseCallback, register | statements without a transaction |
| Comments | `handlers/comment_handler.go`, `common/discourse_api.go` | Discourse's posts, an API client per request | read the first page of a topic, comment, reply | HTTP with a timeout |
| Latency tracker, statistics page | `common/latency_tracker.go`, `middleware/latency_middleware.go`, `handlers/stats_handler.go` | window of 1000 latencies and a count, under a lock | record every request, read a page | RWMutex, one critical section per figure |
| View counter | `UpdateArticleViews` in `handlers/article_handler.go` | Redis sorted set per article, column `view_count` | look a mark up, set it, count | Redis commands and an SQL update |
| Site configuration | `handlers/blog_config_handler.go` | Redis hash `blog_config` | save key by key, read | message to the frontend |
| Friend links | `handlers/friend_link_handler.go` | rows of `friend_link` | create, update, read | message to the frontend |
| Tasks, transactions | their handlers and models | one row each | one statement per request | table |
| Responses, access, routing, uploads, start-up | `middleware/`, `routes/`, `common/`, `main.go` | none of their own | formatting, wiring | - |

What is hard: handlers run concurrently and change several stores without a
transaction; calls to the language model take seconds between a read and the
write that depends on it; a message is committed before it is handled; the writer
of the bus, the table of clients and the generators are shared by goroutines;
`log.Fatalf` and panics end the process with everything in flight. `PROJECT.json`
("hazards") lists each place, with the properties that would catch it.

What makes the components correct: derived data (summary, embedding) follows the
text; an edit is not undone; ids are unique and grow; a message reaches its topic
and is handled once at most, and the frontend's pages follow what is stored; the
presence set holds those who are there, and nobody else; a nonce signs in once, a
token names the row of the account that signed in, and stays out once it is logged
out; a sync leaves the index equal to the table; a batch answers once and counts all;
a comment that was accepted is shown, under its author; a question ends; a view is
counted once per visitor and half-hour; a page of statistics agrees with itself. In
several places the code does not keep such a promise in every case. The property then
says precisely in which cases it does, with the exceptions as disjuncts of their own,
and section 6 lists what they come from.

## 2. Modules

All variables of a module are shared state or the program counter and locals of a
goroutine; one action is one access to shared state (a Redis command, an SQL
statement, a field of a shared object, a send). Definitions marked "Mutant:" are
not part of the specifications: each is a plausible bug of the definition after it
and shows that a property can fail.

- **Articles**: rows, summaries and the topic's messages; `Kind[r]` says which
  handler serves request `r`. Contents are versions, so that "derived from the
  current text" is an equation. A message may go astray (`ProduceAstray`): the send
  returns without an error though the message is not in its topic, because the
  writer's Topic was overwritten, as Bus shows, or because the broker lost it.
  Four histories serve the properties only: `lostSum` and `lostEmb` record the
  versions that will never be derived from, because a failure cut the work short, a
  message went astray or a Dify export brought them back; `lateSum` and `lateEmb`
  record the versions over which a request stored what it had made from an earlier
  row: a reader its summary, an administrator a vector.
- **Snowflake** (layout in **SnowflakeId**): several nodes, their callers and the
  clock, refined to **IdSource**, which hands out any id it has not given out.
  The clock does not go back while a process runs: the epoch carries Go's
  monotonic reading. `GenerateID` is the instance in which every call has a node
  of its own and all nodes have number 1.
- **Bus**: `ProduceMessage` stores the topic in the shared writer and the writer
  reads it back, both in two halves: a Go string is a pointer and a length, and
  nothing orders the accesses. A torn name is no topic; the send fails and the
  process ends. The writer leaves `RequiredAcks` at its zero value, RequireNone: a
  broker may lose a message and nobody notices (`SendLost`). Consumers take a
  message, commit, then handle. That kafka-go retries a send of which it knows that it
  failed, and may so write a message twice, is outside the model. Bus has no
  specification of its own: who calls, and what the messages do, is
- **Frontend**, which composes Bus with the handlers that save friend links and the
  site configuration (key by key, in any order), the two consumers that ask the
  Next.js frontend (external) to drop a page, and the visits that rebuild it: the
  frontend reads the API (`RebuildRead`) and stores the page later (`RebuildStore`),
  and anything may come in between. `data[k]` and `cached[k]` are the last call to
  write a datum and the one that its page shows, `draft[v]` what a page being built
  will show; `overtaken` records a page that was stored without the last write. The
  update of a friend link ignores its error and publishes all the same;
  `GetSiteConfig` ignores the error of its read and answers an empty configuration.
- **Presence**: a goroutine per connection, the table's mutex, broadcasts that
  write to each client in turn, the echo that writes without the mutex, and the
  sorted set. Two writers on one socket panic; where the panic occurs decides
  whether the deferred departure still runs. The peers in `Silent` stay and do not
  read: a write to one of them may last for ever. `ghost` counts the decrements and
  removals that never happened, `undercut` records the users whose count may fall
  short, by a failed command or a removal that overtook an arrival.
- **Sessions**: logins and logouts command by command; a failing command is
  ignored, as the code ignores it (`broken` records it). `beside` records the users
  of whom a login ran beside another login or a logout: with several logouts, a
  session may be ended by another's leftovers long after the overlap, so the record
  is kept for the user and not for the request.
- **DiscourseConnect**: nonces, callbacks with their separate statements,
  registrations and local passwords, under the unique indexes. `Register` parses the
  form into the whole row, so that whoever registers may name an external id and
  `is_admin`. `past` keeps the external ids and addresses that a row has had, `writer`
  the callback that wrote it last; an account may give its address up, and another
  take it.
- **Accounts** composes the two: a sign-in that has read its row goes on into
  issueUserToken with the `is_admin` it read. A token is the sign-in that issued
  it, and carries `claims`; `AdminMiddleware` asks the token, never the row.
- **ViewCounter**: the lookup of a mark, the mark and the count as the three commands
  they are, with a clock; a Dify export writes back the count it read.
  **LatencyTracker**: the window, whose methods hold the lock throughout, with the
  average and the percentiles it computes from a sorted copy. **StatsPage** composes
  them: every request is recorded when it is answered, and a page takes its figures one
  by one. The query for the views may fail, and then 0 is shown. The process may end at
  any point of any request and start again, with an empty tracker (`Restart`); `born`
  records the process to which a page belongs.
- **BatchJobs**: the pool, refined to **Batch**: each article gets one outcome,
  then one answer counts them.
- **MeiliSync**: handlers that enqueue tasks and wait for them, and Meilisearch's
  queue (external). A task may fail; the handler gets it back with its status, does
  not look at it, and goes on. `others` and `spoiled` record the syncs that a request
  met and the requests one of whose tasks has failed.
- **Comments**: handlers with an API client each, and Discourse's posts
  (external). A timed-out post may still be stored. `GetComments` asks for the posts
  of a topic without naming them, which Discourse answers with the first page
  (`PageSize`), and answers an empty list when Discourse fails.
- **RagAnswer**: one question at a time (questions share only the table) while
  articles are switched on and off.
- **ArticlesProofs**, **SnowflakeProofs**, **AccountsProofs** (with Sessions and
  DiscourseConnect), **FrontendProofs** (with Bus), **PresenceProofs**,
  **MeiliSyncProofs**, **StatsPageProofs** (with ViewCounter and LatencyTracker),
  **HandlersProofs** (BatchJobs, Comments and RagAnswer): the theorems. **MC...**:
  instances.

Left out of these modules: texts, formats, logging, HTTP status codes; the score of
search keywords, which nothing reads; token encryption and cookies; signatures of
Discourse, taken to be sound.

## 3. Runs

| Run | Instance | Shows |
|---|---|---|
| `articles_mixed` | 2 rows, 1 topic, any 3 of 8 requests (each handler once, two webhooks), all failures, messages gone astray, 1 crash | TypeOK; SummaryFollowsContent and EmbeddingFollowsContent: stale derived data, whoever stored it, is always accounted for; OnlyExportsUndoEdits; EventuallyFresh |
| `articles_dify` | create, update, export | NoLostEdit fails: see 6 |
| `snowflake_ids` | 2 generators, 3 callers with 2 calls, 2 steps a millisecond, clock up to 3 | UniqueIds, IncreasingIds, refinement of IdSource, EveryCallReturns |
| `snowflake_rows` | 2 generators with the same number | UniqueIds fails: see 6 |
| `frontend_pages` | 1 update of a friend link and 2 saves of the site configuration (2 keys), 2 topics, 1 visit at a time; store, broker and frontend fail, the broker also in silence; 1 restart | OnlyOverlapMisroutes and AtMostOnce of the bus; PageFollowsData: a page that is out of date has a reason; EventuallyFollows |
| `presence_races` | 3 connections of 2 visitors, the peer of one talks and does not read, failing Redis, 1 restart | WritesStayInside, NoGhost, ConnectedIsShown, HungUpIsClosed |
| `accounts_signin` | 2 nonces, 2 callbacks and 1 local login, 4 profiles of 2 accounts (one gives up its address and its rights, the other has that address or none), 2 registrations (one names the other account's external id, the address and `is_admin`), 1 logout; a command may fail | NonceOnce, TokenNamesOwner, NoTakeover, AdminFollowsRow, LogoutFindsSession, LoggedOutStaysOut, LogoutEndsOwnSession |
| `batchjobs_pool` | 4 articles, 2 places | NoSendAfterClose, refinement of Batch with its liveness; TypeOK ties the semaphore to its holders |
| `meilisync_syncs` | 2 articles of 2 versions, 2 syncs, 1 search, failing calls and tasks | SyncedAlone, LastSyncKept, SearchFindsIndex |
| `comments_posts` | 3 requests, 1 reading, 2 users, 2 topics, room for 2 comments on a first page | AnsweredIsShown |
| `raganswer_merge` | 3 articles, 2 hits a query, 2 queries, 2 similarities, 2 chunks | BestHitKept, AnswerEnds |
| `statspage_overview` | 3 visits of one address and 1 of another, 1 Dify export, 2 pages, a window of 3 latencies; 1 command fails, 1 restart | OnlyOverlapCountsTwice, SkippedHasCause, OnlyExportsLoseViews, WindowIsLatest, QuantilesRight, PagesAgree |

Why the bounds are enough for what they are for: the races of these components are
between two handlers, or a handler and the consumer, over one object; every instance has
a third party besides, so that one race may hide or repair another. The step of the
generator wraps with 2 steps a millisecond as it does with 4096, and 4 articles queue
for 2 places as 100 do for 5. A window of 3 slides within the requests of the instance.
In `statspage_overview` the set `Mixes` names which requests are served together: three
visits, two visits with a page or with the export, and both pages with a visit and the
export. `MaxServed`, `MaxCrashes`, `MaxRestarts`, `MaxLives`, `MaxClock`, `MaxCalls`,
`MaxVersion`, `MaxQueries`, `MaxChunks`, `MaxBroken` (users hit by a failing Redis
command), `MaxTime`, `MaxFailures` and `MaxPages` bound what the code does not; past
`MaxClock` time passes only for a caller that waits for it. `frontend_pages` has no
creation of a friend link: it is like an update whose error is not ignored, and the code
is otherwise the same. One visit at a time is enough there to read before a save and
store after the drop; with two, the second could only repair or repeat what the first
has left. With one logout in `accounts_signin`, what two of them leave for each other is
left to the proofs, which hold for any number. With three posts on a topic, the third
does not fit on a page of three that holds the article's own. Symmetry is used where
only invariants and action properties are checked. Deadlock is not checked where every
request of a finite set is served once and the instance then stops; RagAnswer never
stops, and checks it.

Fairness. *Articles*: requests that have written a row come to publish it, one after
the other, and the consumer goes on (each of its calls has a timeout); nothing is
asked of arrivals. *Snowflake*: the clock ticks, goroutines are scheduled, and Go's mutex
goes to a waiter that starves (strong fairness of Lock). *Frontend*: calls that
have begun go on, and so do consumers, each as a group: there are finitely many calls,
and each comes to its end. HTTP clients have timeouts; nobody has to visit a page, the
frontend need not store what it has read, and nothing makes an ended process start
again. *Presence*: strong fairness of each goroutine, since Go's mutex goes to a
waiter that starves, but not of a write to a peer in `Silent` that has not hung up: the
code sets no write deadline, so that such a write may last for ever with the mutex held.
HungUpIsClosed therefore promises the end of every departure unless a broadcast is
stuck in such a write (`Stuck`), and without that exception TLC finds it violated.
*BatchJobs*: goroutines are scheduled; the semaphore is a
channel, which serves its waiters in order. *RagAnswer*: the handler goes on and
its deadlines pass; the model and the embedding server need never answer, the
database and the browser do.

## 4. Proofs

Checked by TLAPS for every value of the constants that satisfies the named assumptions:
`ArticlesAssumption`; `LayoutAssumption` and `NodeAssumption`; `DiscourseAssumption`,
`SessionsAssumption` and `AccountsAssumption`; `BusAssumption` and `FrontendAssumption`;
`PresenceAssumption`; `MeiliAssumption`; `ViewAssumption`, `TrackerAssumption` and
`StatsAssumption`; `BatchAssumption`, `CommentsAssumption` and `RagAssumption`. They say
that sets of requests are disjoint, that bounds are numbers, and that what is counted or
summed (articles, requests, topics) is finite. TLC evaluates each of them on the
instance of its run, and checks each inductive invariant there before it is proved.

**ArticlesProofs.** `TypeCorrect`: types, by one step per action. `Freshness`:
SummaryFollowsContent and EmbeddingFollowsContent, for any number of rows,
requests, failures, messages gone astray and crashes, and whoever stored the value:
one that is not of the current text has a message or a handler at work that accounts
for it, a loss recorded for that text, or a late store of what was made from an earlier
row. The two are not inductive:
when the consumer stores what it derived from an old version, the newer version must
already have been announced. StaleReadAnnounced says so, and the conjunction
`Fresh` is inductive together with TypeOK. The argument: an announcement is only
withdrawn by the consumer taking it, by a crash or by a message that goes astray
(`AnnouncedKept`); a new version comes with an announcement (`FreshEdit`), or is
recorded as lost when the webhook cannot re-read its row (`FreshLose`), its message
goes astray (`FreshAstray`) or an export brought it back (`FreshExport`); a crash
records what it cuts short (`FreshCrash`). `EditsUndoneByExports`: an
older text comes back into a row only by `DifySave`, since every other step keeps
the texts or writes a version that is larger than all before (`ContentStep`).
`EditsStay`: hence without exports no edit is undone. `EmbeddingsFollow` states the
half of Freshness that is about embeddings.

**SnowflakeProofs.** `TypeCorrect`, `IdsIncreasing`, `IdsUnique`,
`ImplementsSource`. That ids grow is not inductive; the invariant is
`TypeOK /\ MutexHeld /\ NextAbove /\ IncreasingIds`: the holder of the mutex is
the one caller inside Generate, and what it is about to return is above all that
its node has returned, also while it waits for the clock with the step already
reset. Lemmas about `Pack` reduce the rest to arithmetic: ids with a later time
are larger whatever the steps, and ids of different nodes differ. Uniqueness over
nodes and the refinement assume `NumbersApart`, the condition that GenerateID
does not meet.

**AccountsProofs.** `OneSignInPerNonce`: a nonce that a callback has got past with
has been begun and is no longer in Redis (`NonceTaken`), so that no other gets past
with it. `TokensNameOwners` and `LinksKept` hold whatever addresses accounts hand on
and whatever external ids registrations choose. The statements of
upsertDiscourseUser are separate, and what each may rely on is `Traced`: a row has had
the links it has, a callback is about to write a row that has had its external id or
its address, and a row it has written carries its account's id until another callback
writes it (Register only adds rows). One lemma for each way the table changes (not at
all, a new row, a written row) shows that Traced is kept and that rows move by links
they have had (`RowsMove`). For the sessions, the token stored under a user is of a
sign-in of that user (`StoredByOwner`, `ClaimsOwn`).

`SessionsCanEnd` and `LogoutsLast` rest on `Tokens`: an entry of either hash is its own
login's and written in its turn (`ReverseOwn`, `StoredOwn`), a login or logout only
knows tokens that have been given out (`OldOwn`, `PresentedOwn`), and a logout that is
about to forget its token has ended it, or leaves it to a login that replaces it
(`Forgetting`). `LogoutsEndTheirOwn` needs more of users whom no overlap and no failure
has touched: their logins run by themselves (`Alone`); a reverse entry is that of the
token in force, or of one that a logout is about to forget (`Inverses`); a login finds
the hashes as the one before it left them (`Writing`), and a logout that has found its
token finds it in force, or nothing (`Dropping`). `RightsFollowRow`: a sign-in that has
read its row carries the row's `is_admin` as long as nobody has written the row beside
it (`FlagFresh`), the token says what the sign-in carries (`Carried`), and rights in a
row change by a callback's update alone (`RightsMove`), which makes the user one of
Settling until that callback has stored its own token.

**FrontendProofs.** `HandledOnce`: what has reached a topic comes from a call that is
over (`SentIsOver`), so it is sent once, and committed before it is handled.
When the process ends, whatever was at work is over (`FatalEnds`).
`OverlapsOnly`: in `Beside`, calls inside ProduceMessage know of each other's
topics, a half that a call has stored holds a topic asked for beside it - its own or
a later one - and so does what it reads. `PagesFollow`: every reason for which a page
may be out of date lasts until the message is handled in its topic (`ExcuseStep`,
with Beside for the topic a message is sent to, `ExitExcuses` for the end of the
process), and the page is dropped then; a page otherwise changes to what is stored, or
is marked as stored without the last write (`DataStep`).

**PresenceProofs.** `BroadcastsInside` from `Held`, `Casting` and `Echoing`: the mutex
is held by the broadcast at work and by nobody else, its remaining clients are in the
table, and whoever writes without it echoes on its own connection. `NobodyStaysOnline`
is a matter of counting: a score is at most the number of connections that count plus
the losses (`Bounded`), so that an entry whose connections are gone is not above zero;
and a score not above zero is that of a user who is not in the set, or somebody is at
work to remove it, or a loss accounts for it (`Removed`). A decrement moves a
connection out of the count and keeps the balance (`CountKept`, `CountLess`, from the
theorems on finite sets). `VisitorsShown` counts from the other side: the score of a
user whom nothing has undercut is at least the number of connections that count, so
that a decrement that leaves a connection behind does not go on to remove the entry
(`Covered`, with `Tabled`, which ties the place of a connection to the table).

**MeiliSyncProofs.** `LastSyncWins`: a deletion in the queue is of a sync that still
waits for it, or failed (`DeletionsWaited`); so after the deletion that took effect
last, no other takes the documents away, and what its sync read is in the index or in
the add it waits for, unless a task of its own failed (`LastKept`). Whose texts these
are is `Sources`: since that deletion, only syncs beside or after its own have added
documents, each what it had read. `SyncsAlone` and `SearchesFindIndex`: for a request
that is undisturbed - no other sync ran beside it, none of its tasks failed -
`SyncPlace` and `SearchPlace` say, for each place of the handler,
what Meilisearch's queue may still hold beside the task it waits for. Leftovers of
failed syncs are in front of its own deletion; behind it the tasks are harmless, since
only a running sync enqueues deletions and documents. The queue is handled by two lemmas
(`QueueGrows`, `QueueShrinks`) instead of an induction over it.

**StatsPageProofs.** `SkipsExplained`: every mark, and every mark a visit has looked up,
was set by a visit that is past its lookup (`Caused`, `FoundCaused`). `CountedTwice`: a
mark is replaced by an older one only by a visit that ran beside the one that set it,
since requests that follow each other have times in order (`Timed`); so the mark in
force, and what a later visit looks up, is not older than that of some visit beside
(`Followed`, `Noticed`). `ViewsKept`: a count lies between the counted visits and those
of them that no export wrote over, and so does what an export has read (`Between`), with
cardinalities of sets of visits. A restart cuts visits off, which `failed` records, and
begins an empty window (`RestartEffect`, `LatestBegins`). `WindowsSlide`: dropping the
first and appending one keeps the last places of what was recorded (`LastPlaces`,
`WindowSlides`), for a window of any size.

`QuantilesHold` and `PagesConsistent` need induction over data. The library's
induction theorems take an operator as a parameter, which no installed prover can
instantiate, so the proofs use induction over a *set* of naturals (`Least`,
`Induction`), derived from the well-foundedness of the order on them. With it, a fold
over a sequence or a sum over a finite set exists, is unique (`FoldExists`,
`FoldsAgree`) and has the value it should (`SumStep`, `SumBounds`), and every window
can be put in order by insertion (`OrderExists`), so that `Sorted` is an ordered
permutation of it (`SortedIs`). QuantilesRight, for the percentiles that the page shows,
then counts: the places up to a
percentile's map one to one to places of the window that are no larger, those after
it to places no smaller (`Ranks`), and the place computed from the percentage is the
one with that many on each side (`PlaceFits`). Hence percentiles of one window rise
(`PercentilesRise`), and the average, from `SumBounds`, lies between two latencies.
For pages the invariant says that the percentiles shown are those of the current
window while no request has been recorded since the first was read in the same process
(`FiguresFit`); that the views of a page whose own query did not fail fall short of an
earlier one's by no more than exports undid (`ViewsGoOn`: the sum a page reads lies
between the visits counted and those of them no export wrote over, `SumOfCounts`, by
induction over the set of articles), across restarts as well; and that totals are of
requests recorded before in the same process, while a page's own comes after (`Lives`,
`Filled`, `TotalsRise`).

**HandlersProofs.** `PlacesHeld`, `ClosedAfterSends`, `StepsOfBatch`. The invariant adds
to TypeOK that the WaitGroup counts the goroutines that run (`WaitCounts`), who waits
for whom (`Order`), and that a goroutine past its call has sent exactly one result
(`SentOnce`). When the closer sees zero, no goroutine runs, and since it was started
after the last of them, all are done. The answer's counts are cardinalities of sets of
results; `Counting` maps them one to one to articles. The liveness half of
ImplementsBatch stays with TLC. *Comments*: `PostsHaveAuthors` and `AnswersShown`.
Discourse only appends posts, and every topic there is has a first one (`Opened`), so
that nothing stored for a request is the post that GetComments leaves out, and what had
been answered when a reading was answered is in its list or beyond the first page
(`ListsHold`); a request has a client of its own, which carries its user's name until
the post is stored (`Named`), also when the answer timed out; what was answered is
stored (`Stored`). *Questions*: `BestHitsKept`. What has been seen are pairs of an
article and a similarity (`Pairs`), the merge is a function into similarities (`Kept`),
and a search that puts a hit in place of another only ever raises it.

Every invariant and action property of the passing runs is thus stated by a theorem,
and PostedAsAuthor besides, which every handler keeps by making a client of its own.
Only model-checked is liveness, and everything that needs ENABLED, which the provers
cannot do: EventuallyFresh, EveryCallReturns, EventuallyFollows, HungUpIsClosed,
AnswerEnds and the liveness half of ImplementsBatch. NoLostEdit and UniqueIds of row
ids do not hold, see 6.

## 5. Not modelled

- Tasks and financial transactions: each request is one statement on one row, with
  no second actor and no state kept between requests.
- Responses, errors, logging, routes: the envelope of answers and tables of routes,
  no state.
- Start-up, configuration and the schedule: wiring, and a cron job that prints a
  line. That a process ends and another starts is an action of Articles, Frontend
  and Presence.
- Uploads and the client address: input and output only.
- The text encodings of snowflake ids, which nothing uses; the format of the
  statistics and of comments; the figures of the page that are read from the runtime,
  from Redis' INFO and from the connection pool; lists and filters of articles, which
  change nothing.

## 6. Where the code disagrees with what it says

Shown by a run:

- `articles_dify`: `SyncToDify` (`handlers/article_handler.go:624`) says "update the
  synchronisation status" and saves every column of the row it read before a call
  of seconds: an edit made meanwhile is gone. `SyncAllToDify` does the same.
- `snowflake_rows`: `GenerateID` (`common/generate_id.go:9`) makes a node for every
  id; two rows created in one millisecond get the same id, though Generate
  "creates and returns a unique snowflake ID" (`common/snowflake.go:116`).

Visible in the models, without a run of their own:

- Of two overlapping calls of `ProduceMessage` (`kafka/producer.go:39`), one
  message may go to the other's topic, or the process end (Bus).
- The writer is made without `RequiredAcks` (`kafka/producer.go:23`): a message that
  the broker loses is not noticed, and what it announced is never done (Bus, SendLost;
  Articles, ProduceAstray).
- A reader that finds no summary stores, seconds later, that of the row it had read
  (`handlers/article_handler.go:385`), and VectorizeArticle a vector of it
  (`handlers/article_handler.go:893`): over an edit made meanwhile they stay until the
  next one (Articles, `lateSum`, `lateEmb`).
- `GetSiteConfig` ignores the error of `HGetAll` and answers an empty configuration
  (`handlers/blog_config_handler.go:19`), of which the frontend may make a page
  (Frontend, Answers); `getBasicStats` ignores that of its query and shows 0 views
  (`handlers/stats_handler.go:112`; StatsPage, Read).
- A departure reads a score of 0 and removes the visitor; another tab of the
  visitor that joined in between is not counted (`handlers/webSocket_handler.go:36`),
  and a process that ends leaves its visitors online (Presence). No write to a socket
  has a deadline: a peer that does not read holds up every broadcast and departure.
- `Register` stores the external id and `is_admin` that its form names
  (`handlers/app_user_handler.go:336`), and the lookup by address takes a row that is
  linked to another account (`handlers/app_user_handler.go:290`): rows change accounts
  when an address does (DiscourseConnect, `past`).
- `SyncSQLToMeili` discards the task that it waited for, with its status
  (`handlers/article_handler.go:292`): a sync whose documents were not added is
  answered as a success (MeiliSync, Spoils).
- `GetTopicPosts`, which by its comment gets all posts of the topic but the first
  ("获取主题的所有帖子", `common/discourse_api.go:79`), gets those of the
  first page of them: later comments of a long topic are not shown (Comments).
- `CreateReply` sends a post's id where Discourse expects its number in the topic,
  as its own comment says (`handlers/comment_handler.go:155`), and no topic
  (Comments).
- A Dify export brings back the view count it read, too (ViewCounter,
  ExportSave).
- The update of a friend link ignores its error and answers 201
  (`handlers/friend_link_handler.go:46`, UpdateIgnored). It passes a struct to
  `Updates`, which skips zero values: a link cannot be switched off nor a field
  cleared. Tasks and transactions are updated the same way.
- `SendRequest` of the consumers does not look at the HTTP status: a frontend that
  refuses is taken for one that has dropped its page. In the model a frontend that
  refuses is one that does not answer (Frontend, HandleFails).
- `main.go` calls `app.Listen`, which blocks, before it waits for signals:
  ShutdownServices is not reached, and a process ends as it does in a crash.
- The logging transport drops the error of reading a response
  (`services/llm_service.go:31`): an answer that was cut off ends with the event
  `done` (RagAnswer, ReadCut).

## 7. Plan

Modelled next: duplicate rows from concurrent webhooks of a new topic, as a property
of Articles once the repository says what the lists do with them.
