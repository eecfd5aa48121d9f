----------------------------- MODULE StatsPage -----------------------------
(***************************************************************************)
(* The statistics page (GetOverview of handlers/stats_handler.go) beside   *)
(* what it reports on: the view counter and the latency tracker, in which  *)
(* LatencyMiddleware records every request once its handler has answered.  *)
(* A page takes its readings one after the other; visits are counted,      *)
(* exports saved and requests recorded between any two of them.  The       *)
(* tracker lives in the process: it is empty again when the process,       *)
(* which log.Fatalf ends at any point of a request, has been restarted.    *)
(***************************************************************************)
EXTENDS ViewCounter, LatencyTracker, Functions

CONSTANTS
  Pages,      \* requests served by GetOverview
  MaxPages,   \* bound: pages in progress at one time
  MaxLives,   \* bound: restarts of the process
  LatencyOf   \* LatencyOf[r]: how long request r takes

ASSUME StatsAssumption ==
  /\ Pages \subseteq Requests \ (Visits \cup Exports)
  /\ MaxPages \in Nat /\ MaxLives \in Nat
  /\ \A r \in Requests : LatencyOf[r] \in Nat

VARIABLES
  page,   \* page[r]: what page r has read so far
  since,  \* since[r]: requests recorded when it read its first percentile (history)
  life,   \* how often the process has been restarted
  born    \* born[r]: the life in which page r began (history)

pages == <<page, since, life, born>>
vars  == <<counter, tracker, pages>>

\* The order in which GetOverview reads: getBasicStats, getRequestStats.  (No
\* property compares what getPerformanceInfo reads, GetAverage, with the rest.)
Shows == [views |-> 1, p50 |-> 2, p95 |-> 3, p99 |-> 4, total |-> 5]
Reading(k) ==
  CASE k = Shows.views -> SumFunction(views)
    [] k = Shows.p50   -> GetPercentile(50)
    [] k = Shows.p95   -> GetPercentile(95)
    [] k = Shows.p99   -> GetPercentile(99)
    [] k = Shows.total -> total

Init ==
  /\ CounterInit /\ TrackerInit
  /\ page = [r \in Requests |-> <<>>]
  /\ since = [r \in Requests |-> 0]
  /\ life = 0 /\ born = [r \in Requests |-> 0]

\* The error of the query for the views is ignored, and leaves 0.
Read(r) ==
  LET k == Len(page[r]) + 1 IN
  /\ \E ok \in IF k = Shows.views THEN Outcomes ELSE {TRUE} :
       /\ page' = [page EXCEPT ![r] = Append(@, IF ok THEN Reading(k) ELSE 0)]
       /\ Noted(ok, r)
  /\ since' = IF k = Shows.p50 THEN [since EXCEPT ![r] = total] ELSE since
  /\ Goto(r, IF k = Shows.total THEN "answer" ELSE "page")

PageBegins(r) ==
  /\ r \in Pages /\ Cardinality({p \in Pages : pc[p] \in {"page", "answer"}}) < MaxPages
  /\ Begins(r) /\ Read(r)
  /\ born' = [born EXCEPT ![r] = life]
  /\ UNCHANGED <<clock, views, mark, visit, counted, skipped, wiped, seen, tracker, life>>

PageReads(r) ==
  /\ pc[r] = "page" /\ Read(r)
  /\ UNCHANGED <<clock, views, mark, visit, counted, skipped, wiped, before, seen, tracker, life, born>>

\* Mutant: the page's route is set up before the middleware.
AnswerPageUnseen(r) ==
  /\ pc[r] = "answer"
  /\ IF r \in Pages THEN UNCHANGED tracker ELSE Record(LatencyOf[r])
  /\ Goto(r, "done")
  /\ UNCHANGED <<clock, views, mark, visit, fates, before, seen, pages>>

\* LatencyMiddleware, after the handler; then the answer goes out.
Answer(r) ==
  /\ pc[r] = "answer"
  /\ Record(LatencyOf[r])
  /\ Goto(r, "done")
  /\ UNCHANGED <<clock, views, mark, visit, fates, before, seen, pages>>

\* The process ends, and starts again with a tracker of its own.  The requests under
\* way are over; those that were not about to answer have been cut off.
Restart ==
  /\ life < MaxLives
  /\ life' = life + 1
  /\ pc' = [r \in Requests |-> IF pc[r] = "start" THEN "start" ELSE "done"]
  /\ failed' = failed \cup {r \in Requests : pc[r] \notin {"start", "answer", "done"}}
  /\ latencies' = <<>> /\ total' = 0 /\ recorded' = <<>>
  /\ UNCHANGED <<clock, views, mark, visit, counted, skipped, wiped, before, seen, page, since, born>>

Count(r) == Visit(r) \/ Export(r) \/ Arrive(r)

Next ==
  \/ Tick /\ UNCHANGED <<tracker, pages>>
  \/ Restart
  \/ \E r \in Requests :
       /\ pc[r] # "done"
       /\ \/ Count(r) /\ UNCHANGED <<tracker, pages>>
          \/ PageBegins(r) \/ PageReads(r) \/ Answer(r)

Spec == Init /\ [][Next]_vars
-----------------------------------------------------------------------------
Complete == {r \in Pages : Len(page[r]) = Shows.total}

\* GetOverview: what a page shows agrees with itself and with earlier pages.  Its
\* percentiles rise, unless a request was recorded between their critical sections.
\* And a page asked for after another was over does not go back: unless its own
\* query failed it shows the other's views, save those that an export has undone,
\* whatever restarts came between; and the other's own request, in the same process.
PagesAgree ==
  \A q \in Complete :
    /\ page[q][Shows.total] = since[q]
         => page[q][Shows.p50] <= page[q][Shows.p95] /\ page[q][Shows.p95] <= page[q][Shows.p99]
    /\ \A p \in Complete \cap before[q] :
         /\ born[p] = born[q] => page[q][Shows.total] > page[p][Shows.total]
         /\ q \notin failed =>
              page[q][Shows.views] + Cardinality(wiped) >= page[p][Shows.views]
=============================================================================
