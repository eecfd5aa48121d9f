---------------------------- MODULE ViewCounter ----------------------------
(***************************************************************************)
(* Counting the views of an article (UpdateArticleViews of                 *)
(* handlers/article_handler.go).  A visit of an address is counted unless  *)
(* the Redis sorted set of the article holds a mark of that address that   *)
(* is younger than half an hour.  Looking the mark up, setting it and      *)
(* counting are three commands, to two servers, and nothing joins them.    *)
(*                                                                         *)
(* SyncToDify reads a whole row, calls Dify and saves the whole row: the   *)
(* view count it read comes back.                                          *)
(***************************************************************************)
EXTENDS Naturals, FiniteSets

CONSTANTS
  Articles,
  Addresses,   \* addresses of visitors
  Requests,    \* HTTP requests, each served once
  Visits,      \* those served by UpdateArticleViews
  Exports,     \* those served by SyncToDify
  ArticleOf,   \* ArticleOf[r]: the article a visit or an export is about
  AddressOf,   \* AddressOf[v]: the address a visit comes from
  Window,      \* half an hour
  Mixes,       \* bound: sets of requests that are served together
  MaxTime,     \* bound: ticks of the clock
  MaxFailures  \* bound: requests that a failure of Redis or the database may hit

ASSUME ViewAssumption ==
  /\ Visits \subseteq Requests /\ Exports \subseteq Requests
  /\ Visits \cap Exports = {}
  /\ IsFiniteSet(Articles) /\ IsFiniteSet(Requests)
  /\ \A r \in Visits \cup Exports : ArticleOf[r] \in Articles
  /\ \A v \in Visits : AddressOf[v] \in Addresses
  /\ Window \in Nat \ {0} /\ MaxTime \in Nat /\ Mixes \subseteq SUBSET Requests
  /\ MaxFailures \in Nat

VARIABLES
  clock,     \* starts at Window: what has no mark has score 0, which is too old
  views,     \* views[a]: column view_count
  mark,      \* mark[a][v]: score of v in article_views:a
  pc,        \* pc[r]: next step of request r
  shown,     \* shown[r]: the count that export r read
  found,     \* found[r]: the score a visit found
  stamp,     \* stamp[r]: time of its lookup, then of the mark it sets
  counted,   \* visits counted (history)
  skipped,   \* visits that a mark kept from counting (history)
  failed,    \* requests one of whose commands failed, or that were cut off (history)
  wiped,     \* visits counted while an export was about to save (history)
  before,    \* before[r]: requests that were over when r began (history)
  seen       \* seen[r]: visits counted when export r read the row (history)

visit  == <<shown, found, stamp>>
fates  == <<counted, skipped, failed, wiped>>
counter == <<clock, views, mark, pc, visit, fates, before, seen>>

Goto(r, p) == pc' = [pc EXCEPT ![r] = p]
Begins(r)  == /\ pc[r] = "start"
              /\ \E m \in Mixes : {q \in Requests : pc[q] # "start"} \cup {r} \subseteq m
              /\ before' = [before EXCEPT ![r] = {q \in Requests : pc[q] = "done"}]

CounterInit ==
  /\ clock = Window
  /\ views = [a \in Articles |-> 0]
  /\ mark = [a \in Articles |-> [v \in Addresses |-> 0]]
  /\ pc = [r \in Requests |-> "start"]
  /\ shown = [r \in Requests |-> 0]
  /\ found = [r \in Requests |-> 0]
  /\ stamp = [r \in Requests |-> 0]
  /\ counted = {} /\ skipped = {} /\ failed = {} /\ wiped = {}
  /\ before = [r \in Requests |-> {}]
  /\ seen = [r \in Requests |-> {}]

CanFail  == Cardinality(failed) < MaxFailures
Outcomes == IF CanFail THEN BOOLEAN ELSE {TRUE}
Mark(r) == mark[ArticleOf[r]][AddressOf[r]]
Noted(ok, r) == failed' = IF ok THEN failed ELSE failed \cup {r}

Tick ==
  /\ clock < Window + MaxTime
  /\ clock' = clock + 1
  /\ UNCHANGED <<views, mark, pc, visit, fates, before, seen>>
-----------------------------------------------------------------------------
(* UpdateArticleViews.                                                     *)

\* The row is read for the answer, the mark for the decision: ZScore, whose error
\* reads as no mark.
VisitLook(r) ==
  /\ r \in Visits /\ Begins(r)
  /\ \E ok \in Outcomes :
        /\ found' = [found EXCEPT ![r] = IF ok THEN Mark(r) ELSE 0]
        /\ Noted(ok, r)
  /\ stamp' = [stamp EXCEPT ![r] = clock]
  /\ Goto(r, "mark")
  /\ UNCHANGED <<clock, views, mark, shown, counted, skipped, wiped, seen>>

\* Mutant: a visit that is not counted renews the mark.
VisitSkipRenews(r) ==
  /\ pc[r] = "mark" /\ found[r] + Window > stamp[r]
  /\ mark' = [mark EXCEPT ![ArticleOf[r]][AddressOf[r]] = clock]
  /\ skipped' = skipped \cup {r}
  /\ Goto(r, "answer")
  /\ UNCHANGED <<clock, views, visit, counted, failed, wiped, before, seen>>

\* The mark is younger than the window at some time since the lookup.
VisitSkip(r) ==
  /\ pc[r] = "mark" /\ found[r] + Window > stamp[r]
  /\ skipped' = skipped \cup {r}
  /\ Goto(r, "answer")
  /\ UNCHANGED <<clock, views, mark, visit, counted, failed, wiped, before, seen>>

\* Mutant: the mark is set only when there is none.
VisitMarkOnce(r) ==
  /\ pc[r] = "mark"
  /\ \E now \in stamp[r]..clock :
        /\ found[r] + Window <= now
        /\ stamp' = [stamp EXCEPT ![r] = now]
        /\ mark' = IF found[r] = 0 THEN [mark EXCEPT ![ArticleOf[r]][AddressOf[r]] = now] ELSE mark
  /\ Goto(r, "count")
  /\ UNCHANGED <<clock, views, shown, found, fates, before, seen>>

\* It is not: ZAdd, whose error is ignored.  The time was taken at any moment
\* between the lookup and the command.
VisitMark(r) ==
  /\ pc[r] = "mark"
  /\ \E now \in stamp[r]..clock, ok \in Outcomes :
        /\ found[r] + Window <= now
        /\ stamp' = [stamp EXCEPT ![r] = now]
        /\ mark' = IF ok THEN [mark EXCEPT ![ArticleOf[r]][AddressOf[r]] = now] ELSE mark
        /\ Noted(ok, r)
  /\ Goto(r, "count")
  /\ UNCHANGED <<clock, views, shown, found, counted, skipped, wiped, before, seen>>

\* UPDATE article SET view_count = view_count + 1.
VisitCount(r) ==
  /\ pc[r] = "count"
  /\ views' = [views EXCEPT ![ArticleOf[r]] = @ + 1]
  /\ counted' = counted \cup {r}
  /\ Goto(r, "answer")
  /\ UNCHANGED <<clock, mark, visit, skipped, failed, wiped, before, seen>>

\* The handler answers 500; the mark stays.
VisitCountFails(r) ==
  /\ pc[r] = "count" /\ CanFail
  /\ Goto(r, "answer")
  /\ failed' = failed \cup {r}
  /\ UNCHANGED <<clock, views, mark, visit, counted, skipped, wiped, before, seen>>
-----------------------------------------------------------------------------
(* SyncToDify, as far as the view count goes.                              *)

\* A lookup of a row that is not there answers 404, and is not modelled.
ExportTake(r) ==
  /\ r \in Exports /\ Begins(r)
  /\ shown' = [shown EXCEPT ![r] = views[ArticleOf[r]]]
  /\ seen' = [seen EXCEPT ![r] = counted]
  /\ Goto(r, "save")
  /\ UNCHANGED <<clock, views, mark, found, stamp, fates>>

\* Visits of its article counted since export r read the row.
Overrun(r) == {v \in counted \ seen[r] : ArticleOf[v] = ArticleOf[r]}

\* Mutant: the row was read without its count, and is saved with none.
ExportSaveNone(r) ==
  /\ pc[r] = "save"
  /\ views' = [views EXCEPT ![ArticleOf[r]] = 0]
  /\ wiped' = wiped \cup Overrun(r)
  /\ Goto(r, "answer")
  /\ UNCHANGED <<clock, mark, visit, counted, skipped, failed, before, seen>>

\* Dify has taken the article: all columns of the row are written.
ExportSave(r) ==
  /\ pc[r] = "save"
  /\ views' = [views EXCEPT ![ArticleOf[r]] = shown[r]]
  /\ wiped' = wiped \cup Overrun(r)
  /\ Goto(r, "answer")
  /\ UNCHANGED <<clock, mark, visit, counted, skipped, failed, before, seen>>

\* Dify does not answer, or refuses, or the row cannot be written.
ExportFails(r) ==
  /\ pc[r] = "save"
  /\ Goto(r, "answer")
  /\ UNCHANGED <<clock, views, mark, visit, fates, before, seen>>

Visit(r)  == VisitSkip(r) \/ VisitMark(r) \/ VisitCount(r) \/ VisitCountFails(r)
Export(r) == ExportSave(r) \/ ExportFails(r)
Arrive(r) == VisitLook(r) \/ ExportTake(r)
-----------------------------------------------------------------------------
SameVisitor(r) == {v \in Visits : ArticleOf[v] = ArticleOf[r] /\ AddressOf[v] = AddressOf[r]}
Overlap(r, v)  == r \notin before[v] /\ v \notin before[r]

\* UpdateArticleViews: two visits of one address that follow each other within the
\* window are both counted only if a command of one of them failed, or if a third
\* one ran beside the first and set an older mark over its mark.
OnlyOverlapCountsTwice ==
  \A r, v \in counted :
    (v \in SameVisitor(r) /\ v \in before[r] /\ {r, v} \cap failed = {})
      => \E u \in SameVisitor(r) : Overlap(u, v) /\ stamp[u] + Window <= stamp[r]

\* A visitor who keeps coming is counted once per window: a visit is skipped only
\* within a window of one that passed the lookup, and that one is counted, about
\* to be counted, or has answered with an error or been cut off.
SkippedHasCause ==
  \A r \in skipped : \E v \in SameVisitor(r) \ {r} :
    /\ stamp[v] + Window > stamp[r]
    /\ v \in counted \cup failed \/ pc[v] = "count"

CountedAt(a) == {r \in counted : ArticleOf[r] = a}

\* The views of an article are the visits counted, and nothing but an export that
\* read the row before a visit and saved it after takes that visit back.
OnlyExportsLoseViews ==
  \A a \in Articles :
    /\ views[a] <= Cardinality(CountedAt(a))
    /\ views[a] >= Cardinality(CountedAt(a) \ wiped)
=============================================================================
