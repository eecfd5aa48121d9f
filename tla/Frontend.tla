------------------------------ MODULE Frontend ------------------------------
(***************************************************************************)
(* The pages of the Next.js frontend and the data they show.               *)
(* SaveFriendLink (handlers/friend_link_handler.go) writes a row and       *)
(* SaveSiteConfig (handlers/blog_config_handler.go) a Redis hash, key by   *)
(* key; both then publish on the bus, whose consumers ask the frontend to  *)
(* drop the page.  When somebody visits a dropped page the frontend reads  *)
(* the API and, later, stores the page that it has built from the answer.  *)
(***************************************************************************)
EXTENDS Bus

CONSTANTS
  FriendTopic, RevalidateTopic,
  Links, Keys,                \* rows of friend_link, keys of blog_config
  Creates, Updates, Configs,  \* calls by SaveFriendLink without and with an id, by SaveSiteConfig
  WritesOf,                   \* WritesOf[c]: the row, or the keys, that c's handler writes
  Initially,                  \* the version of what nobody has written; of a key, none
  Dropped,                    \* shown by a page that the frontend has dropped
  Visits                      \* pages that the frontend may be building at a time

Friends == Creates \cup Updates
Data    == Links \cup Keys

ASSUME FrontendAssumption ==
  /\ {FriendTopic, RevalidateTopic} \subseteq Topics /\ FriendTopic # RevalidateTopic
  /\ Links \cap Keys = {} /\ Creates \cap Updates = {} /\ Friends \cap Configs = {}
  /\ Friends \cup Configs = Calls
  /\ \A c \in Friends : TopicOf[c] = FriendTopic /\ \E l \in Links : WritesOf[c] = {l}
  /\ \A c \in Configs : TopicOf[c] = RevalidateTopic /\ WritesOf[c] \subseteq Keys
  /\ Initially \notin Calls /\ Dropped \notin Calls \cup {Initially}

VARIABLES
  data,     \* data[k]: the call whose handler wrote k last
  todo,     \* todo[c]: what the handler of c has still to write
  cached,   \* cached[k]: the version of k that the frontend's page shows
  lost,     \* calls that have failed, or ended with the process, or whose message
            \* was lost or handled without effect (history)
  draft,    \* draft[v]: what the page being built for visit v will show of each datum,
            \* Dropped for those of other pages
  overtaken \* data whose page was stored without the last write of the datum: it was
            \* built before, or from a reading that had failed (history)

pages == <<cached, draft, overtaken>>
vars  == <<bus, data, todo, pages, lost>>

Blank == [k \in Data |-> Dropped]   \* no page is being built

Init ==
  /\ BusInit
  /\ data = [k \in Data |-> Initially]
  /\ todo = WritesOf
  /\ cached = [k \in Data |-> Initially]
  /\ lost = {}
  /\ draft = [v \in Visits |-> Blank]
  /\ overtaken = {}
-----------------------------------------------------------------------------
(* The handlers, before they publish.                                      *)

Saving(c) == up /\ pc[c] \in {"idle", "save"} /\ todo[c] # {}
Goto(c, p) == pc' = [pc EXCEPT ![c] = p]
SaveStep(c, k) ==
  /\ todo' = [todo EXCEPT ![c] = @ \ {k}]
  /\ Goto(c, "save")
  /\ UNCHANGED <<writer, broker, up, restarts, asked, cached, draft, lost>>

\* Insert or update of a friend link, HSet of a key: in whatever order the map of
\* the configuration is ranged over.
Save(c, k) ==
  /\ Saving(c) /\ k \in todo[c]
  /\ data' = [data EXCEPT ![k] = c]
  /\ overtaken' = overtaken \ {k}
  /\ SaveStep(c, k)

\* The error of the update is ignored: the handler goes on to publish.
UpdateIgnored(c, k) ==
  /\ c \in Updates /\ "store" \in Faults
  /\ Saving(c) /\ k \in todo[c]
  /\ SaveStep(c, k)
  /\ UNCHANGED <<data, overtaken>>

\* The insert or a HSet fails, or the row to update is not found: the handler
\* answers with an error; what it has written stays, and nothing is published.
SaveFails(c) ==
  /\ Saving(c) /\ "store" \in Faults
  /\ Goto(c, "done")
  /\ lost' = lost \cup {c}
  /\ UNCHANGED <<writer, broker, up, restarts, asked, data, todo, pages>>

\* All is written: ProduceMessage.
Publish(c) ==
  /\ todo[c] = {} /\ Enter(c)
  /\ UNCHANGED <<data, todo, pages, lost>>

Produce(c) ==
  /\ \/ /\ Send(c) \/ \E h \in Halves : Store(c, h) \/ Load(c, h)
        /\ UNCHANGED lost
     \/ SendLost(c) /\ lost' = lost \cup {c}
     \/ SendFatal(c) /\ lost' = lost \cup AtWork
  /\ UNCHANGED <<data, todo, pages>>
-----------------------------------------------------------------------------
(* The consumers, and the frontend.                                        *)

\* Mutant: every handler drops the page that the message names.
DropsNamed(t, c) == IF c \in Configs THEN Keys ELSE {}

\* What the handler of topic t makes the frontend drop for the message of call c:
\* RevalidateHandler does nothing unless the message names a path.
Drops(t, c) ==
  CASE t = FriendTopic -> Links
    [] t = RevalidateTopic -> IF c \in Configs THEN Keys ELSE {}
    [] OTHER -> {}

Consume(t) ==
  /\ Receive(t)
  /\ UNCHANGED <<data, todo, pages, lost>>

HandleMessage(t) ==
  /\ Handle(t)
  /\ cached' = [k \in Data |-> IF k \in Drops(t, current[t]) THEN Dropped ELSE cached[k]]
  /\ overtaken' = overtaken \ Drops(t, current[t])
  /\ UNCHANGED <<data, todo, draft, lost>>

\* The frontend does not answer within the timeout: printed, and forgotten.
HandleFails(t) ==
  /\ "frontend" \in Faults
  /\ Handle(t)
  /\ lost' = lost \cup {current[t]}
  /\ UNCHANGED <<data, todo, pages>>

\* What the process was doing is gone, with the messages it had committed.
ReadFails(t) ==
  /\ ReadFatal(t)
  /\ lost' = lost \cup AtWork
  /\ UNCHANGED <<data, todo, pages>>

Reboot == Restart /\ UNCHANGED <<data, todo, pages, lost>>

\* What GetFriendLinks or GetSiteConfig answers.  GetSiteConfig ignores the error of
\* HGetAll and answers as if there were nothing; GetFriendLinks answers an error, of
\* which no page is made.
Answers(page) ==
  {data} \cup IF page = Keys /\ "store" \in Faults THEN {[k \in Data |-> Initially]} ELSE {}

\* They are asked for a page that was dropped.
RebuildRead(v, page) ==
  /\ up /\ draft[v] = Blank /\ \E k \in page : cached[k] = Dropped
  /\ \E answer \in Answers(page) :
       draft' = [draft EXCEPT ![v] = [k \in Data |-> IF k \in page THEN answer[k] ELSE Dropped]]
  /\ UNCHANGED <<bus, data, todo, cached, overtaken, lost>>

\* The page is stored, whatever has been written or dropped since it was read.
RebuildStore(v) ==
  /\ draft[v] # Blank
  /\ cached' = [k \in Data |-> IF draft[v][k] # Dropped THEN draft[v][k] ELSE cached[k]]
  /\ overtaken' = {k \in Data : IF draft[v][k] # Dropped THEN draft[v][k] # data[k]
                                                        ELSE k \in overtaken}
  /\ draft' = [draft EXCEPT ![v] = Blank]
  /\ UNCHANGED <<bus, data, todo, lost>>

Work(c) == Publish(c) \/ Produce(c) \/ \E k \in Data : Save(c, k) \/ UpdateIgnored(c, k)
Deliver(t) == Consume(t) \/ HandleMessage(t) \/ HandleFails(t)

Next ==
  \/ \E c \in Calls : pc[c] # "done" /\ (Work(c) \/ SaveFails(c))
  \/ \E t \in Topics : Deliver(t) \/ ReadFails(t)
  \/ \E v \in Visits : RebuildStore(v) \/ \E page \in {Links, Keys} : RebuildRead(v, page)
  \/ Reboot

Spec == Init /\ [][Next]_vars

\* Goroutines are scheduled and every HTTP client has a timeout: of a finite number of
\* calls no more is needed than that those begun, and the consumers, go on one after
\* the other.  Nothing makes a visitor come, nor the frontend store a page.
FairSpec ==
  /\ Spec
  /\ WF_vars(\E c \in Calls : pc[c] # "idle" /\ Work(c))
  /\ WF_vars(\E t \in Topics : Deliver(t))
-----------------------------------------------------------------------------
Misrouted(c) == \E t \in Topics \ {TopicOf[c]} : c \in At(t)
Stale(k)     == cached[k] \notin {data[k], Dropped}

\* SaveSiteConfig, SaveFriendLink: a page shows what is stored, unless the last to
\* write has still to publish, or its message is on its way, or that call failed,
\* was cut short or was misrouted by another that ran at the same time, or the page
\* was stored by a visit that had read the datum before, or had failed to read it.
PageFollowsData ==
  \A k \in Data : Stale(k) => LET c == data[k] IN
    \/ pc[c] # "done"
    \/ c \in queue[TopicOf[c]] \/ current[TopicOf[c]] = c
    \/ c \in lost \/ Misrouted(c) \/ k \in overtaken

\* While the process runs, the page of a datum comes to follow it, unless the last to
\* write it has failed or been misrouted or a page built without it was stored.
EventuallyFollows ==
  \A k \in Data :
    []<>(Stale(k) => \/ ~up \/ data[k] \in lost \/ Misrouted(data[k])
                     \/ k \in overtaken)
=============================================================================
