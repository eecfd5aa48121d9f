-------------------------------- MODULE Bus --------------------------------
(***************************************************************************)
(* The message bus: HTTP handlers publish through one kafka.Writer whose   *)
(* Topic field each of them sets first (kafka/producer.go), and one        *)
(* goroutine per topic reads and handles messages (kafka/consumer.go).     *)
(*                                                                         *)
(* Nothing orders the assignment of the field and its readings.  A Go      *)
(* string is two words, pointer and length, written and read separately:   *)
(* the names of the topics differ in length, so a pointer of one with the  *)
(* length of another is no topic at all.                                   *)
(*                                                                         *)
(* Who publishes, and what the handlers of the topics do, is module        *)
(* Frontend.                                                               *)
(***************************************************************************)
EXTENDS Naturals, FiniteSets

CONSTANTS
  Topics,      \* the topics of topicHandlers, one consumer each
  NoTopic,     \* the Topic field of a new writer
  Calls,       \* calls of ProduceMessage
  TopicOf,     \* TopicOf[c]: its argument topic
  Nothing,     \* an idle consumer's message
  Faults,      \* subset of {"broker"}
  MaxRestarts  \* bound: process exits survived

Halves == {"ptr", "len"}
Unread == "unread"
NotRead == [h \in Halves |-> Unread]

ASSUME BusAssumption ==
  /\ NoTopic \notin Topics
  /\ Unread \notin Topics /\ Unread # NoTopic
  /\ TopicOf \in [Calls -> Topics]
  /\ Nothing \notin Calls
  /\ MaxRestarts \in Nat

VARIABLES
  field,     \* field[h]: half h of writer.Topic
  pc,        \* pc[c]: where the handler that makes call c is
  stored,    \* stored[c]: halves c has assigned (none once it is over)
  seen,      \* seen[c]: halves c has read back (none once it is over)
  queue,     \* queue[t]: messages in topic t (order across partitions is open)
  current,   \* current[t]: message the handler of t works on
  handled,   \* handled[t]: messages the handler of t has finished with
  up,        \* the process runs
  restarts,
  asked      \* asked[c]: topics of c and of the calls that ran beside it (history)

writer == <<field, stored, seen>>
broker == <<queue, current, handled>>
bus    == <<writer, pc, broker, up, restarts, asked>>

\* Calls inside ProduceMessage; calls that the process is occupied with.
Active == {c \in Calls : pc[c] \in {"store", "load", "send"}}
AtWork == {c \in Calls : pc[c] \notin {"idle", "done"}} \cup ({current[t] : t \in Topics} \ {Nothing})

\* The process ends, and with it the writer, the consumers and the calls in progress.
Exit ==
  /\ up' = FALSE
  /\ field' = [h \in Halves |-> NoTopic]
  /\ pc' = [c \in Calls |-> IF pc[c] = "idle" THEN "idle" ELSE "done"]
  /\ stored' = [c \in Calls |-> {}]
  /\ seen' = [c \in Calls |-> NotRead]
  /\ current' = [t \in Topics |-> Nothing]
  /\ UNCHANGED <<queue, handled, restarts, asked>>

BusInit ==
  /\ field = [h \in Halves |-> NoTopic]
  /\ pc = [c \in Calls |-> "idle"]
  /\ stored = [c \in Calls |-> {}]
  /\ seen = [c \in Calls |-> NotRead]
  /\ queue = [t \in Topics |-> {}]
  /\ current = [t \in Topics |-> Nothing]
  /\ handled = [t \in Topics |-> {}]
  /\ up = TRUE
  /\ restarts = 0
  /\ asked = [c \in Calls |-> {}]
-----------------------------------------------------------------------------
(* ProduceMessage.                                                         *)

Enter(c) ==
  /\ up /\ pc[c] \in {"idle", "save"}
  /\ pc' = [pc EXCEPT ![c] = "store"]
  /\ asked' = [d \in Calls |-> IF d = c THEN {TopicOf[e] : e \in Active \cup {c}}
                               ELSE IF d \in Active THEN asked[d] \cup {TopicOf[c]}
                               ELSE asked[d]]
  /\ UNCHANGED <<writer, broker, up, restarts>>

\* Mutant: the topic is assigned only when the field is empty.
StoreOnce(c, h) ==
  /\ up /\ pc[c] = "store" /\ h \notin stored[c]
  /\ field' = IF field[h] = NoTopic THEN [field EXCEPT ![h] = TopicOf[c]] ELSE field
  /\ stored' = [stored EXCEPT ![c] = @ \cup {h}]
  /\ pc' = [pc EXCEPT ![c] = IF stored'[c] = Halves THEN "load" ELSE "store"]
  /\ UNCHANGED <<seen, broker, up, restarts, asked>>

\* p.writer.Topic = topic, one half at a time.
Store(c, h) ==
  /\ up /\ pc[c] = "store" /\ h \notin stored[c]
  /\ field' = [field EXCEPT ![h] = TopicOf[c]]
  /\ stored' = [stored EXCEPT ![c] = @ \cup {h}]
  /\ pc' = [pc EXCEPT ![c] = IF stored'[c] = Halves THEN "load" ELSE "store"]
  /\ UNCHANGED <<seen, broker, up, restarts, asked>>

\* WriteMessages reads the field to choose the topic of the message.
Load(c, h) ==
  /\ up /\ pc[c] = "load" /\ seen[c][h] = Unread
  /\ seen' = [seen EXCEPT ![c][h] = field[h]]
  /\ pc' = [pc EXCEPT ![c] = IF \E g \in Halves : seen'[c][g] = Unread THEN "load" ELSE "send"]
  /\ UNCHANGED <<field, stored, broker, up, restarts, asked>>

Chosen(c) == seen[c]["ptr"]
Torn(c)   == seen[c]["ptr"] # seen[c]["len"]

Send(c) ==
  /\ up /\ pc[c] = "send" /\ ~Torn(c)
  /\ queue' = [queue EXCEPT ![Chosen(c)] = @ \cup {c}]
  /\ pc' = [pc EXCEPT ![c] = "done"]
  /\ stored' = [stored EXCEPT ![c] = {}]
  /\ seen' = [seen EXCEPT ![c] = NotRead]
  /\ UNCHANGED <<field, current, handled, up, restarts, asked>>

\* The writer asks for no acknowledgement (RequiredAcks is left at RequireNone): a
\* broker that rejects or loses the message is not noticed, the send has succeeded.
SendLost(c) ==
  /\ up /\ pc[c] = "send" /\ ~Torn(c) /\ "broker" \in Faults
  /\ pc' = [pc EXCEPT ![c] = "done"]
  /\ stored' = [stored EXCEPT ![c] = {}]
  /\ seen' = [seen EXCEPT ![c] = NotRead]
  /\ UNCHANGED <<field, broker, up, restarts, asked>>

\* The topic does not exist, or the broker fails: log.Fatalf ends the process.
SendFatal(c) ==
  /\ up /\ pc[c] = "send"
  /\ Torn(c) \/ "broker" \in Faults
  /\ Exit
-----------------------------------------------------------------------------
(* Consumer.Start: read, commit, handle, one message at a time.            *)

\* Mutant: the offset is committed after the handler, not before.
ReceiveUncommitted(t) ==
  /\ up /\ current[t] = Nothing
  /\ \E c \in queue[t] : current' = [current EXCEPT ![t] = c]
  /\ UNCHANGED <<writer, pc, queue, handled, up, restarts, asked>>

\* Mutant: the loop is left after its first message.
ReceiveOnce(t) ==
  /\ up /\ current[t] = Nothing /\ handled[t] = {}
  /\ \E c \in queue[t] :
        /\ current' = [current EXCEPT ![t] = c]
        /\ queue' = [queue EXCEPT ![t] = @ \ {c}]
  /\ UNCHANGED <<writer, pc, handled, up, restarts, asked>>

Receive(t) ==
  /\ up /\ current[t] = Nothing
  /\ \E c \in queue[t] :
        /\ current' = [current EXCEPT ![t] = c]
        /\ queue' = [queue EXCEPT ![t] = @ \ {c}]
  /\ UNCHANGED <<writer, pc, handled, up, restarts, asked>>

\* FriendHandler, RevalidateHandler or ArticleHandler has done its work, or has
\* printed why it could not: the loop goes on either way.
Handle(t) ==
  /\ up /\ current[t] # Nothing
  /\ handled' = [handled EXCEPT ![t] = @ \cup {current[t]}]
  /\ current' = [current EXCEPT ![t] = Nothing]
  /\ UNCHANGED <<writer, pc, queue, up, restarts, asked>>

\* ReadMessage fails: log.Fatalf.
ReadFatal(t) ==
  /\ up /\ current[t] = Nothing /\ "broker" \in Faults
  /\ Exit

\* A new process, with a new writer and idle consumers.
Restart ==
  /\ ~up /\ restarts < MaxRestarts
  /\ up' = TRUE
  /\ restarts' = restarts + 1
  /\ UNCHANGED <<writer, pc, broker, asked>>
-----------------------------------------------------------------------------
At(t) == queue[t] \cup handled[t] \cup ({current[t]} \ {Nothing})

\* Although the field is shared, what a call reads from it was asked for by itself
\* or by a call that ran at the same time, never by an earlier one: only overlapping
\* calls for different topics can misroute a message or end the process.
OnlyOverlapMisroutes ==
  /\ \A t \in Topics : \A c \in At(t) : t \in asked[c]
  /\ \A c \in Calls : pc[c] = "send" => \A h \in Halves : seen[c][h] \in asked[c]

\* ReadMessage commits first: no message is handled twice, by one consumer or by
\* two, whatever exits and restarts come in between.
AtMostOnce ==
  \A c \in Calls :
    /\ \A t, u \in Topics : c \in At(t) /\ c \in At(u) => t = u
    /\ \A t \in Topics : c \in queue[t] => c \notin handled[t] /\ current[t] # c
=============================================================================
