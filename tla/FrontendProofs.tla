--------------------------- MODULE FrontendProofs ---------------------------
(* Proofs about Frontend and the bus below it, for any number of calls,     *)
(* topics, rows, keys, failures and restarts.                               *)
EXTENDS Frontend, TLAPS

Names  == Topics \cup {NoTopic}
Stages == {"idle", "save", "store", "load", "send", "done"}

\* Types of the bus; what has reached a topic comes from a call that is over.
BusTypes ==
  /\ field \in [Halves -> Names]
  /\ pc \in [Calls -> Stages]
  /\ stored \in [Calls -> SUBSET Halves]
  /\ seen \in [Calls -> [Halves -> Names \cup {Unread}]]
  /\ queue \in [Topics -> SUBSET Calls]
  /\ current \in [Topics -> Calls \cup {Nothing}]
  /\ handled \in [Topics -> SUBSET Calls]
  /\ up \in BOOLEAN
  /\ asked \in [Calls -> SUBSET Topics]
SentIsOver == \A t \in Topics : \A c \in At(t) : pc[c] = "done"

USE BusAssumption DEF BusAssumption, writer, broker, bus, Goto, NotRead

\* The steps of the bus, one by one.
BusStep ==
  \/ \E c \in Calls : \/ Enter(c) \/ Send(c) \/ SendLost(c) \/ SendFatal(c)
                      \/ \E h \in Halves : Store(c, h) \/ Load(c, h)
  \/ \E t \in Topics : Receive(t) \/ Handle(t) \/ ReadFatal(t)
  \/ Restart
\* Steps of the handlers before they publish.
Works(c) ==
  /\ pc[c] \in {"idle", "save"} /\ \E p \in {"save", "done"} : pc' = [pc EXCEPT ![c] = p]
  /\ UNCHANGED <<writer, broker, up, restarts, asked>>

LEMMA StepOfBus ==
  [Next]_vars => BusStep \/ (\E c \in Calls : Works(c)) \/ UNCHANGED bus
  <1>1. ASSUME NEW c \in Calls, Work(c) \/ SaveFails(c)
        PROVE  BusStep \/ Works(c)
    <2>1. ASSUME NEW k \in Data, Save(c, k) \/ UpdateIgnored(c, k) PROVE Works(c)
      BY <2>1 DEF Save, UpdateIgnored, Saving, SaveStep, Works
    <2>2. CASE SaveFails(c)
      BY <2>2 DEF SaveFails, Saving, Works
    <2>3. CASE Publish(c)
      BY <2>3 DEF Publish, BusStep
    <2>4. CASE Produce(c)
      BY <2>4 DEF Produce, BusStep
    <2>5. QED
      BY <1>1, <2>1, <2>2, <2>3, <2>4 DEF Work
  <1>2. ASSUME NEW t \in Topics, Deliver(t) \/ ReadFails(t) PROVE BusStep
    BY <1>2 DEF Deliver, Consume, HandleMessage, HandleFails, ReadFails, BusStep
  <1>3. Reboot => BusStep
    BY DEF Reboot, BusStep
  <1>4. ASSUME NEW v, NEW page, RebuildRead(v, page) \/ RebuildStore(v) PROVE UNCHANGED bus
    BY <1>4 DEF RebuildRead, RebuildStore
  <1>5. QED
    BY <1>1, <1>2, <1>3, <1>4 DEF Next, vars

LEMMA FatalEnds ==
  /\ \A c \in Calls : SendFatal(c) => Exit
  /\ \A t \in Topics : ReadFatal(t) => Exit
  BY DEF SendFatal, ReadFatal

LEMMA TypesStep == BusTypes /\ SentIsOver /\ [Next]_vars => (BusTypes /\ SentIsOver)'
  <1> SUFFICES ASSUME BusTypes, SentIsOver, [Next]_vars PROVE (BusTypes /\ SentIsOver)'
    OBVIOUS
  <1> USE DEF BusTypes, SentIsOver, At, Stages, Names
  <1>1. CASE UNCHANGED bus
    BY <1>1
  <1>2. ASSUME NEW c \in Calls, Works(c) PROVE (BusTypes /\ SentIsOver)'
    BY <1>2 DEF Works
  <1>3. ASSUME NEW c \in Calls, Enter(c) PROVE (BusTypes /\ SentIsOver)'
    <2>1. asked' \in [Calls -> SUBSET Topics]
      BY <1>3 DEF Enter, Active
    <2>2. QED
      BY <1>3, <2>1 DEF Enter
  <1>4. ASSUME NEW c \in Calls, NEW h \in Halves, Store(c, h) PROVE (BusTypes /\ SentIsOver)'
    BY <1>4 DEF Store
  <1>5. ASSUME NEW c \in Calls, NEW h \in Halves, Load(c, h) PROVE (BusTypes /\ SentIsOver)'
    <2>1. seen' \in [Calls -> [Halves -> Names \cup {Unread}]]
      BY <1>5 DEF Load
    <2>2. QED
      BY <1>5, <2>1 DEF Load
  <1>6. ASSUME NEW c \in Calls, Send(c) PROVE (BusTypes /\ SentIsOver)'
    <2>1. /\ seen' \in [Calls -> [Halves -> Names \cup {Unread}]]
          /\ stored' \in [Calls -> SUBSET Halves]
          /\ pc' \in [Calls -> Stages]
      BY <1>6 DEF Send
    <2>2. /\ queue' \in [Topics -> SUBSET Calls]
          /\ \A t \in Topics : queue'[t] \subseteq queue[t] \cup {c}
      BY <1>6 DEF Send
    <2>3. UNCHANGED <<field, current, handled, up, asked>>
      BY <1>6 DEF Send
    <2>4. \A d \in Calls : pc'[d] = IF d = c THEN "done" ELSE pc[d]
      BY <1>6 DEF Send
    <2>5. SentIsOver'
      BY <2>2, <2>3, <2>4
    <2>6. QED
      BY <2>1, <2>2, <2>3, <2>5
  <1>7. ASSUME NEW c \in Calls, SendLost(c) PROVE (BusTypes /\ SentIsOver)'
    <2>1. /\ seen' \in [Calls -> [Halves -> Names \cup {Unread}]]
          /\ stored' \in [Calls -> SUBSET Halves]
          /\ pc' \in [Calls -> Stages]
      BY <1>7 DEF SendLost
    <2>2. \A d \in Calls : pc'[d] = IF d = c THEN "done" ELSE pc[d]
      BY <1>7 DEF SendLost
    <2>3. QED
      BY <1>7, <2>1, <2>2 DEF SendLost
  <1>8. ASSUME NEW t \in Topics, Receive(t) PROVE (BusTypes /\ SentIsOver)'
    BY <1>8 DEF Receive
  <1>9. ASSUME NEW t \in Topics, Handle(t) PROVE (BusTypes /\ SentIsOver)'
    BY <1>9 DEF Handle
  <1>10. CASE Exit
    BY <1>10 DEF Exit
  <1>11. CASE Restart
    BY <1>11 DEF Restart
  <1>12. QED
    BY FatalEnds, <1>1, <1>2, <1>3, <1>4, <1>5, <1>6, <1>7, <1>8, <1>9, <1>10, <1>11, StepOfBus DEF BusStep

LEMMA OnceStep == BusTypes /\ SentIsOver /\ AtMostOnce /\ [Next]_vars => AtMostOnce'
  <1> SUFFICES ASSUME BusTypes, SentIsOver, AtMostOnce, [Next]_vars PROVE AtMostOnce'
    OBVIOUS
  <1> USE DEF BusTypes, SentIsOver, At, AtMostOnce
  <1>1. CASE UNCHANGED <<queue, current, handled>>
    BY <1>1
  <1>2. ASSUME NEW c \in Calls, Send(c) PROVE AtMostOnce'
    <2>1. \A t \in Topics : c \notin At(t)
      BY <1>2 DEF Send
    <2>2. QED
      BY <1>2, <2>1 DEF Send
  <1>3. ASSUME NEW t \in Topics, Receive(t) PROVE AtMostOnce'
    BY <1>3 DEF Receive
  <1>4. ASSUME NEW t \in Topics, Handle(t) PROVE AtMostOnce'
    BY <1>4 DEF Handle
  <1>5. CASE Exit
    BY <1>5 DEF Exit
  <1>6. QED
    <2>1. ASSUME NEW c \in Calls, Works(c) \/ Enter(c) \/ SendLost(c) PROVE AtMostOnce'
      BY <1>1, <2>1 DEF Works, Enter, SendLost
    <2>2. ASSUME NEW c \in Calls, NEW h \in Halves, Store(c, h) \/ Load(c, h) PROVE AtMostOnce'
      BY <1>1, <2>2 DEF Store, Load
    <2>3. Restart => AtMostOnce'
      BY <1>1 DEF Restart
    <2>4. QED
      BY FatalEnds, <1>1, <1>2, <1>3, <1>4, <1>5, <2>1, <2>2, <2>3, StepOfBus DEF BusStep

(* What a call reads from the field was asked for beside it.               *)

Beside ==
  /\ \A c, d \in Active : TopicOf[d] \in asked[c]
  /\ \A c \in Calls : pc[c] \in {"load", "send"} => stored[c] = Halves
  /\ \A c \in Active : \A h \in stored[c] : field[h] \in asked[c]
  /\ \A c \in Active : \A h \in Halves : seen[c][h] # Unread => seen[c][h] \in asked[c]
  /\ \A c \in Calls : pc[c] = "send" => \A h \in Halves : seen[c][h] # Unread
  /\ \A c \in Calls \ Active : stored[c] = {} /\ seen[c] = NotRead
  /\ \A t \in Topics : \A c \in At(t) : t \in asked[c]

LEMMA BesideMisroutes == Beside => OnlyOverlapMisroutes
  BY DEF Beside, OnlyOverlapMisroutes, Active

LEMMA BesideStep == BusTypes /\ SentIsOver /\ Beside /\ [Next]_vars => Beside'
  <1> SUFFICES ASSUME BusTypes, SentIsOver, Beside, [Next]_vars PROVE Beside'
    OBVIOUS
  <1> USE DEF BusTypes, Beside, Active
  <1>1. CASE UNCHANGED <<field, stored, seen, pc, queue, current, handled, asked>>
    BY <1>1 DEF At
  <1>2. ASSUME NEW c \in Calls, Works(c) PROVE Beside'
    BY <1>2 DEF Works, At
  <1>3. ASSUME NEW c \in Calls, Enter(c) PROVE Beside'
    <2>1. /\ pc[c] \in {"idle", "save"}
          /\ \A d \in Calls : pc'[d] = IF d = c THEN "store" ELSE pc[d]
          /\ UNCHANGED <<field, stored, seen, queue, current, handled>>
      BY <1>3 DEF Enter
    <2>2. \A d \in Calls : asked'[d] = IF d = c THEN {TopicOf[e] : e \in Active \cup {c}}
                                       ELSE IF d \in Active THEN asked[d] \cup {TopicOf[c]}
                                       ELSE asked[d]
      BY <1>3 DEF Enter
    <2>3. Active' = Active \cup {c} /\ c \notin Active
      BY <2>1
    <2>4. \A d, e \in Active' : TopicOf[e] \in asked'[d]
      <3>1. \A e \in Active \cup {c} : TopicOf[e] \in asked'[c]
        <4>1. asked'[c] = {TopicOf[e] : e \in Active \cup {c}}
          BY <2>2
        <4>2. QED
          BY <4>1
      <3>2. ASSUME NEW d \in Active, NEW e \in Active \cup {c} PROVE TopicOf[e] \in asked'[d]
        <4>1. asked'[d] = asked[d] \cup {TopicOf[c]}
          BY <2>2, <2>3
        <4>2. QED
          BY <4>1
      <3>3. QED
        BY <2>3, <3>1, <3>2
    <2>5. \A d \in Calls : d # c => asked[d] \subseteq asked'[d]
      BY <2>2
    <2>6. \A t \in Topics : \A d \in At(t) : t \in asked'[d]
      BY <2>1, <2>5 DEF SentIsOver, At
    <2>7. stored[c] = {} /\ seen[c] = NotRead
      BY <2>3
    <2>8. QED
      <3>1. \A d \in Active' : \A h \in stored'[d] : field'[h] \in asked'[d]
        BY <2>1, <2>3, <2>5, <2>7
      <3>2. \A d \in Active' : \A h \in Halves : seen'[d][h] # Unread => seen'[d][h] \in asked'[d]
        BY <2>1, <2>3, <2>5, <2>7
      <3>3. \A d \in Calls : /\ pc'[d] \in {"load", "send"} => stored'[d] = Halves
                             /\ pc'[d] = "send" => \A h \in Halves : seen'[d][h] # Unread
        BY <2>1
      <3>4. \A d \in Calls \ Active' : stored'[d] = {} /\ seen'[d] = NotRead
        BY <2>1, <2>3
      <3>5. (\A t \in Topics : \A d \in At(t) : t \in asked[d])'
        BY <2>1, <2>6 DEF At
      <3>6. QED
        BY <2>4, <3>1, <3>2, <3>3, <3>4, <3>5
  <1>4. ASSUME NEW c \in Calls, NEW h \in Halves, Store(c, h) PROVE Beside'
    <2>1. Active' = Active /\ c \in Active
      BY <1>4 DEF Store
    <2>2. \A d \in Active : TopicOf[c] \in asked[d]
      BY <2>1
    <2>3. UNCHANGED <<seen, queue, current, handled, asked>>
      BY <1>4 DEF Store
    <2>4. \A g \in Halves : field'[g] = IF g = h THEN TopicOf[c] ELSE field[g]
      BY <1>4 DEF Store
    <2>5. \A d \in Calls : stored'[d] = IF d = c THEN stored[c] \cup {h} ELSE stored[d]
      BY <1>4 DEF Store
    <2>6. \A d \in Calls : /\ pc'[d] = "load" => stored'[d] = Halves
                           /\ pc'[d] = "send" => pc[d] = "send" /\ d # c
      BY <1>4 DEF Store
    <2>7. QED
      <3>1. \A d \in Active : \A g \in stored'[d] : field'[g] \in asked[d]
        BY <2>1, <2>2, <2>4, <2>5
      <3>2. \A d \in Calls : pc'[d] \in {"load", "send"} => stored'[d] = Halves
        BY <2>5, <2>6
      <3>3. \A d \in Calls : pc'[d] = "send" => \A g \in Halves : seen'[d][g] # Unread
        BY <2>3, <2>6
      <3>4. \A d \in Calls \ Active' : stored'[d] = {} /\ seen'[d] = NotRead
        BY <2>1, <2>3, <2>5
      <3>5. \A d \in Active' : \A g \in Halves : seen'[d][g] # Unread => seen'[d][g] \in asked'[d]
        BY <2>1, <2>3
      <3>6. (\A t \in Topics : \A d \in At(t) : t \in asked[d])'
        BY <2>3 DEF At
      <3>7. \A d, e \in Active' : TopicOf[e] \in asked'[d]
        BY <2>1, <2>3
      <3>8. \A d \in Active' : \A g \in stored'[d] : field'[g] \in asked'[d]
        BY <2>1, <2>3, <3>1
      <3> HIDE DEF Active
      <3>9. QED
        BY <3>2, <3>3, <3>4, <3>5, <3>6, <3>7, <3>8
  <1>5. ASSUME NEW c \in Calls, NEW h \in Halves, Load(c, h) PROVE Beside'
    <2>1. Active' = Active /\ c \in Active /\ pc[c] = "load"
      BY <1>5 DEF Load
    <2>2. field[h] \in asked[c]
      BY <2>1
    <2>3. UNCHANGED <<field, stored, queue, current, handled, asked>>
      BY <1>5 DEF Load
    <2>4. \A d \in Calls : \A g \in Halves :
            seen'[d][g] = IF d = c /\ g = h THEN field[h] ELSE seen[d][g]
      BY <1>5 DEF Load
    <2>5. \A d \in Calls : d # c => seen'[d] = seen[d] /\ pc'[d] = pc[d]
      BY <1>5 DEF Load
    <2>6. /\ pc'[c] \in {"load", "send"}
          /\ pc'[c] = "send" => \A g \in Halves : seen'[c][g] # Unread
      BY <1>5 DEF Load
    <2>7. QED
      <3>1. \A d \in Active : \A g \in Halves : seen'[d][g] # Unread => seen'[d][g] \in asked[d]
        BY <2>1, <2>2, <2>4
      <3>2. \A d \in Calls : /\ pc'[d] \in {"load", "send"} => stored[d] = Halves
                             /\ pc'[d] = "send" => \A g \in Halves : seen'[d][g] # Unread
        BY <2>1, <2>5, <2>6
      <3>3. \A d \in Calls \ Active : seen'[d] = NotRead
        BY <2>1, <2>5
      <3>4. \A d \in Calls \ Active' : stored'[d] = {} /\ seen'[d] = NotRead
        BY <2>1, <2>3, <3>3
      <3>5. \A d \in Active' : \A g \in stored'[d] : field'[g] \in asked'[d]
        BY <2>1, <2>3
      <3>6. (\A t \in Topics : \A d \in At(t) : t \in asked[d])'
        BY <2>3 DEF At
      <3>7. \A d, e \in Active' : TopicOf[e] \in asked'[d]
        BY <2>1, <2>3
      <3>8. \A d \in Active' : \A g \in Halves : seen'[d][g] # Unread => seen'[d][g] \in asked'[d]
        BY <2>1, <2>3, <3>1
      <3>9. \A d \in Calls : /\ pc'[d] \in {"load", "send"} => stored'[d] = Halves
                             /\ pc'[d] = "send" => \A g \in Halves : seen'[d][g] # Unread
        BY <2>3, <3>2
      <3> HIDE DEF Active
      <3>10. QED
        BY <3>4, <3>5, <3>6, <3>7, <3>8, <3>9
  <1>6. ASSUME NEW c \in Calls, Send(c) PROVE Beside'
    <2>1. Active' = Active \ {c} /\ c \in Active /\ pc[c] = "send"
      BY <1>6 DEF Send
    <2>2. UNCHANGED <<field, current, handled, asked>>
      BY <1>6 DEF Send
    <2>3. \A d \in Calls : /\ stored'[d] = IF d = c THEN {} ELSE stored[d]
                           /\ seen'[d] = IF d = c THEN NotRead ELSE seen[d]
                           /\ pc'[d] = IF d = c THEN "done" ELSE pc[d]
      BY <1>6 DEF Send
    <2>4. Chosen(c) \in asked[c]
      BY <2>1 DEF Chosen, Halves
    <2>5. \A t \in Topics : queue'[t] = IF t = Chosen(c) THEN queue[t] \cup {c} ELSE queue[t]
      BY <1>6 DEF Send
    <2>6. (\A t \in Topics : \A d \in At(t) : t \in asked[d])'
      <3>1. \A t \in Topics : At(t)' = IF t = Chosen(c) THEN At(t) \cup {c} ELSE At(t)
        BY <2>2, <2>5 DEF At
      <3>2. \A t \in Topics : \A d \in At(t)' : t \in asked[d]
        BY <2>4, <3>1
      <3>3. QED
        BY <2>2, <3>2
    <2>7. \A d, e \in Active' : TopicOf[e] \in asked'[d]
      BY <2>1, <2>2
    <2>8. \A d \in Calls : /\ pc'[d] \in {"load", "send"} => stored'[d] = Halves
                           /\ pc'[d] = "send" => \A h \in Halves : seen'[d][h] # Unread
      BY <2>3
    <2>9. \A d \in Active' : \A h \in Halves :
             /\ h \in stored'[d] => field'[h] \in asked'[d]
             /\ seen'[d][h] # Unread => seen'[d][h] \in asked'[d]
      <3>1. ASSUME NEW d \in Active \ {c}
            PROVE  stored'[d] = stored[d] /\ seen'[d] = seen[d]
        BY <2>3, <3>1
      <3>2. QED
        BY <2>1, <2>2, <3>1
    <2>10. \A d \in Calls \ Active' : stored'[d] = {} /\ seen'[d] = NotRead
      BY <2>1, <2>3
    <2>11. stored' \in [Calls -> SUBSET Halves]
      BY <1>6 DEF Send
    <2>12. QED
      <3>1. \A d \in Active' : \A h \in stored'[d] : field'[h] \in asked'[d]
        BY <2>9, <2>11
      <3> HIDE DEF Active
      <3>2. QED
        BY <2>6, <2>7, <2>8, <2>9, <2>10, <3>1
  <1>7. ASSUME NEW t \in Topics, Receive(t) PROVE Beside'
    <2>1. \A u \in Topics : At(u)' \subseteq At(u)
      BY <1>7 DEF Receive, At
    <2>2. QED
      BY <1>7, <2>1 DEF Receive
  <1>8. ASSUME NEW t \in Topics, Handle(t) PROVE Beside'
    <2>1. \A u \in Topics : At(u)' \subseteq At(u)
      BY <1>8 DEF Handle, At
    <2>2. QED
      BY <1>8, <2>1 DEF Handle
  <1>9. CASE Exit
    <2>1. \A u \in Topics : At(u)' \subseteq At(u)
      BY <1>9 DEF Exit, At
    <2>2. Active' = {}
      BY <1>9 DEF Exit
    <2>3. \A c \in Calls : pc'[c] \notin {"load", "send"}
      BY <2>2
    <2>4. \A c \in Calls : stored'[c] = {} /\ seen'[c] = NotRead
      BY <1>9 DEF Exit
    <2>5. asked' = asked
      BY <1>9 DEF Exit
    <2>6. QED
      BY <2>1, <2>2, <2>3, <2>4, <2>5
  <1>10. QED
    <2>1. ASSUME NEW c \in Calls, SendLost(c) PROVE Beside'
      <3>1. Active' = Active \ {c} /\ c \in Active
        BY <2>1 DEF SendLost
      <3>2. UNCHANGED <<field, queue, current, handled, asked>>
        BY <2>1 DEF SendLost
      <3>3. \A d \in Calls : /\ stored'[d] = IF d = c THEN {} ELSE stored[d]
                             /\ seen'[d] = IF d = c THEN NotRead ELSE seen[d]
                             /\ pc'[d] = IF d = c THEN "done" ELSE pc[d]
        BY <2>1 DEF SendLost
      <3>4. (\A t \in Topics : \A d \in At(t) : t \in asked[d])'
        BY <3>2 DEF At
      <3>5. \A d, e \in Active' : TopicOf[e] \in asked'[d]
        BY <3>1, <3>2
      <3>6. \A d \in Calls : /\ pc'[d] \in {"load", "send"} => stored'[d] = Halves
                             /\ pc'[d] = "send" => \A h \in Halves : seen'[d][h] # Unread
        BY <3>3
      <3>7. \A d \in Active' : stored'[d] = stored[d] /\ seen'[d] = seen[d] /\ d \in Active
        BY <3>1, <3>3
      <3>8. \A d \in Calls \ Active' : stored'[d] = {} /\ seen'[d] = NotRead
        BY <3>1, <3>3
      <3>9. /\ \A d \in Active' : \A h \in stored'[d] : field'[h] \in asked'[d]
            /\ \A d \in Active' : \A h \in Halves : seen'[d][h] # Unread => seen'[d][h] \in asked'[d]
        BY <3>2, <3>7
      <3> HIDE DEF Active
      <3>10. QED
        BY <3>4, <3>5, <3>6, <3>8, <3>9
    <2>2. Restart => Beside'
      BY <1>1 DEF Restart
    <2>3. QED
      BY FatalEnds, <1>1, <1>2, <1>3, <1>4, <1>5, <1>6, <1>7, <1>8, <1>9, <2>1, <2>2, StepOfBus DEF BusStep
-----------------------------------------------------------------------------
(* What a page shows.                                                      *)

\* The bookkeeping of what is stored: every version comes from a call that writes
\* the datum, and a page shows no older version of what nobody has written.
Written ==
  /\ \A c \in Calls : todo[c] \subseteq WritesOf[c]
  /\ \A k \in Data : data[k] = Initially \/ (data[k] \in Calls /\ k \in WritesOf[data[k]])
  /\ \A k \in Data : data[k] = Initially => cached[k] \in {Initially, Dropped}
  /\ \A k \in Data : data[k] = Initially => \A v \in Visits : draft[v][k] \in {Initially, Dropped}
  /\ data = [k \in Data |-> data[k]] /\ cached = [k \in Data |-> cached[k]]
  /\ draft = [v \in Visits |-> draft[v]]

\* Why a page that shows an older version than call c has written may still do so.
Excused(c) ==
  \/ pc[c] # "done"
  \/ c \in queue[TopicOf[c]] \/ current[TopicOf[c]] = c
  \/ c \in lost \/ Misrouted(c)

LEMMA WrittenStep == Written /\ [Next]_vars => Written'
  <1> SUFFICES ASSUME Written, [Next]_vars PROVE Written'
    OBVIOUS
  <1> USE DEF Written
  <1>1. CASE UNCHANGED <<data, todo, cached, draft>>
    BY <1>1
  <1>2. ASSUME NEW c \in Calls, NEW k \in Data, Save(c, k) PROVE Written'
    <2>1. UNCHANGED <<cached, draft>> /\ k \in WritesOf[c]
      BY <1>2 DEF Save, SaveStep
    <2>2. \A d \in Calls : todo'[d] \subseteq todo[d]
      BY <1>2 DEF Save, SaveStep
    <2>3. \A l \in Data : data'[l] = IF l = k THEN c ELSE data[l]
      BY <1>2 DEF Save
    <2>4. c # Initially
      BY FrontendAssumption DEF FrontendAssumption
    <2>5. data' = [l \in Data |-> data'[l]]
      BY <1>2 DEF Save
    <2>6. QED
      BY <2>1, <2>2, <2>3, <2>4, <2>5
  <1>3. ASSUME NEW c \in Calls, NEW k \in Data, UpdateIgnored(c, k) PROVE Written'
    BY <1>3 DEF UpdateIgnored, SaveStep
  <1>4. ASSUME NEW t \in Topics, HandleMessage(t) PROVE Written'
    BY <1>4 DEF HandleMessage
  <1>5. ASSUME NEW v \in Visits, NEW page, RebuildRead(v, page) PROVE Written'
    <2>1. /\ UNCHANGED <<data, todo, cached>>
          /\ draft' = [u \in Visits |-> IF u = v THEN draft'[v] ELSE draft[u]]
          /\ \A k \in Data : draft'[v][k] \in {data[k], Initially, Dropped}
      BY <1>5 DEF RebuildRead, Answers
    <2>2. QED
      BY <2>1
  <1>6. ASSUME NEW v \in Visits, RebuildStore(v) PROVE Written'
    <2>1. /\ UNCHANGED <<data, todo>>
          /\ draft' = [u \in Visits |-> IF u = v THEN Blank ELSE draft[u]]
          /\ cached' = [k \in Data |-> IF draft[v][k] # Dropped THEN draft[v][k] ELSE cached[k]]
      BY <1>6 DEF RebuildStore
    <2>2. \A k \in Data : data[k] = Initially => cached'[k] \in {Initially, Dropped}
      BY <2>1
    <2>3. \A k \in Data : data[k] = Initially =>
            \A u \in Visits : draft'[u][k] \in {Initially, Dropped}
      BY <2>1 DEF Blank
    <2>4. QED
      BY <2>1, <2>2, <2>3
  <1>7. QED
    <2>1. ASSUME NEW c \in Calls, SaveFails(c) \/ Publish(c) \/ Produce(c) PROVE Written'
      BY <1>1, <2>1 DEF SaveFails, Publish, Produce, pages
    <2>2. ASSUME NEW t \in Topics, Consume(t) \/ HandleFails(t) \/ ReadFails(t) PROVE Written'
      BY <1>1, <2>2 DEF Consume, HandleFails, ReadFails, pages
    <2>3. Reboot => Written'
      BY <1>1 DEF Reboot, pages
    <2>4. CASE UNCHANGED vars
      BY <1>1, <2>4 DEF vars, pages
    <2>5. QED
      BY <1>2, <1>3, <1>4, <1>5, <1>6, <2>1, <2>2, <2>3, <2>4 DEF Next, Work, Deliver

\* What the process was occupied with when it ends is lost, so that excuses stay.
LEMMA ExitExcuses ==
  ASSUME BusTypes, Exit, lost' = lost \cup AtWork, NEW c \in Calls, Excused(c)
  PROVE  Excused(c)'
  <1> USE DEF BusTypes, Excused
  <1>1. UNCHANGED <<queue, handled>>
    BY DEF Exit
  <1>2. \A u \in Topics : current[u] # Nothing => current[u] \in lost'
    BY DEF AtWork
  <1>3. pc[c] # "done" => c \in lost' \/ pc'[c] # "done"
    BY DEF Exit, AtWork
  <1>4. Misrouted(c) => c \in lost' \/ Misrouted(c)'
    BY <1>1, <1>2 DEF Misrouted, At
  <1>5. QED
    BY <1>1, <1>2, <1>3, <1>4

\* An excuse lasts, whatever happens, until the message is handled in its topic;
\* and then the page that shows what c wrote is dropped.
LEMMA ExcuseStep ==
  ASSUME BusTypes, SentIsOver, Beside, Written, [Next]_vars,
         NEW c \in Calls, Excused(c)
  PROVE  Excused(c)' \/ (HandleMessage(TopicOf[c]) /\ current[TopicOf[c]] = c)
  <1> DEFINE T == TopicOf[c]
  <1> T \in Topics
    OBVIOUS
  <1> USE DEF BusTypes, Excused
  <1>1. CASE UNCHANGED vars
    BY <1>1 DEF vars, Misrouted, At
  <1>2. ASSUME NEW d \in Calls, pc[d] # "done", Work(d) \/ SaveFails(d)
        PROVE  Excused(c)'
    <2>1. CASE \E k \in Data : Save(d, k) \/ UpdateIgnored(d, k)
      <3>1. pc'[d] # "done" /\ \A e \in Calls : e # d => pc'[e] = pc[e]
        BY <2>1 DEF Save, UpdateIgnored, SaveStep, Goto
      <3>2. UNCHANGED <<queue, current, handled, lost>>
        BY <2>1 DEF Save, UpdateIgnored, SaveStep
      <3>3. QED
        BY <3>1, <3>2 DEF Misrouted, At
    <2>2. CASE SaveFails(d)
      <3>1. \A e \in Calls : e # d => pc'[e] = pc[e]
        BY <2>2 DEF SaveFails
      <3>2. UNCHANGED <<queue, current, handled>> /\ lost' = lost \cup {d}
        BY <2>2 DEF SaveFails
      <3>3. QED
        BY <3>1, <3>2 DEF Misrouted, At
    <2>3. CASE /\ Publish(d) \/ \E h \in Halves : Store(d, h) \/ Load(d, h)
              /\ UNCHANGED lost
      <3>1. CASE d = c
        BY <1>2, <2>3, <3>1 DEF Publish, Enter, Store, Load, Stages
      <3>2. CASE d # c
        <4>1. UNCHANGED <<queue, current, handled>>
          BY <2>3 DEF Publish, Enter, Store, Load
        <4>2. pc'[c] = pc[c]
          BY <2>3, <3>2 DEF Publish, Enter, Store, Load
        <4>3. UNCHANGED lost
          BY <2>3
        <4>4. QED
          BY <4>1, <4>2, <4>3 DEF Misrouted, At
      <3>3. QED
        BY <3>1, <3>2
    <2>4. CASE Produce(d) /\ Send(d)
      <3>1. UNCHANGED <<current, handled>> /\ lost \subseteq lost'
        BY <2>4 DEF Produce, Send
      <3>2. Chosen(d) \in Topics
        BY <2>4 DEF Send, Chosen, Beside, Active, Halves
      <3>3. \A t \in Topics : queue'[t] = IF t = Chosen(d) THEN queue[t] \cup {d} ELSE queue[t]
        BY <2>4 DEF Send
      <3>4. \A e \in Calls : e # d => pc'[e] = pc[e]
        BY <2>4 DEF Send
      <3>5. CASE d # c
        BY <3>1, <3>3, <3>4, <3>5 DEF Misrouted, At
      <3>6. CASE d = c /\ Chosen(d) = T
        BY <3>3, <3>6
      <3>7. CASE d = c /\ Chosen(d) # T
        BY <3>2, <3>3, <3>7 DEF Misrouted, At
      <3>8. QED
        BY <3>5, <3>6, <3>7
    <2>5. CASE SendLost(d) /\ lost' = lost \cup {d}
      <3>1. \A e \in Calls : e # d => pc'[e] = pc[e]
        BY <2>5 DEF SendLost
      <3>2. UNCHANGED <<queue, current, handled>>
        BY <2>5 DEF SendLost
      <3>3. QED
        BY <2>5, <3>1, <3>2 DEF Misrouted, At
    <2>6. CASE SendFatal(d) /\ lost' = lost \cup AtWork
      BY <2>6, FatalEnds, ExitExcuses
    <2>7. QED
      BY <1>2, <2>1, <2>2, <2>3, <2>4, <2>5, <2>6 DEF Work, Produce, Publish
  <1>3. ASSUME NEW t \in Topics, Consume(t) PROVE Excused(c)'
    <2>1. PICK d \in queue[t] : /\ current' = [current EXCEPT ![t] = d]
                                /\ queue' = [queue EXCEPT ![t] = @ \ {d}]
      BY <1>3 DEF Consume, Receive
    <2>2. UNCHANGED <<pc, handled, lost>> /\ current[t] = Nothing /\ d \in Calls
      BY <1>3, <2>1 DEF Consume, Receive
    <2>3. \A u \in Topics : At(u) \subseteq At(u)'
      BY <2>1, <2>2 DEF At
    <2>4. Misrouted(c) => Misrouted(c)'
      BY <2>3 DEF Misrouted
    <2>5. c \in queue[T] => c \in queue'[T] \/ current'[T] = c
      BY <2>1
    <2>6. current[T] = c => current'[T] = c
      BY <2>1, <2>2
    <2>7. QED
      BY <2>2, <2>4, <2>5, <2>6
  <1>4. ASSUME NEW t \in Topics, HandleMessage(t) \/ HandleFails(t)
        PROVE  Excused(c)' \/ (HandleMessage(T) /\ current[T] = c)
    <2>1. /\ UNCHANGED <<pc, queue>> /\ lost \subseteq lost'
          /\ \A u \in Topics : current'[u] = IF u = t THEN Nothing ELSE current[u]
      BY <1>4 DEF HandleMessage, HandleFails, Handle
    <2>2. \A u \in Topics : handled'[u] = IF u = t THEN handled[u] \cup {current[t]} ELSE handled[u]
      BY <1>4 DEF HandleMessage, HandleFails, Handle
    <2>3. \A u \in Topics : At(u) \subseteq At(u)'
      BY <2>1, <2>2 DEF At
    <2>4. Misrouted(c) => Misrouted(c)'
      BY <2>3 DEF Misrouted
    <2>5. CASE current[T] = c
      <3>1. CASE t # T
        BY <2>1, <2>5, <3>1
      <3>2. CASE t = T /\ HandleMessage(t)
        BY <2>5, <3>2
      <3>3. CASE t = T /\ HandleFails(t)
        BY <2>5, <3>3 DEF HandleFails
      <3>4. QED
        BY <1>4, <3>1, <3>2, <3>3
    <2>6. CASE current[T] # c
      BY <2>1, <2>4, <2>6
    <2>7. QED
      BY <2>5, <2>6
  <1>5. ASSUME NEW t \in Topics, ReadFails(t) PROVE Excused(c)'
    BY <1>5, FatalEnds, ExitExcuses DEF ReadFails
  <1>6. CASE Reboot
    BY <1>6 DEF Reboot, Restart, Misrouted, At
  <1>7. ASSUME NEW v \in Visits, NEW page, RebuildRead(v, page) \/ RebuildStore(v)
        PROVE  Excused(c)'
    BY <1>7 DEF RebuildRead, RebuildStore, Misrouted, At
  <1>8. QED
    BY <1>1, <1>2, <1>3, <1>4, <1>5, <1>6, <1>7 DEF Next, Deliver

\* What becomes of a datum and its page in a step: the datum is written; or the page
\* is dropped, or stored with the datum as it is, or marked as overtaken; or both stay.
Kept(k) == cached'[k] = cached[k] /\ (k \in overtaken => k \in overtaken')

LEMMA DataStep ==
  ASSUME Written, [Next]_vars, NEW k \in Data
  PROVE  \/ \E d \in Calls : Save(d, k)
         \/ /\ data'[k] = data[k]
            /\ cached'[k] \in {Dropped, data[k]} \/ k \in overtaken' \/ Kept(k)
  <1> USE DEF Kept
  <1>1. ASSUME NEW d \in Calls, NEW l \in Data, Save(d, l), l # k
        PROVE  data'[k] = data[k] /\ Kept(k)
    BY <1>1 DEF Save, SaveStep, Written
  <1>2. ASSUME NEW d \in Calls, NEW l \in Data, UpdateIgnored(d, l)
        PROVE  data'[k] = data[k] /\ Kept(k)
    BY <1>2 DEF UpdateIgnored, SaveStep
  <1>3. ASSUME NEW d \in Calls, SaveFails(d) \/ Publish(d) \/ Produce(d)
        PROVE  data'[k] = data[k] /\ Kept(k)
    BY <1>3 DEF SaveFails, Publish, Produce, pages
  <1>4. ASSUME NEW t \in Topics, Deliver(t) \/ ReadFails(t)
        PROVE  data'[k] = data[k] /\ (cached'[k] = Dropped \/ Kept(k))
    BY <1>4 DEF Deliver, Consume, HandleMessage, HandleFails, ReadFails, pages
  <1>5. ASSUME NEW v \in Visits, NEW page, RebuildRead(v, page)
        PROVE  data'[k] = data[k] /\ Kept(k)
    BY <1>5 DEF RebuildRead
  <1>6. ASSUME NEW v \in Visits, RebuildStore(v)
        PROVE  data'[k] = data[k] /\ (cached'[k] = data[k] \/ k \in overtaken' \/ Kept(k))
    BY <1>6 DEF RebuildStore
  <1>7. Reboot \/ UNCHANGED vars => data'[k] = data[k] /\ Kept(k)
    BY DEF Reboot, vars, pages
  <1>8. QED
    BY <1>1, <1>2, <1>3, <1>4, <1>5, <1>6, <1>7 DEF Next, Work

LEMMA FollowsStep ==
  BusTypes /\ SentIsOver /\ Beside /\ Written /\ PageFollowsData /\ [Next]_vars
    => PageFollowsData'
  <1> SUFFICES ASSUME BusTypes, SentIsOver, Beside, Written, PageFollowsData, [Next]_vars,
                      NEW k \in Data, Stale(k)', k \notin overtaken'
               PROVE  Excused(data[k])'
    BY DEF PageFollowsData, Excused
  <1>1. CASE \E d \in Calls : Save(d, k)
    <2>1. PICK d \in Calls : Save(d, k)
      BY <1>1
    <2>2. data'[k] = d /\ pc'[d] = "save"
      BY <2>1 DEF Save, SaveStep, Goto, Written, BusTypes
    <2>3. QED
      BY <2>2 DEF Excused
  <1>2. CASE data'[k] = data[k] /\ (cached'[k] \in {Dropped, data[k]} \/ Kept(k))
    <2>1. cached'[k] = cached[k] /\ Stale(k) /\ k \notin overtaken
      BY <1>2 DEF Stale, Kept
    <2>2. PICK c \in Calls : data[k] = c /\ data'[k] = c
      BY <1>2, <2>1 DEF Written, Stale
    <2>3. k \in WritesOf[c] /\ Excused(c)
      BY <2>1, <2>2 DEF Written, PageFollowsData, Excused, Stale
    <2>4. ~(HandleMessage(TopicOf[c]) /\ current[TopicOf[c]] = c)
      <3>1. k \in Drops(TopicOf[c], c)
        BY <2>3, FrontendAssumption DEF FrontendAssumption, Friends, Data, Drops
      <3>2. QED
        BY <2>1, <3>1 DEF HandleMessage, Stale
    <2>5. Excused(c)'
      BY <2>3, <2>4, ExcuseStep
    <2>6. QED
      BY <2>2, <2>5 DEF Excused
  <1>3. QED
    BY <1>1, <1>2, DataStep
-----------------------------------------------------------------------------
(* The theorems.                                                           *)

Inv == BusTypes /\ SentIsOver /\ AtMostOnce /\ Beside /\ Written /\ PageFollowsData

LEMMA InvInit == Init => Inv
  <1> SUFFICES ASSUME Init PROVE Inv
    OBVIOUS
  <1> USE DEF Init, BusInit
  <1>1. BusTypes
    BY DEF BusTypes, Stages, Names
  <1>2. SentIsOver /\ AtMostOnce
    BY DEF SentIsOver, AtMostOnce, At
  <1>3. Beside
    BY DEF Beside, Active, At
  <1>4. Written
    BY FrontendAssumption DEF Written, FrontendAssumption, Blank
  <1>5. PageFollowsData
    BY DEF PageFollowsData, Stale
  <1>6. QED
    BY <1>1, <1>2, <1>3, <1>4, <1>5 DEF Inv

LEMMA InvAlways == Spec => []Inv
  <1>1. Inv /\ [Next]_vars => Inv'
    BY TypesStep, OnceStep, BesideStep, WrittenStep, FollowsStep DEF Inv
  <1>2. QED
    BY InvInit, <1>1, PTL DEF Spec

\* A message is handled at most once, by one consumer, however many exits and
\* restarts come between its commit and its handling.
THEOREM HandledOnce == Spec => []AtMostOnce
  BY InvAlways, PTL DEF Inv

\* The one field that all handlers share sends a message astray only when calls
\* for different topics overlap: it holds nothing that an earlier call has left.
THEOREM OverlapsOnly == Spec => []OnlyOverlapMisroutes
  <1>1. Inv => OnlyOverlapMisroutes
    BY BesideMisroutes DEF Inv
  <1>2. QED
    BY InvAlways, <1>1, PTL

\* A page of the frontend is out of date only with an excuse: the last to write has
\* not published yet, its message is on its way, it failed, was lost or misrouted, or
\* a page built before the write, or from a failed reading, was stored after the drop.
THEOREM PagesFollow == Spec => []PageFollowsData
  BY InvAlways, PTL DEF Inv
=============================================================================
