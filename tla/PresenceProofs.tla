---------------------------- MODULE PresenceProofs ----------------------------
(* Proofs about Presence, for any number of connections, users and restarts. *)
EXTENDS Presence, FiniteSetTheorems, TLAPS

USE DEF life, cast, redis, Goto, At

Places == {"new", "joined", "notify", "cast", "open", "echo", "leave", "left", "remove",
           "close", "closed"}

Types ==
  /\ pc \in [Conns -> Places]
  /\ clients \subseteq Conns
  /\ todo \in [Conns -> SUBSET Conns]
  /\ target \in [Conns -> Conns \cup {Free}]
  /\ score \in [Users -> Int] /\ ghost \in [Users -> Nat] /\ member \subseteq Users

\* The mutex is held by the one broadcast at work, to clients that are in the map; who
\* writes is at work, on its own connection if it echoes.
Held == \A c \in Conns : pc[c] = "cast" <=> mutex = c
Casting ==
  \A c \in Conns : pc[c] = "cast" => todo[c] \subseteq clients /\ target[c] \in todo[c] \cup {Free}
Echoing ==
  \A c \in Conns :
    /\ pc[c] = "echo" => target[c] = c
    /\ pc[c] \notin {"cast", "echo"} => target[c] = Free
Writes == Held /\ Casting /\ Echoing

LEMMA CountedFinite == \A u : IsFiniteSet(Counted(u)) /\ Cardinality(Counted(u)) \in Nat
  <1>1. \A u : Counted(u) \subseteq Conns
    BY DEF Counted
  <1>2. QED
    BY <1>1, FS_Subset, FS_CardinalityType, PresenceAssumption DEF PresenceAssumption

LEMMA LostFinite ==
  \A u : LET lost == Counted(u) \cup Removing(u) IN
           IsFiniteSet(lost) /\ Cardinality(lost) \in Nat
  <1>1. \A u : Counted(u) \cup Removing(u) \subseteq Conns
    BY DEF Counted, Removing
  <1>2. QED
    BY <1>1, FS_Subset, FS_CardinalityType, PresenceAssumption DEF PresenceAssumption

LEMMA TypesStep == Types /\ [Next]_vars => Types'
  <1> SUFFICES ASSUME Types, [Next]_vars PROVE Types'
    OBVIOUS
  <1> USE PresenceAssumption DEF Types, Places, PresenceAssumption
  <1>1. ASSUME NEW c \in Conns, Arrive(c) PROVE Types'
    BY <1>1 DEF Arrive, Join, Enter, EnterFails
  <1>2. ASSUME NEW c \in Conns, Announce(c) PROVE Types'
    BY <1>2 DEF Announce, Broadcast, WriteBegin, WriteEnd, BroadcastEnd
  <1>3. ASSUME NEW c \in Conns, Talk(c) \/ HangUp(c) \/ PanicEcho(c) \/ PanicCast(c)
        PROVE  Types'
    BY <1>3 DEF Talk, EchoBegin, EchoEnd, HangUp, PanicEcho, PanicCast
  <1>4. ASSUME NEW c \in Conns, Depart(c) PROVE Types'
    <2>1. CASE Leave(c) \/ Close(c)
      BY <2>1 DEF Leave, Close
    <2>2. CASE Decrement(c) \/ DecrementFails(c)
      BY <2>2 DEF Decrement, DecrementFails
    <2>3. CASE Remove(c) \/ RemoveFails(c)
      BY <2>3 DEF Remove, RemoveFails
    <2>4. QED
      BY <1>4, <2>1, <2>2, <2>3 DEF Depart
  <1>5. CASE Kill \/ UNCHANGED vars
    BY <1>5 DEF Kill, vars
  <1>6. CASE Restart
    <2>1. \A u \in Users : Cardinality(Counted(u) \cup Removing(u)) \in Nat
      BY LostFinite
    <2>2. \A u \in Users : ghost[u] + Cardinality(Counted(u) \cup Removing(u)) \in Nat
      BY <2>1
    <2>3. ghost' \in [Users -> Nat]
      BY <1>6, <2>2 DEF Restart
    <2>4. QED
      BY <1>6, <2>3 DEF Restart
  <1>7. QED
    BY <1>1, <1>2, <1>3, <1>4, <1>5, <1>6 DEF Next

LEMMA WritesStep == Types /\ Writes /\ [Next]_vars => Writes'
  <1> SUFFICES ASSUME Types, Writes, [Next]_vars PROVE Writes'
    OBVIOUS
  <1> USE PresenceAssumption DEF Types, PresenceAssumption, Writes, Held, Casting, Echoing
  <1>1. ASSUME NEW c \in Conns, Arrive(c) PROVE Writes'
    BY <1>1 DEF Arrive, Join, Enter, EnterFails
  <1>2. ASSUME NEW c \in Conns, Broadcast(c) PROVE Writes'
    BY <1>2 DEF Broadcast
  <1>3. ASSUME NEW c \in Conns, NEW d \in Conns, WriteBegin(c, d) PROVE Writes'
    BY <1>3 DEF WriteBegin
  <1>4. ASSUME NEW c \in Conns, WriteEnd(c) PROVE Writes'
    BY <1>4 DEF WriteEnd
  <1>5. ASSUME NEW c \in Conns, BroadcastEnd(c) PROVE Writes'
    BY <1>5 DEF BroadcastEnd
  <1>6. ASSUME NEW c \in Conns, Talk(c) \/ HangUp(c) \/ PanicEcho(c) \/ PanicCast(c)
        PROVE  Writes'
    BY <1>6 DEF Talk, EchoBegin, EchoEnd, HangUp, PanicEcho, PanicCast
  <1>7. ASSUME NEW c \in Conns, Depart(c) PROVE Writes'
    BY <1>7 DEF Depart, Leave, Decrement, DecrementFails, Remove, RemoveFails, Close
  <1>8. CASE Kill \/ UNCHANGED vars
    BY <1>8 DEF Kill, vars
  <1>9. CASE Restart
    BY <1>9 DEF Restart
  <1>10. QED
    BY <1>1, <1>2, <1>3, <1>4, <1>5, <1>6, <1>7, <1>8, <1>9 DEF Next, Announce

\* A user's score never exceeds its connections and the losses, and an entry that is not
\* above zero has somebody at work to remove it, or a loss.
Joined == \A c \in Conns : pc[c] = "joined" => c \in clients
Bounded == \A u \in Users : score[u] <= Cardinality(Counted(u)) + ghost[u]
Removed ==
  \A u \in Users :
    \/ score[u] >= 1
    \/ u \notin member /\ score[u] = 0
    \/ Removing(u) # {} \/ ghost[u] > 0
Scores == Joined /\ Bounded /\ Removed

\* What a step that takes one connection out of the count, or none, does to its size.
LEMMA CountKept ==
  ASSUME NEW u, Counted(u) \subseteq Counted(u)'
  PROVE  /\ Cardinality(Counted(u)) \in Nat /\ Cardinality(Counted(u)') \in Nat
         /\ Cardinality(Counted(u)) <= Cardinality(Counted(u)')
  <1>1. Counted(u)' \subseteq Conns
    BY DEF Counted
  <1>2. IsFiniteSet(Counted(u)') /\ Cardinality(Counted(u)') \in Nat
    BY <1>1, FS_Subset, FS_CardinalityType, PresenceAssumption DEF PresenceAssumption
  <1>3. QED
    BY <1>2, FS_Subset, CountedFinite

LEMMA CountLess ==
  ASSUME NEW u, NEW c \in Counted(u), Counted(u) \ {c} \subseteq Counted(u)'
  PROVE  /\ Cardinality(Counted(u)) \in Nat /\ Cardinality(Counted(u)') \in Nat
         /\ Cardinality(Counted(u)) <= Cardinality(Counted(u)') + 1
  <1>1. Counted(u)' \subseteq Conns
    BY DEF Counted
  <1>2. IsFiniteSet(Counted(u)') /\ Cardinality(Counted(u)') \in Nat
    BY <1>1, FS_Subset, FS_CardinalityType, PresenceAssumption DEF PresenceAssumption
  <1>3. Cardinality(Counted(u) \ {c}) = Cardinality(Counted(u)) - 1
    BY CountedFinite, FS_RemoveElement
  <1>4. Cardinality(Counted(u) \ {c}) <= Cardinality(Counted(u)')
    BY <1>2, FS_Subset
  <1>5. QED
    BY <1>2, <1>3, <1>4, CountedFinite

\* A step that leaves the sorted set alone and takes nobody out of the count.
LEMMA ScoresStay ==
  ASSUME Types, Scores, UNCHANGED <<score, member, ghost>>, Joined',
         \A u \in Users : Counted(u) \subseteq Counted(u)' /\ Removing(u) \subseteq Removing(u)'
  PROVE  Scores'
  <1>1. ASSUME NEW u \in Users PROVE score[u] <= Cardinality(Counted(u)') + ghost[u]
    <2>1. /\ Cardinality(Counted(u)) \in Nat /\ Cardinality(Counted(u)') \in Nat
          /\ Cardinality(Counted(u)) <= Cardinality(Counted(u)')
      BY CountKept
    <2>2. QED
      BY <2>1 DEF Types, Scores, Bounded
  <1>2. Bounded'
    BY <1>1 DEF Bounded
  <1>3. Removed'
    BY DEF Scores, Removed
  <1>4. QED
    BY <1>2, <1>3 DEF Scores

LEMMA ScoresStep == Types /\ Scores /\ [Next]_vars => Scores'
  <1> SUFFICES ASSUME Types, Scores, [Next]_vars PROVE Scores'
    OBVIOUS
  <1> USE PresenceAssumption DEF Types, PresenceAssumption
  <1> DEFINE Kept == \A u \in Users : Counted(u) \subseteq Counted(u)' /\ Removing(u) \subseteq Removing(u)'
  <1>1. ASSUME NEW c \in Conns, Join(c) \/ EnterFails(c) PROVE Scores'
    <2>1. Joined'
      BY <1>1 DEF Join, EnterFails, Scores, Joined
    <2>2. Kept
      BY <1>1 DEF Join, EnterFails, Counted, Removing, Inside
    <2>3. QED
      BY <1>1, <2>1, <2>2, ScoresStay DEF Join, EnterFails
  <1>2. ASSUME NEW c \in Conns, Enter(c) PROVE Scores'
    <2> DEFINE u == UserOf[c]
    <2>1. u \in Users /\ pc[c] = "joined" /\ c \in clients /\ UNCHANGED <<clients, ghost>>
          /\ pc' = [pc EXCEPT ![c] = "notify"] /\ score' = [score EXCEPT ![u] = @ + 1]
          /\ member' = member \cup {u}
      BY <1>2 DEF Enter, Scores, Joined
    <2>2. Joined'
      BY <2>1 DEF Scores, Joined
    <2>3. \A v \in Users : Counted(v)' = Counted(v) \cup (IF v = u THEN {c} ELSE {})
      BY <2>1 DEF Counted, Inside
    <2>4. \A v \in Users : Removing(v)' = Removing(v)
      BY <2>1 DEF Removing
    <2>5. c \notin Counted(u)
      BY <2>1 DEF Counted, Inside
    <2>6. Bounded'
      <3>1. Cardinality(Counted(u) \cup {c}) = Cardinality(Counted(u)) + 1
        BY <2>5, CountedFinite, FS_AddElement
      <3>2. ASSUME NEW v \in Users PROVE score'[v] <= Cardinality(Counted(v)') + ghost[v]
        <4>1. score[v] <= Cardinality(Counted(v)) + ghost[v] /\ Cardinality(Counted(v)) \in Nat
          BY CountedFinite DEF Scores, Bounded
        <4>2. CASE v = u
          <5>1. score'[v] = score[v] + 1 /\ Cardinality(Counted(v)') = Cardinality(Counted(v)) + 1
            BY <2>1, <2>3, <3>1, <4>2
          <5>2. QED
            BY <4>1, <5>1
        <4>3. CASE v # u
          BY <2>1, <2>3, <4>1, <4>3
        <4>4. QED
          BY <4>2, <4>3
      <3>3. QED
        BY <2>1, <3>2 DEF Bounded
    <2>7. Removed'
      BY <2>1, <2>4 DEF Scores, Removed
    <2>8. QED
      BY <2>2, <2>6, <2>7 DEF Scores
  <1>3. ASSUME NEW c \in Conns, Announce(c) \/ Talk(c) \/ HangUp(c) \/ PanicEcho(c) \/ PanicCast(c)
        PROVE  Scores'
    <2>1. UNCHANGED <<clients, redis>> /\ \A d \in Conns \ {c} : pc'[d] = pc[d]
      BY <1>3 DEF Announce, Broadcast, WriteBegin, WriteEnd, BroadcastEnd, Talk, EchoBegin, EchoEnd,
                  HangUp, PanicEcho, PanicCast
    <2>2. \/ pc'[c] = pc[c]
          \/ pc[c] \in {"notify", "open", "echo"} /\ pc'[c] \in {"cast", "open", "echo", "leave"}
          \/ pc[c] = "cast" /\ pc'[c] = (IF c \in clients THEN "open" ELSE "close")
      BY <1>3 DEF Announce, Broadcast, WriteBegin, WriteEnd, BroadcastEnd, Talk, EchoBegin, EchoEnd,
                  HangUp, PanicEcho, PanicCast
    <2>3. Joined'
      BY <2>1, <2>2 DEF Scores, Joined
    <2>4. Kept
      BY <2>1, <2>2 DEF Counted, Removing, Inside
    <2>5. QED
      BY <2>1, <2>3, <2>4, ScoresStay
  <1>4. ASSUME NEW c \in Conns, Leave(c) \/ Close(c) PROVE Scores'
    <2>1. Joined'
      BY <1>4 DEF Leave, Close, Scores, Joined
    <2>2. Kept
      BY <1>4 DEF Leave, Close, Counted, Removing, Inside
    <2>3. QED
      BY <1>4, <2>1, <2>2, ScoresStay DEF Leave, Close
  <1>5. ASSUME NEW c \in Conns, Decrement(c) PROVE Scores'
    <2> DEFINE u == UserOf[c]
    <2>1. /\ u \in Users /\ pc[c] = "left" /\ UNCHANGED <<clients, ghost>>
          /\ pc' = [pc EXCEPT ![c] = IF score[u] - 1 <= 0 THEN "remove" ELSE "notify"]
          /\ score' = [score EXCEPT ![u] = @ - 1] /\ member' = member \cup {u}
      BY <1>5 DEF Decrement
    <2>2. Joined'
      BY <2>1 DEF Scores, Joined
    <2>3. \A v \in Users : Removing(v) \subseteq Removing(v)'
      BY <2>1 DEF Removing
    <2>4. score[u] - 1 <= 0 => c \in Removing(u)'
      BY <2>1 DEF Removing
    <2>5. \A v \in Users \ {u} : Counted(v) \subseteq Counted(v)'
      BY <2>1 DEF Counted, Inside
    <2>6. Counted(u) \ {c} \subseteq Counted(u)' /\ c \in Counted(u)
      BY <2>1 DEF Counted, Inside
    <2>7. ASSUME NEW v \in Users PROVE score'[v] <= Cardinality(Counted(v)') + ghost[v]
      <3>1. score[v] <= Cardinality(Counted(v)) + ghost[v]
        BY DEF Scores, Bounded
      <3>2. CASE v = u
        <4>1. /\ Cardinality(Counted(v)) \in Nat /\ Cardinality(Counted(v)') \in Nat
              /\ Cardinality(Counted(v)) <= Cardinality(Counted(v)') + 1
          BY <2>6, <3>2, CountLess
        <4>2. score'[v] = score[v] - 1
          BY <2>1, <3>2
        <4>3. QED
          BY <3>1, <4>1, <4>2
      <3>3. CASE v # u
        <4>1. /\ Cardinality(Counted(v)) \in Nat /\ Cardinality(Counted(v)') \in Nat
              /\ Cardinality(Counted(v)) <= Cardinality(Counted(v)')
          BY <2>5, <3>3, CountKept
        <4>2. QED
          BY <2>1, <3>1, <3>3, <4>1
      <3>4. QED
        BY <3>2, <3>3
    <2>8. Removed'
      BY <2>1, <2>3, <2>4 DEF Scores, Removed
    <2>9. QED
      BY <2>1, <2>2, <2>7, <2>8 DEF Scores, Bounded
  <1>6. ASSUME NEW c \in Conns, DecrementFails(c) PROVE Scores'
    <2> DEFINE u == UserOf[c]
    <2>1. /\ u \in Users /\ pc[c] = "left" /\ UNCHANGED <<clients, score, member>>
          /\ pc' = [pc EXCEPT ![c] = "remove"] /\ ghost' = [ghost EXCEPT ![u] = @ + 1]
      BY <1>6 DEF DecrementFails
    <2>2. Joined'
      BY <2>1 DEF Scores, Joined
    <2>3. \A v \in Users : Removing(v) \subseteq Removing(v)'
      BY <2>1 DEF Removing
    <2>4. \A v \in Users \ {u} : Counted(v) \subseteq Counted(v)'
      BY <2>1 DEF Counted, Inside
    <2>5. Counted(u) \ {c} \subseteq Counted(u)' /\ c \in Counted(u)
      BY <2>1 DEF Counted, Inside
    <2>6. ASSUME NEW v \in Users PROVE score[v] <= Cardinality(Counted(v)') + ghost'[v]
      <3>1. score[v] <= Cardinality(Counted(v)) + ghost[v]
        BY DEF Scores, Bounded
      <3>2. CASE v = u
        <4>1. /\ Cardinality(Counted(v)) \in Nat /\ Cardinality(Counted(v)') \in Nat
              /\ Cardinality(Counted(v)) <= Cardinality(Counted(v)') + 1
          BY <2>5, <3>2, CountLess
        <4>2. ghost'[v] = ghost[v] + 1
          BY <2>1, <3>2
        <4>3. QED
          BY <3>1, <4>1, <4>2
      <3>3. CASE v # u
        <4>1. /\ Cardinality(Counted(v)) \in Nat /\ Cardinality(Counted(v)') \in Nat
              /\ Cardinality(Counted(v)) <= Cardinality(Counted(v)')
          BY <2>4, <3>3, CountKept
        <4>2. QED
          BY <2>1, <3>1, <3>3, <4>1
      <3>4. QED
        BY <3>2, <3>3
    <2>7. Removed'
      BY <2>1, <2>3 DEF Scores, Removed
    <2>8. QED
      BY <2>1, <2>2, <2>6, <2>7 DEF Scores, Bounded
  <1>7. ASSUME NEW c \in Conns, Remove(c) PROVE Scores'
    <2> DEFINE u == UserOf[c]
    <2>1. /\ u \in Users /\ pc[c] = "remove" /\ UNCHANGED <<clients, ghost>>
          /\ pc' = [pc EXCEPT ![c] = "notify"]
          /\ score' = [score EXCEPT ![u] = 0] /\ member' = member \ {u}
      BY <1>7 DEF Remove
    <2>2. Joined'
      BY <2>1 DEF Scores, Joined
    <2>3. \A v \in Users : Counted(v) \subseteq Counted(v)'
      BY <2>1 DEF Counted, Inside
    <2>4. \A v \in Users \ {u} : Removing(v) \subseteq Removing(v)'
      BY <2>1 DEF Removing
    <2>5. ASSUME NEW v \in Users PROVE score'[v] <= Cardinality(Counted(v)') + ghost[v]
      <3>1. score[v] <= Cardinality(Counted(v)) + ghost[v]
        BY DEF Scores, Bounded
      <3>2. /\ Cardinality(Counted(v)) \in Nat /\ Cardinality(Counted(v)') \in Nat
            /\ Cardinality(Counted(v)) <= Cardinality(Counted(v)')
        BY <2>3, CountKept
      <3>3. QED
        BY <2>1, <3>1, <3>2
    <2>6. Removed'
      BY <2>1, <2>4 DEF Scores, Removed
    <2>7. QED
      BY <2>1, <2>2, <2>5, <2>6 DEF Scores, Bounded
  <1>8. ASSUME NEW c \in Conns, RemoveFails(c) PROVE Scores'
    <2> DEFINE u == UserOf[c]
    <2>1. /\ u \in Users /\ pc[c] = "remove" /\ UNCHANGED <<clients, score, member>>
          /\ pc' = [pc EXCEPT ![c] = "notify"] /\ ghost' = [ghost EXCEPT ![u] = @ + 1]
      BY <1>8 DEF RemoveFails
    <2>2. Joined'
      BY <2>1 DEF Scores, Joined
    <2>3. \A v \in Users : Counted(v) \subseteq Counted(v)'
      BY <2>1 DEF Counted, Inside
    <2>4. \A v \in Users \ {u} : Removing(v) \subseteq Removing(v)'
      BY <2>1 DEF Removing
    <2>5. ASSUME NEW v \in Users PROVE score[v] <= Cardinality(Counted(v)') + ghost'[v]
      <3>1. score[v] <= Cardinality(Counted(v)) + ghost[v]
        BY DEF Scores, Bounded
      <3>2. /\ Cardinality(Counted(v)) \in Nat /\ Cardinality(Counted(v)') \in Nat
            /\ Cardinality(Counted(v)) <= Cardinality(Counted(v)')
        BY <2>3, CountKept
      <3>3. QED
        BY <2>1, <3>1, <3>2
    <2>6. Removed'
      BY <2>1, <2>4 DEF Scores, Removed
    <2>7. QED
      BY <2>1, <2>2, <2>5, <2>6 DEF Scores, Bounded
  <1>9. CASE Kill \/ UNCHANGED vars
    <2>1. UNCHANGED <<pc, clients, redis>>
      BY <1>9 DEF Kill, vars
    <2>2. QED
      BY <2>1, ScoresStay DEF Scores, Joined, Counted, Removing
  <1>10. CASE Restart
    <2>1. UNCHANGED <<score, member>> /\ \A c \in Conns : pc'[c] # "joined"
      BY <1>10 DEF Restart
    <2>2. ASSUME NEW u \in Users
          PROVE  /\ score[u] <= Cardinality(Counted(u)') + ghost'[u]
                 /\ Removing(u) # {} => ghost'[u] > 0
                 /\ ghost[u] > 0 => ghost'[u] > 0
      <3> DEFINE lost == Counted(u) \cup Removing(u)
      <3>1. ghost'[u] = ghost[u] + Cardinality(lost)
        BY <1>10 DEF Restart
      <3>2. IsFiniteSet(lost) /\ Cardinality(lost) \in Nat
        BY LostFinite
      <3>3. Cardinality(Counted(u)) <= Cardinality(lost)
        BY <3>2, FS_Subset
      <3>4. lost # {} => Cardinality(lost) > 0
        BY <3>2, FS_EmptySet
      <3>5. Counted(u)' = {}
        BY <1>10 DEF Restart, Counted, Inside
      <3>6. Cardinality(Counted(u)') = 0
        BY <3>5, FS_EmptySet
      <3>7. score[u] <= Cardinality(Counted(u)) + ghost[u] /\ Cardinality(Counted(u)) \in Nat
        BY CountedFinite DEF Scores, Bounded
      <3>8. Removing(u) # {} => lost # {}
        OBVIOUS
      <3> HIDE DEF lost
      <3>9. QED
        BY <3>1, <3>2, <3>3, <3>4, <3>6, <3>7, <3>8
    <2>3. QED
      BY <2>1, <2>2 DEF Scores, Joined, Bounded, Removed
  <1>11. QED
    BY <1>1, <1>2, <1>3, <1>4, <1>5, <1>6, <1>7, <1>8, <1>9, <1>10 DEF Next, Arrive, Depart

\* Where a connection is tells whether it is in the table.
Tabled ==
  \A c \in Conns :
    /\ pc[c] \in {"joined", "open", "echo", "leave"} => c \in clients
    /\ pc[c] \in {"new", "left", "remove", "close", "closed"} => c \notin clients

\* The count of a user which nothing has undercut covers all its connections, and its entry
\* is about to be removed only when there are none.
Covered ==
  \A u \in Users \ undercut :
    /\ Cardinality(Counted(u)) <= score[u]
    /\ Counted(u) # {} => u \in member /\ Removing(u) = {}
Shown == Tabled /\ Covered

LEMMA TabledStep == Types /\ Tabled /\ [Next]_vars => Tabled'
  <1> SUFFICES ASSUME Types, Tabled, [Next]_vars PROVE Tabled'
    OBVIOUS
  <1> USE DEF Types, Tabled
  <1>1. ASSUME NEW c \in Conns, Arrive(c) PROVE Tabled'
    BY <1>1 DEF Arrive, Join, Enter, EnterFails
  <1>2. ASSUME NEW c \in Conns, Announce(c) PROVE Tabled'
    BY <1>2 DEF Announce, Broadcast, WriteBegin, WriteEnd, BroadcastEnd
  <1>3. ASSUME NEW c \in Conns, Talk(c) \/ HangUp(c) \/ PanicEcho(c) \/ PanicCast(c)
        PROVE  Tabled'
    BY <1>3 DEF Talk, EchoBegin, EchoEnd, HangUp, PanicEcho, PanicCast
  <1>4. ASSUME NEW c \in Conns, Depart(c) PROVE Tabled'
    BY <1>4 DEF Depart, Leave, Decrement, DecrementFails, Remove, RemoveFails, Close
  <1>5. CASE Kill \/ UNCHANGED vars
    BY <1>5 DEF Kill, vars
  <1>6. CASE Restart
    BY <1>6 DEF Restart
  <1>7. QED
    BY <1>1, <1>2, <1>3, <1>4, <1>5, <1>6 DEF Next

\* A step that counts nobody in or out.
LEMMA CoveredStay ==
  ASSUME Types, Covered, UNCHANGED redis,
         \A u \in Users : Counted(u)' = Counted(u) /\ Removing(u)' \subseteq Removing(u)
  PROVE  Covered'
  BY DEF Covered

LEMMA CoveredStep == Types /\ Shown /\ [Next]_vars => Covered'
  <1> SUFFICES ASSUME Types, Tabled, Covered, [Next]_vars PROVE Covered'
    BY DEF Shown
  <1> USE PresenceAssumption DEF Types, PresenceAssumption
  <1> DEFINE Kept == \A u \in Users : Counted(u)' = Counted(u) /\ Removing(u)' \subseteq Removing(u)
  <1>1. ASSUME NEW c \in Conns, Join(c) PROVE Covered'
    <2>1. Kept /\ UNCHANGED redis
      BY <1>1 DEF Join, Counted, Removing, Inside
    <2>2. QED
      BY <2>1, CoveredStay
  <1>2. ASSUME NEW c \in Conns, NEW u \in Users, u = UserOf[c], Enter(c) PROVE Covered'
    <2>1. /\ pc[c] = "joined" /\ UNCHANGED <<clients, ghost>>
          /\ pc' = [pc EXCEPT ![c] = "notify"] /\ score' = [score EXCEPT ![u] = @ + 1]
          /\ member' = member \cup {u}
          /\ undercut' = IF Removing(u) # {} THEN undercut \cup {u} ELSE undercut
      BY <1>2 DEF Enter
    <2>2. \A v \in Users : /\ v # u => Counted(v)' = Counted(v)
                           /\ Counted(u)' = Counted(u) \cup {c}
                           /\ Removing(v)' = Removing(v)
      BY <1>2, <2>1 DEF Counted, Inside, Removing, Tabled
    <2>3. c \notin Counted(u)
      BY <2>1 DEF Counted, Inside
    <2>4. Cardinality(Counted(u)') = Cardinality(Counted(u)) + 1 /\ Cardinality(Counted(u)) \in Nat
      BY <2>2, <2>3, CountedFinite, FS_AddElement
    <2>5. ASSUME NEW v \in Users \ undercut'
          PROVE  /\ Cardinality(Counted(v)') <= score'[v]
                 /\ Counted(v)' # {} => v \in member' /\ Removing(v)' = {}
      <3>1. v \notin undercut
        BY <2>1
      <3>2. CASE v = u
        <4>1. Removing(u) = {}
          BY <2>1, <3>2
        <4>2. Cardinality(Counted(u)) <= score[u] /\ score'[u] = score[u] + 1
          BY <2>1, <3>1, <3>2 DEF Covered
        <4>3. QED
          BY <2>1, <2>2, <2>4, <3>2, <4>1, <4>2
      <3>3. CASE v # u
        BY <2>1, <2>2, <3>1, <3>3 DEF Covered
      <3>4. QED
        BY <3>2, <3>3
    <2>6. QED
      BY <2>5 DEF Covered
  <1>3. ASSUME NEW c \in Conns, NEW u \in Users, u = UserOf[c], EnterFails(c) \/ DecrementFails(c)
        PROVE  Covered'
    <2>1. /\ pc[c] \in {"joined", "left"} /\ UNCHANGED <<clients, score, member>>
          /\ \E p \in {"notify", "remove"} : pc' = [pc EXCEPT ![c] = p]
          /\ undercut' = undercut \cup {u}
      BY <1>3 DEF EnterFails, DecrementFails
    <2>2. \A v \in Users \ {u} : Counted(v)' = Counted(v) /\ Removing(v)' = Removing(v)
      BY <1>3, <2>1 DEF Counted, Inside, Removing
    <2>3. QED
      BY <2>1, <2>2 DEF Covered
  <1>4. ASSUME NEW c \in Conns, Announce(c) \/ Talk(c) \/ HangUp(c) \/ PanicEcho(c) \/ PanicCast(c)
        PROVE  Covered'
    <2>1. UNCHANGED <<clients, redis>> /\ \A d \in Conns \ {c} : pc'[d] = pc[d]
      BY <1>4 DEF Announce, Broadcast, WriteBegin, WriteEnd, BroadcastEnd, Talk, EchoBegin, EchoEnd,
                  HangUp, PanicEcho, PanicCast
    <2>2. \/ pc'[c] = pc[c]
          \/ pc[c] \in {"notify", "open", "echo"} /\ pc'[c] \in {"cast", "open", "echo", "leave"}
          \/ pc[c] = "cast" /\ pc'[c] = (IF c \in clients THEN "open" ELSE "close")
      BY <1>4 DEF Announce, Broadcast, WriteBegin, WriteEnd, BroadcastEnd, Talk, EchoBegin, EchoEnd,
                  HangUp, PanicEcho, PanicCast
    <2>3. Kept
      BY <2>1, <2>2 DEF Counted, Removing, Inside
    <2>4. QED
      BY <2>1, <2>3, CoveredStay
  <1>5. ASSUME NEW c \in Conns, Leave(c) \/ Close(c) PROVE Covered'
    <2>1. Kept /\ UNCHANGED redis
      BY <1>5 DEF Leave, Close, Counted, Removing, Inside, Tabled
    <2>2. QED
      BY <2>1, CoveredStay
  <1>6. ASSUME NEW c \in Conns, NEW u \in Users, u = UserOf[c], Decrement(c) PROVE Covered'
    <2>1. /\ pc[c] = "left" /\ c \notin clients /\ UNCHANGED <<clients, undercut>>
          /\ pc' = [pc EXCEPT ![c] = IF score[u] - 1 <= 0 THEN "remove" ELSE "notify"]
          /\ score' = [score EXCEPT ![u] = @ - 1] /\ member' = member \cup {u}
      BY <1>6 DEF Decrement, Tabled
    <2>2. \A v \in Users \ {u} : Counted(v)' = Counted(v) /\ Removing(v)' = Removing(v)
      BY <1>6, <2>1 DEF Counted, Inside, Removing
    <2>3. Counted(u)' = Counted(u) \ {c} /\ c \in Counted(u)
      BY <1>6, <2>1 DEF Counted, Inside
    <2>4. /\ Cardinality(Counted(u)') = Cardinality(Counted(u)) - 1 /\ Cardinality(Counted(u)) \in Nat
          /\ Cardinality(Counted(u)') \in Nat
      <3>1. /\ IsFiniteSet(Counted(u) \ {c})
            /\ Cardinality(Counted(u) \ {c}) = Cardinality(Counted(u)) - 1
        BY <2>3, CountedFinite, FS_RemoveElement
      <3>2. Cardinality(Counted(u) \ {c}) \in Nat /\ Cardinality(Counted(u)) \in Nat
        BY <3>1, CountedFinite, FS_CardinalityType
      <3>3. QED
        BY <2>3, <3>1, <3>2
    <2>5. Removing(u)' \subseteq Removing(u) \cup {c} /\ (score[u] - 1 > 0 => Removing(u)' \subseteq Removing(u))
      BY <2>1 DEF Removing
    <2>6. ASSUME u \notin undercut
          PROVE  /\ Cardinality(Counted(u)') <= score'[u]
                 /\ Counted(u)' # {} => u \in member' /\ Removing(u)' = {}
      <3>1. Cardinality(Counted(u)) <= score[u] /\ Removing(u) = {} /\ score[u] \in Int
        BY <2>3, <2>6 DEF Covered
      <3>2. score'[u] = score[u] - 1
        BY <2>1
      <3>3. Counted(u)' # {} => Cardinality(Counted(u)') # 0
        <4>1. IsFiniteSet(Counted(u)')
          BY <2>3, CountedFinite, FS_Subset
        <4>2. QED
          BY <4>1, FS_EmptySet
      <3>4. QED
        BY <2>1, <2>4, <2>5, <3>1, <3>2, <3>3
    <2>7. \A v \in Users \ {u} : score'[v] = score[v]
      BY <2>1
    <2>8. QED
      BY <2>1, <2>2, <2>6, <2>7 DEF Covered
  <1>7. ASSUME NEW c \in Conns, NEW u \in Users, u = UserOf[c], Remove(c) PROVE Covered'
    <2>1. /\ pc[c] = "remove" /\ c \notin clients /\ UNCHANGED <<clients>>
          /\ pc' = [pc EXCEPT ![c] = "notify"]
          /\ score' = [score EXCEPT ![u] = 0] /\ member' = member \ {u}
          /\ undercut' = IF Counted(u) = {} THEN undercut \ {u} ELSE undercut
      BY <1>7 DEF Remove, Tabled
    <2>2. \A v \in Users : Counted(v)' = Counted(v) /\ Removing(v)' \subseteq Removing(v)
      BY <2>1 DEF Counted, Inside, Removing
    <2>3. c \in Removing(u)
      BY <1>7, <2>1 DEF Removing
    <2>4. ASSUME u \notin undercut' PROVE Counted(u) = {}
      BY <2>1, <2>3, <2>4 DEF Covered
    <2>5. \A v \in Users \ {u} : score'[v] = score[v] /\ (v \in undercut' <=> v \in undercut)
      BY <2>1
    <2>6. Cardinality({}) = 0 /\ score'[u] = 0
      BY <2>1, FS_EmptySet
    <2>7. ASSUME NEW v \in Users \ undercut'
          PROVE  /\ Cardinality(Counted(v)') <= score'[v]
                 /\ Counted(v)' # {} => v \in member' /\ Removing(v)' = {}
      <3>1. CASE v = u
        <4>1. Counted(u) = {}
          BY <2>4, <2>7, <3>1
        <4>2. Counted(u)' = {}
          BY <2>2, <4>1
        <4>3. Cardinality(Counted(u)') = 0 /\ score'[u] = 0
          BY <2>6, <4>2
        <4>4. QED
          BY <3>1, <4>2, <4>3
      <3>2. CASE v # u
        <4>1. /\ Cardinality(Counted(v)) <= score[v]
              /\ Counted(v) # {} => v \in member /\ Removing(v) = {}
          BY <2>5, <2>7, <3>2 DEF Covered
        <4>2. QED
          BY <2>1, <2>2, <2>5, <3>2, <4>1
      <3>3. QED
        BY <3>1, <3>2
    <2>8. QED
      BY <2>7 DEF Covered
  <1>8. ASSUME NEW c \in Conns, RemoveFails(c) PROVE Covered'
    <2>1. UNCHANGED <<clients, score, member, undercut>> /\ pc[c] = "remove" /\ c \notin clients
          /\ pc' = [pc EXCEPT ![c] = "notify"]
      BY <1>8 DEF RemoveFails, Tabled
    <2>2. Kept
      BY <2>1 DEF Counted, Inside, Removing
    <2>3. QED
      BY <2>1, <2>2 DEF Covered
  <1>9. CASE Kill \/ UNCHANGED vars
    <2>1. UNCHANGED <<pc, clients, redis>>
      BY <1>9 DEF Kill, vars
    <2>2. QED
      BY <2>1, CoveredStay DEF Counted, Removing
  <1>10. CASE Restart
    <2>1. \A u \in Users : Counted(u)' = {}
      BY <1>10 DEF Restart, Counted, Inside
    <2>2. Cardinality({}) = 0 /\ UNCHANGED <<score, undercut>>
      BY <1>10, FS_EmptySet DEF Restart
    <2>3. \A u \in Users \ undercut : 0 <= score[u]
      BY CountedFinite DEF Covered
    <2>4. QED
      BY <2>1, <2>2, <2>3 DEF Covered
  <1>11. QED
    BY <1>1, <1>2, <1>3, <1>4, <1>5, <1>6, <1>7, <1>8, <1>9, <1>10 DEF Next, Arrive, Depart

IInv == Types /\ Writes /\ Scores /\ Shown

LEMMA InitInv == Init => IInv
  <1> SUFFICES ASSUME Init PROVE IInv
    OBVIOUS
  <1> USE PresenceAssumption DEF PresenceAssumption, Init
  <1>1. Types /\ Writes
    BY DEF Types, Places, Writes, Held, Casting, Echoing
  <1>2. \A u \in Users : Cardinality(Counted(u)) \in Nat
    BY CountedFinite
  <1>3. Scores
    BY <1>2 DEF Scores, Joined, Bounded, Removed
  <1>4. Shown
    <2>1. Tabled /\ \A u \in Users : Counted(u) = {} /\ score[u] = 0
      BY DEF Tabled, Counted, Inside
    <2>2. Cardinality({}) = 0
      BY FS_EmptySet
    <2>3. QED
      BY <2>1, <2>2 DEF Shown, Covered
  <1>5. QED
    BY <1>1, <1>3, <1>4 DEF IInv

LEMMA Invariant == Spec => []IInv
  <1>1. IInv /\ [Next]_vars => IInv'
    BY TypesStep, WritesStep, ScoresStep, TabledStep, CoveredStep DEF IInv, Shown
  <1>2. QED
    BY InitInv, <1>1, PTL DEF Spec

\* However many connections come, talk and go: a broadcast writes to clients of the map
\* alone, and no two broadcasts are at one socket.
THEOREM BroadcastsInside == Spec => []WritesStayInside
  <1>1. ASSUME IInv PROVE WritesStayInside
    <2> SUFFICES ASSUME NEW c \in Conns, NEW d \in Conns, target[c] = d, c # d
                 PROVE  d \in clients /\ \A b \in Conns \ {c, d} : target[b] # d
      BY DEF WritesStayInside
    <2>1. d # Free
      BY PresenceAssumption DEF PresenceAssumption
    <2>2. \A b \in Conns : target[b] = d /\ b # d => pc[b] = "cast" /\ mutex = b
      BY <1>1, <2>1 DEF IInv, Writes, Held, Echoing
    <2>3. d \in todo[c] /\ todo[c] \subseteq clients
      BY <1>1, <2>1, <2>2 DEF IInv, Writes, Casting
    <2>4. QED
      BY <2>2, <2>3
  <1>2. QED
    BY <1>1, Invariant, PTL

\* Nobody stays online who is not, save for a command or a process that was lost.
THEOREM NobodyStaysOnline == Spec => []NoGhost
  <1>1. ASSUME IInv PROVE NoGhost
    <2> SUFFICES ASSUME NEW u \in member, Counted(u) = {}, Removing(u) = {}
                 PROVE  ghost[u] > 0
      BY DEF NoGhost
    <2>1. u \in Users /\ score[u] \in Int /\ ghost[u] \in Nat
      BY <1>1 DEF IInv, Types
    <2>2. Cardinality(Counted(u)) = 0
      BY FS_EmptySet
    <2>3. score[u] <= Cardinality(Counted(u)) + ghost[u]
      BY <1>1, <2>1 DEF IInv, Scores, Bounded
    <2>4. score[u] >= 1 \/ ghost[u] > 0
      BY <1>1, <2>1 DEF IInv, Scores, Removed
    <2>5. QED
      BY <2>1, <2>2, <2>3, <2>4
  <1>2. QED
    BY <1>1, Invariant, PTL

\* Nobody who is connected is missed, save by a failed command or a removal that was
\* under way when a connection of the same user came in.
THEOREM VisitorsShown == Spec => []ConnectedIsShown
  <1>1. IInv => ConnectedIsShown
    BY DEF IInv, Shown, Covered, ConnectedIsShown
  <1>2. QED
    BY <1>1, Invariant, PTL
=============================================================================
