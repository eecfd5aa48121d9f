------------------------------ MODULE Presence ------------------------------
(***************************************************************************)
(* Who is online (handlers/webSocket_handler.go).  Each connection has a   *)
(* goroutine; they share the set "clients" under a mutex, a Redis sorted   *)
(* set "online_users" that counts the connections of each user, and one    *)
(* another's sockets, to which every arrival and departure is announced.   *)
(* The WebSocket library panics, and the process ends, when two goroutines *)
(* are inside WriteMessage on one connection.                              *)
(***************************************************************************)
EXTENDS Integers, FiniteSets

CONSTANTS
  Conns,        \* connections
  Users,
  UserOf,       \* UserOf[c]: the userId of the query string
  Talkers,      \* connections whose peer sends messages, which are echoed
  Silent,       \* connections whose peer stays and does not read what is sent to it
  Free,         \* holder of a free mutex; target of a goroutine not writing
  Faults,       \* subset of {"redis"}
  MaxRestarts   \* bound: process exits survived

ASSUME PresenceAssumption ==
  /\ IsFiniteSet(Conns) /\ UserOf \in [Conns -> Users]
  /\ Talkers \subseteq Conns /\ Silent \subseteq Conns
  /\ Free \notin Conns
  /\ MaxRestarts \in Nat

VARIABLES
  up,        \* the process runs
  panicked,  \* connections whose goroutine runs its deferred calls in a panic
  restarts,
  pc,        \* pc[c]: where the goroutine of c is
  clients,   \* the map of connections
  mutex,     \* holder of clientsMutex
  todo,      \* todo[c]: clients the broadcast of c has still to write to
  target,    \* target[c]: the connection c is writing to
  score,     \* score[u] in online_users
  member,    \* users with an entry in online_users
  ghost,     \* ghost[u]: decrements or removals that never happened (history)
  undercut   \* users whose count may be short, or removed under a visitor (history)

redis == <<score, member, ghost, undercut>>
cast  == <<todo, target>>
life  == <<up, restarts, panicked>>
vars  == <<life, pc, clients, mutex, cast, redis>>

Init ==
  /\ up = TRUE
  /\ panicked = {}
  /\ restarts = 0
  /\ pc = [c \in Conns |-> "new"]
  /\ clients = {}
  /\ mutex = Free
  /\ todo = [c \in Conns |-> {}]
  /\ target = [c \in Conns |-> Free]
  /\ score = [u \in Users |-> 0]
  /\ member = {}
  /\ ghost = [u \in Users |-> 0]
  /\ undercut = {}

At(c, p)   == up /\ pc[c] = p
Goto(c, p) == pc' = [pc EXCEPT ![c] = p]
Writers(d) == {c \in Conns : target[c] = d}

\* Connections that have been counted in and not yet out, and those about to remove
\* the entry of their user.
Inside  == {"notify", "cast", "open", "echo", "leave", "left"}
Counted(u)  == {c \in Conns : UserOf[c] = u /\ pc[c] \in Inside /\ (c \in clients \/ pc[c] = "left")}
Removing(u) == {c \in Conns : UserOf[c] = u /\ pc[c] = "remove"}
-----------------------------------------------------------------------------
(* Arrival.                                                                *)

Join(c) ==
  /\ At(c, "new") /\ mutex = Free
  /\ clients' = clients \cup {c}
  /\ Goto(c, "joined")
  /\ UNCHANGED <<life, mutex, cast, redis>>

\* ZINCRBY online_users 1 user.  A removal that is under way will undo it.
Enter(c) ==
  LET u == UserOf[c] IN
  /\ At(c, "joined")
  /\ score' = [score EXCEPT ![u] = @ + 1]
  /\ member' = member \cup {u}
  /\ undercut' = IF Removing(u) # {} THEN undercut \cup {u} ELSE undercut
  /\ Goto(c, "notify")
  /\ UNCHANGED <<life, clients, mutex, cast, ghost>>

EnterFails(c) ==
  /\ At(c, "joined") /\ "redis" \in Faults
  /\ undercut' = undercut \cup {UserOf[c]}
  /\ Goto(c, "notify")
  /\ UNCHANGED <<life, clients, mutex, cast, score, member, ghost>>
-----------------------------------------------------------------------------
(* notifyAllClients: under the mutex, write to each client in turn.        *)

\* Mutant: the broadcast iterates over the map without the mutex.
BroadcastUnlocked(c) ==
  /\ At(c, "notify")
  /\ todo' = [todo EXCEPT ![c] = clients]
  /\ Goto(c, "cast")
  /\ UNCHANGED <<life, clients, mutex, target, redis>>

Broadcast(c) ==
  /\ At(c, "notify") /\ mutex = Free
  /\ mutex' = c
  /\ todo' = [todo EXCEPT ![c] = clients]
  /\ Goto(c, "cast")
  /\ UNCHANGED <<life, clients, target, redis>>

WriteBegin(c, d) ==
  /\ At(c, "cast") /\ target[c] = Free
  /\ d \in todo[c] /\ Writers(d) = {}
  /\ target' = [target EXCEPT ![c] = d]
  /\ UNCHANGED <<life, pc, clients, mutex, todo, redis>>

\* Written, or refused by a broken connection: the error is ignored.
WriteEnd(c) ==
  /\ At(c, "cast") /\ target[c] # Free
  /\ todo' = [todo EXCEPT ![c] = @ \ {target[c]}]
  /\ target' = [target EXCEPT ![c] = Free]
  /\ UNCHANGED <<life, pc, clients, mutex, redis>>

\* Mutant: the deferred Unlock is missing.
BroadcastEndLocked(c) ==
  /\ At(c, "cast") /\ target[c] = Free /\ todo[c] = {}
  /\ Goto(c, IF c \in clients THEN "open" ELSE "close")
  /\ UNCHANGED <<life, clients, mutex, cast, redis>>

BroadcastEnd(c) ==
  /\ At(c, "cast") /\ target[c] = Free /\ todo[c] = {}
  /\ mutex' = Free
  /\ Goto(c, IF c \in clients THEN "open" ELSE "close")
  /\ UNCHANGED <<life, clients, cast, redis>>
-----------------------------------------------------------------------------
(* The read loop.                                                          *)

EchoBegin(c) ==
  /\ At(c, "open") /\ c \in Talkers /\ Writers(c) = {}
  /\ target' = [target EXCEPT ![c] = c]
  /\ Goto(c, "echo")
  /\ UNCHANGED <<life, clients, mutex, todo, redis>>

EchoEnd(c) ==
  /\ At(c, "echo")
  /\ target' = [target EXCEPT ![c] = Free]
  /\ Goto(c, "open")
  /\ UNCHANGED <<life, clients, mutex, todo, redis>>

\* The peer is gone: reading fails, or the echo does.
HangUp(c) ==
  /\ up /\ pc[c] \in {"open", "echo"}
  /\ target' = [target EXCEPT ![c] = Free]
  /\ Goto(c, "leave")
  /\ UNCHANGED <<life, clients, mutex, todo, redis>>

\* WriteMessage on a connection somebody else is writing to.  The echo panics
\* below the deferred departure, which is gone through before the process ends;
\* a broadcast outside or inside of it, and the process ends at once.
PanicEcho(c) ==
  /\ At(c, "open") /\ c \in Talkers /\ Writers(c) # {}
  /\ panicked' = panicked \cup {c}
  /\ Goto(c, "leave")
  /\ UNCHANGED <<up, restarts, clients, mutex, cast, redis>>

PanicCast(c) ==
  /\ At(c, "cast") /\ target[c] = Free /\ \E d \in todo[c] : Writers(d) # {}
  /\ up' = FALSE
  /\ UNCHANGED <<restarts, panicked, pc, clients, mutex, cast, redis>>
-----------------------------------------------------------------------------
(* Departure: the deferred function.                                       *)

Leave(c) ==
  /\ At(c, "leave") /\ mutex = Free
  /\ clients' = clients \ {c}
  /\ Goto(c, "left")
  /\ UNCHANGED <<life, mutex, cast, redis>>

\* Mutant: newScore < 0 instead of newScore <= 0.
DecrementKeepsZero(c) ==
  LET u == UserOf[c] IN
  /\ At(c, "left")
  /\ score' = [score EXCEPT ![u] = @ - 1]
  /\ member' = member \cup {u}
  /\ Goto(c, IF score[u] - 1 < 0 THEN "remove" ELSE "notify")
  /\ UNCHANGED <<life, clients, mutex, cast, ghost, undercut>>

\* Mutant: newScore <= 1 instead of newScore <= 0.
DecrementRemovesLast(c) ==
  LET u == UserOf[c] IN
  /\ At(c, "left")
  /\ score' = [score EXCEPT ![u] = @ - 1]
  /\ member' = member \cup {u}
  /\ Goto(c, IF score[u] - 1 <= 1 THEN "remove" ELSE "notify")
  /\ UNCHANGED <<life, clients, mutex, cast, ghost, undercut>>

\* ZINCRBY online_users -1 user, which creates a missing entry.
Decrement(c) ==
  LET u == UserOf[c] IN
  /\ At(c, "left")
  /\ score' = [score EXCEPT ![u] = @ - 1]
  /\ member' = member \cup {u}
  /\ Goto(c, IF score[u] - 1 <= 0 THEN "remove" ELSE "notify")
  /\ UNCHANGED <<life, clients, mutex, cast, ghost, undercut>>

\* A failed command yields 0, which passes for an empty count.
DecrementFails(c) ==
  /\ At(c, "left") /\ "redis" \in Faults
  /\ ghost' = [ghost EXCEPT ![UserOf[c]] = @ + 1]
  /\ undercut' = undercut \cup {UserOf[c]}
  /\ Goto(c, "remove")
  /\ UNCHANGED <<life, clients, mutex, cast, score, member>>

\* ZREM, whatever has happened to the entry since it was decremented.  With nobody
\* there the count is right again.
Remove(c) ==
  LET u == UserOf[c] IN
  /\ At(c, "remove")
  /\ score' = [score EXCEPT ![u] = 0]
  /\ member' = member \ {u}
  /\ undercut' = IF Counted(u) = {} THEN undercut \ {u} ELSE undercut
  /\ Goto(c, "notify")
  /\ UNCHANGED <<life, clients, mutex, cast, ghost>>

RemoveFails(c) ==
  /\ At(c, "remove") /\ "redis" \in Faults
  /\ ghost' = [ghost EXCEPT ![UserOf[c]] = @ + 1]
  /\ Goto(c, "notify")
  /\ UNCHANGED <<life, clients, mutex, cast, score, member, undercut>>

Close(c) ==
  /\ At(c, "close")
  /\ Goto(c, "closed")
  /\ up' = (c \notin panicked)
  /\ UNCHANGED <<restarts, panicked, clients, mutex, cast, redis>>
-----------------------------------------------------------------------------
\* The process ends, by the panic or from outside; sorted set and scores stay.
Kill ==
  /\ up /\ restarts < MaxRestarts
  /\ up' = FALSE
  /\ UNCHANGED <<restarts, panicked, pc, clients, mutex, cast, redis>>

Restart ==
  /\ ~up /\ restarts < MaxRestarts
  /\ up' = TRUE
  /\ restarts' = restarts + 1
  /\ pc' = [c \in Conns |-> IF pc[c] = "new" THEN "new" ELSE "closed"]
  /\ panicked' = {}
  /\ clients' = {}
  /\ mutex' = Free
  /\ todo' = [c \in Conns |-> {}]
  /\ target' = [c \in Conns |-> Free]
  /\ ghost' = [u \in Users |-> ghost[u] + Cardinality(Counted(u) \cup Removing(u))]
  /\ UNCHANGED <<score, member, undercut>>

Arrive(c)   == Join(c) \/ Enter(c) \/ EnterFails(c)
Announce(c) == Broadcast(c) \/ (\E d \in Conns : WriteBegin(c, d)) \/ WriteEnd(c) \/ BroadcastEnd(c)
Talk(c)     == EchoBegin(c) \/ EchoEnd(c)
Depart(c)   == Leave(c) \/ Decrement(c) \/ DecrementFails(c) \/ Remove(c) \/ RemoveFails(c) \/ Close(c)

Next ==
  \/ \E c \in Conns : Arrive(c) \/ Announce(c) \/ Talk(c) \/ HangUp(c) \/ PanicEcho(c) \/ PanicCast(c) \/ Depart(c)
  \/ Kill \/ Restart

Spec == Init /\ [][Next]_vars

\* A write to a peer that stays and does not read may last for ever: no deadline is
\* set.  One to a peer that is gone fails.
Blocked(d) == d \in Silent /\ (pc[d] # "leave" \/ d \in panicked)

\* Other writes end, and the mutex passes to whoever waits for it long enough; nobody
\* has to connect, talk or hang up.
GoOn(c) ==
  \/ Enter(c) \/ Broadcast(c) \/ (\E d \in Conns : WriteBegin(c, d)) \/ BroadcastEnd(c)
  \/ PanicCast(c) \/ Depart(c)
  \/ ~Blocked(target[c]) /\ (WriteEnd(c) \/ EchoEnd(c))
FairSpec == Spec /\ \A c \in Conns : SF_vars(GoOn(c))
-----------------------------------------------------------------------------
\* A broadcast only ever writes to connections whose goroutine has not begun to
\* leave the map: Close never overtakes a write, and no two broadcasts are at work
\* on the same socket.
WritesStayInside ==
  \A c, d \in Conns :
    target[c] = d /\ c # d =>
      /\ d \in clients
      /\ \A b \in Conns \ {c, d} : target[b] # d

\* A user shown as online has a connection, or a departure that will remove it is
\* under way, or a decrement was lost for good: the races between connections of
\* one user never leave anybody online who is not.
NoGhost ==
  \A u \in member : Counted(u) # {} \/ Removing(u) # {} \/ ghost[u] > 0

\* The other way round, a visitor who is counted in is shown as online: unless a
\* command failed, or, since the entry was last removed with nobody there, one of the
\* user's connections came in between the decrement of another and its removal.
ConnectedIsShown ==
  \A u \in Users \ undercut : Counted(u) # {} => u \in member

\* No departure hangs, unless a broadcast does: in the end every connection whose peer
\* is gone has left the table and was announced and closed, or the process ended, or a
\* write to a peer that does not read holds the mutex, and with it everybody.
Departing(c) ==
  pc[c] \in {"leave", "left", "remove", "close"} \/ (pc[c] \in {"notify", "cast"} /\ c \notin clients)
Stuck == \E c \in Conns : pc[c] = "cast" /\ Blocked(target[c])
HungUpIsClosed == <>[](up => Stuck \/ \A c \in Conns : ~Departing(c))
=============================================================================
