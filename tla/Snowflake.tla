----------------------------- MODULE Snowflake -----------------------------
(***************************************************************************)
(* common/snowflake.go: generator nodes shared by concurrent callers.      *)
(* Generate holds the node's mutex from the first clock reading to the     *)
(* return, spinning on the clock when the steps of a millisecond run out.  *)
(* The epoch carries a monotonic reading, so the clock of a running        *)
(* process never goes back.                                                *)
(*                                                                         *)
(* The rows' keys (common/generate_id.go) come from a generator for every  *)
(* id, always with number 1: as many nodes, each with one caller.          *)
(***************************************************************************)
EXTENDS SnowflakeId, Sequences

CONSTANTS
  Nodes,       \* generators in use
  NodeNumber,  \* NodeNumber[n]: the argument of NewNode
  Callers,     \* goroutines
  NodeOf,      \* NodeOf[c]: the generator that caller c uses
  Nobody,      \* holder of a free mutex
  MaxClock,    \* bound: the clock runs on its own up to here
  MaxCalls     \* bound: calls of each caller

\* NewNode accepts numbers below 1 << NodeBits, the same one twice too.
ASSUME NodeAssumption ==
  /\ NodeNumber \in [Nodes -> 0..(NodeCount - 1)]
  /\ NodeOf \in [Callers -> Nodes]
  /\ Nobody \notin Callers
  /\ MaxClock \in Nat /\ MaxCalls \in Nat

VARIABLES
  clock,   \* milliseconds since the epoch
  mu,      \* mu[n]: who holds the mutex of n
  time,    \* time[n]: millisecond of the last id
  step,    \* step[n]: step of the last id
  pc,      \* pc[c]: where caller c is
  now,     \* now[c]: its reading of the clock
  calls,   \* calls[c]: calls made
  issued   \* the ids returned so far, in order, as what they are made of

\* What a user of several generators has to see to (GenerateID does not).
NumbersApart == \A m, n \in Nodes : NodeNumber[m] = NodeNumber[n] => m = n

node == <<mu, time, step>>
vars == <<clock, node, pc, now, calls, issued>>

IdOf(e) == Pack(e.time, NodeNumber[e.node], e.step)

Init ==
  /\ clock = 1
  /\ mu = [n \in Nodes |-> Nobody]
  /\ time = [n \in Nodes |-> 0]
  /\ step = [n \in Nodes |-> 0]
  /\ pc = [c \in Callers |-> "idle"]
  /\ now = [c \in Callers |-> 0]
  /\ calls = [c \in Callers |-> 0]
  /\ issued = << >>

Call(c) ==
  /\ pc[c] = "idle" /\ calls[c] < MaxCalls
  /\ calls' = [calls EXCEPT ![c] = @ + 1]
  /\ pc' = [pc EXCEPT ![c] = "wait"]
  /\ UNCHANGED <<clock, node, now, issued>>

\* Mutant: Generate does not take the mutex.
LockNot(c) ==
  /\ pc[c] = "wait"
  /\ mu' = [mu EXCEPT ![NodeOf[c]] = c]
  /\ pc' = [pc EXCEPT ![c] = "locked"]
  /\ UNCHANGED <<clock, time, step, now, calls, issued>>

Lock(c) ==
  /\ pc[c] = "wait" /\ mu[NodeOf[c]] = Nobody
  /\ mu' = [mu EXCEPT ![NodeOf[c]] = c]
  /\ pc' = [pc EXCEPT ![c] = "locked"]
  /\ UNCHANGED <<clock, time, step, now, calls, issued>>

\* The first reading falls into a new millisecond: steps start over.
SampleFresh(c) ==
  /\ pc[c] = "locked" /\ clock # time[NodeOf[c]]
  /\ now' = [now EXCEPT ![c] = clock]
  /\ step' = [step EXCEPT ![NodeOf[c]] = 0]
  /\ pc' = [pc EXCEPT ![c] = "commit"]
  /\ UNCHANGED <<clock, mu, time, calls, issued>>

\* It falls into the millisecond of the last id: next step, or, when the steps
\* wrap around, wait for the clock.
SampleSame(c) ==
  /\ pc[c] = "locked" /\ clock = time[NodeOf[c]]
  /\ now' = [now EXCEPT ![c] = clock]
  /\ step' = [step EXCEPT ![NodeOf[c]] = NextStep(@)]
  /\ pc' = [pc EXCEPT ![c] = IF NextStep(step[NodeOf[c]]) = 0 THEN "spin" ELSE "commit"]
  /\ UNCHANGED <<clock, mu, time, calls, issued>>

\* Mutant: the loop condition is now < n.time.
SpinShort(c) ==
  /\ pc[c] = "spin"
  /\ now' = [now EXCEPT ![c] = clock]
  /\ pc' = [pc EXCEPT ![c] = IF clock < time[NodeOf[c]] THEN "spin" ELSE "commit"]
  /\ UNCHANGED <<clock, node, calls, issued>>

Spin(c) ==
  /\ pc[c] = "spin"
  /\ now' = [now EXCEPT ![c] = clock]
  /\ pc' = [pc EXCEPT ![c] = IF clock <= time[NodeOf[c]] THEN "spin" ELSE "commit"]
  /\ UNCHANGED <<clock, node, calls, issued>>

\* Mutant: a return that leaves the mutex locked.
CommitLocked(c) ==
  /\ pc[c] = "commit"
  /\ time' = [time EXCEPT ![NodeOf[c]] = now[c]]
  /\ issued' = Append(issued, [node |-> NodeOf[c], time |-> now[c], step |-> step[NodeOf[c]]])
  /\ pc' = [pc EXCEPT ![c] = "idle"]
  /\ UNCHANGED <<clock, mu, step, now, calls>>

\* Record the time, return the id, unlock.
Commit(c) ==
  /\ pc[c] = "commit"
  /\ time' = [time EXCEPT ![NodeOf[c]] = now[c]]
  /\ issued' = Append(issued, [node |-> NodeOf[c], time |-> now[c], step |-> step[NodeOf[c]]])
  /\ mu' = [mu EXCEPT ![NodeOf[c]] = Nobody]
  /\ pc' = [pc EXCEPT ![c] = "idle"]
  /\ UNCHANGED <<clock, step, now, calls>>

\* Time passes.  Past the bound it does so only for a caller that waits for it.
Tick ==
  /\ clock < MaxClock \/ \E c \in Callers : pc[c] = "spin" /\ clock <= time[NodeOf[c]]
  /\ clock' = clock + 1
  /\ UNCHANGED <<node, pc, now, calls, issued>>

Proceed(c) == SampleFresh(c) \/ SampleSame(c) \/ Spin(c) \/ Commit(c)

Next ==
  \/ \E c \in Callers : Call(c) \/ Lock(c) \/ Proceed(c)
  \/ Tick

Spec == Init /\ [][Next]_vars

\* Go's mutex hands itself to a starving waiter, hence strong fairness of Lock.
FairSpec ==
  /\ Spec
  /\ WF_vars(Tick)
  /\ \A c \in Callers : SF_vars(Lock(c)) /\ WF_vars(Proceed(c))
-----------------------------------------------------------------------------
\* Types; the step always fits its field.
TypeOK ==
  /\ clock \in Nat \ {0}
  /\ mu \in [Nodes -> Callers \cup {Nobody}]
  /\ time \in [Nodes -> Nat]
  /\ step \in [Nodes -> 0..(StepCount - 1)]
  /\ pc \in [Callers -> {"idle", "wait", "locked", "spin", "commit"}]
  /\ now \in [Callers -> Nat]
  /\ calls \in [Callers -> Nat]
  /\ issued \in Seq([node : Nodes, time : Nat, step : 0..(StepCount - 1)])

\* Generate "creates and returns a unique snowflake ID": no two calls, on the
\* same generator or on two of them, are given the same id.
UniqueIds ==
  \A i, j \in 1..Len(issued) : i # j => IdOf(issued[i]) # IdOf(issued[j])

\* Ids of one generator grow in the order in which the calls return, so that
\* First, which orders by primary key, finds the oldest row.
IncreasingIds ==
  \A i, j \in 1..Len(issued) :
    i < j /\ issued[i].node = issued[j].node => IdOf(issued[i]) < IdOf(issued[j])

\* Where each caller stands and who holds its generator's mutex agree.
Holding(c) == pc[c] \in {"locked", "spin", "commit"}
MutexHeld ==
  /\ \A c \in Callers : Holding(c) <=> mu[NodeOf[c]] = c
  /\ \A n \in Nodes : mu[n] # Nobody => NodeOf[mu[n]] = n

\* The id that a generator is about to return is above all those it has returned,
\* also while a caller waits for the next millisecond with the step reset.
Below(n, id) == \A i \in 1..Len(issued) : issued[i].node = n => IdOf(issued[i]) < id
AboveAt(n, c) ==
  LET num == NodeNumber[n]
  IN  /\ time[n] <= clock
      /\ c = Nobody \/ pc[c] = "locked" => Below(n, Pack(time[n], num, step[n]) + 1)
      /\ c # Nobody /\ pc[c] = "spin" =>
           step[n] = 0 /\ Below(n, Pack(time[n] + 1, num, 0))
      /\ c # Nobody /\ pc[c] = "commit" =>
           now[c] <= clock /\ Below(n, Pack(now[c], num, step[n]))
NextAbove == \A n \in Nodes : AboveAt(n, mu[n])

\* A caller that exhausts the steps of a millisecond, or waits behind one that
\* did, still gets its id.
EveryCallReturns == \A c \in Callers : pc[c] = "wait" ~> pc[c] = "idle"

\* The generators together are an id source.
CONSTANT Ids
Source == INSTANCE IdSource WITH given <- [i \in 1..Len(issued) |-> IdOf(issued[i])]
ImplementsIdSource == Source!Spec
=============================================================================
