-------------------------- MODULE SnowflakeProofs --------------------------
(* Proofs about Snowflake, for any number of generators and callers and    *)
(* any field widths.                                                       *)
EXTENDS Snowflake, TLAPS

USE DEF node
-----------------------------------------------------------------------------
(* The layout: a larger time gives a larger id, and ids of different node  *)
(* numbers differ.  Both rest on k * StepCount growing by StepCount.       *)

LEMMA Gap ==
  ASSUME NEW w \in Nat, NEW a \in Nat, NEW b \in Nat, a < b
  PROVE  a * w + w <= b * w
  <1>1. PICK d \in Nat : b = a + 1 + d
    <2> WITNESS b - a - 1 \in Nat
    <2> QED OBVIOUS
  <1>2. b * w = a * w + w + d * w
    BY <1>1
  <1>3. d * w \in Nat
    OBVIOUS
  <1>4. QED
    BY <1>2, <1>3

LEMMA FieldsSeparate ==
  ASSUME NEW w \in Nat, NEW a \in Nat, NEW b \in Nat, NEW i \in Nat, NEW j \in Nat,
         i < w, j < w, a * w + i = b * w + j
  PROVE  a = b
  <1>1. CASE a < b
    BY <1>1, Gap
  <1>2. CASE b < a
    BY <1>2, Gap
  <1>3. QED
    BY <1>1, <1>2

LEMMA PackType ==
  ASSUME NEW t \in Nat, NEW n \in Nat, NEW s \in Nat
  PROVE  Pack(t, n, s) \in Nat
  BY LayoutAssumption DEF LayoutAssumption, Pack

LEMMA PackSeparates ==
  ASSUME NEW t \in Nat, NEW u \in Nat, NEW m \in 0..(NodeCount - 1), NEW n \in 0..(NodeCount - 1),
         NEW i \in 0..(StepCount - 1), NEW j \in 0..(StepCount - 1), Pack(t, m, i) = Pack(u, n, j)
  PROVE  m = n
  <1> USE LayoutAssumption DEF LayoutAssumption
  <1> DEFINE x == t * NodeCount + m
             y == u * NodeCount + n
  <1>1. x \in Nat /\ y \in Nat
    OBVIOUS
  <1>2. x * StepCount + i = y * StepCount + j
    BY DEF Pack
  <1>3. x = y
    <2> HIDE DEF x, y
    <2> QED
      BY <1>1, <1>2, FieldsSeparate
  <1>4. t = u
    BY <1>3, FieldsSeparate
  <1>5. QED
    BY <1>3, <1>4

\* The last id of a millisecond lies below the first of any later one.
LEMMA PackLater ==
  ASSUME NEW t \in Nat, NEW u \in Nat, t < u, NEW n \in 0..(NodeCount - 1),
         NEW i \in 0..(StepCount - 1), NEW j \in 0..(StepCount - 1)
  PROVE  Pack(t, n, i) < Pack(u, n, j)
  <1> USE LayoutAssumption DEF LayoutAssumption
  <1> DEFINE x == t * NodeCount + n
             y == u * NodeCount + n
  <1>1. x \in Nat /\ y \in Nat
    OBVIOUS
  <1>2. x < y
    BY Gap
  <1>3. x * StepCount + StepCount <= y * StepCount
    <2> HIDE DEF x, y
    <2> QED
      BY <1>1, <1>2, Gap
  <1>4. Pack(t, n, i) = x * StepCount + i /\ Pack(u, n, j) = y * StepCount + j
    BY DEF Pack
  <1>5. x * StepCount \in Nat /\ y * StepCount \in Nat
    <2> HIDE DEF x, y
    <2> QED
      BY <1>1
  <1>6. QED
    <2> HIDE DEF x, y
    <2> QED
      BY <1>3, <1>4, <1>5

\* The same for the first id of a millisecond.
LEMMA PackFirst ==
  ASSUME NEW t \in Nat, NEW u \in Nat, NEW n \in 0..(NodeCount - 1), NEW i \in 0..(StepCount - 1)
  PROVE  /\ Pack(t, n, i) \in Nat
         /\ Pack(u, n, 0) \in Nat
         /\ t < u => Pack(t, n, i) < Pack(u, n, 0)
  <1> PICK j \in 0..(StepCount - 1) : j = 0
    BY LayoutAssumption DEF LayoutAssumption
  <1>1. n \in Nat /\ i \in Nat /\ j \in Nat
    BY LayoutAssumption DEF LayoutAssumption
  <1>2. Pack(t, n, i) \in Nat /\ Pack(u, n, j) \in Nat
    BY <1>1, PackType
  <1>3. t < u => Pack(t, n, i) < Pack(u, n, j)
    BY PackLater
  <1>4. QED
    BY <1>2, <1>3
-----------------------------------------------------------------------------
(* Type correctness.                                                       *)

LEMMA InitTypeOK == Init => TypeOK
  BY LayoutAssumption, NodeAssumption DEF Init, TypeOK, LayoutAssumption, NodeAssumption

LEMMA NextStepType ==
  ASSUME NEW s \in 0..(StepCount - 1)
  PROVE  NextStep(s) \in 0..(StepCount - 1)
  BY LayoutAssumption DEF NextStep, LayoutAssumption

LEMMA TypeStep == TypeOK /\ [Next]_vars => TypeOK'
  <1> SUFFICES ASSUME TypeOK, [Next]_vars PROVE TypeOK'
    OBVIOUS
  <1> USE LayoutAssumption, NodeAssumption DEF TypeOK, LayoutAssumption, NodeAssumption
  <1>1. ASSUME NEW c \in Callers, Call(c) PROVE TypeOK'
    BY <1>1 DEF Call
  <1>2. ASSUME NEW c \in Callers, Lock(c) PROVE TypeOK'
    BY <1>2 DEF Lock
  <1>3. ASSUME NEW c \in Callers, SampleFresh(c) PROVE TypeOK'
    BY <1>3 DEF SampleFresh
  <1>4. ASSUME NEW c \in Callers, SampleSame(c) PROVE TypeOK'
    <2>1. NextStep(step[NodeOf[c]]) \in 0..(StepCount - 1)
      BY NextStepType
    <2>2. QED
      BY <1>4, <2>1 DEF SampleSame
  <1>5. ASSUME NEW c \in Callers, Spin(c) PROVE TypeOK'
    BY <1>5 DEF Spin
  <1>6. ASSUME NEW c \in Callers, Commit(c) PROVE TypeOK'
    BY <1>6 DEF Commit
  <1>7. CASE Tick
    BY <1>7 DEF Tick
  <1>8. CASE UNCHANGED vars
    BY <1>8 DEF vars
  <1>9. QED
    BY <1>1, <1>2, <1>3, <1>4, <1>5, <1>6, <1>7, <1>8 DEF Next, Proceed
-----------------------------------------------------------------------------
(* Mutual exclusion.                                                       *)

LEMMA MutexStep == TypeOK /\ MutexHeld /\ [Next]_vars => MutexHeld'
  <1> SUFFICES ASSUME TypeOK, MutexHeld, [Next]_vars PROVE MutexHeld'
    OBVIOUS
  <1> USE NodeAssumption DEF TypeOK, NodeAssumption, MutexHeld, Holding
  <1>1. ASSUME NEW c \in Callers, Call(c) PROVE MutexHeld'
    BY <1>1 DEF Call
  <1>2. ASSUME NEW c \in Callers, Lock(c) PROVE MutexHeld'
    BY <1>2 DEF Lock
  <1>3. ASSUME NEW c \in Callers, SampleFresh(c) PROVE MutexHeld'
    BY <1>3 DEF SampleFresh
  <1>4. ASSUME NEW c \in Callers, SampleSame(c) PROVE MutexHeld'
    BY <1>4 DEF SampleSame
  <1>5. ASSUME NEW c \in Callers, Spin(c) PROVE MutexHeld'
    BY <1>5 DEF Spin
  <1>6. ASSUME NEW c \in Callers, Commit(c) PROVE MutexHeld'
    BY <1>6 DEF Commit
  <1>7. CASE Tick
    BY <1>7 DEF Tick
  <1>8. CASE UNCHANGED vars
    BY <1>8 DEF vars
  <1>9. QED
    BY <1>1, <1>2, <1>3, <1>4, <1>5, <1>6, <1>7, <1>8 DEF Next, Proceed
-----------------------------------------------------------------------------
(* The generator stays above the ids it has returned.                      *)

\* The ids are numbers, so a bound may be raised.
LEMMA IssuedType ==
  ASSUME TypeOK, NEW i \in 1..Len(issued)
  PROVE  /\ issued[i] \in [node : Nodes, time : Nat, step : 0..(StepCount - 1)]
         /\ IdOf(issued[i]) \in Nat
  <1> DEFINE Parts == [node : Nodes, time : Nat, step : 0..(StepCount - 1)]
  <1>1. issued[i] \in Parts
    <2>1. issued \in Seq(Parts)
      BY DEF TypeOK
    <2> HIDE DEF Parts
    <2> QED
      BY <2>1
  <1>2. issued[i].time \in Nat /\ NodeNumber[issued[i].node] \in Nat /\ issued[i].step \in Nat
    BY <1>1, NodeAssumption, LayoutAssumption DEF NodeAssumption, LayoutAssumption
  <1>3. QED
    BY <1>1, <1>2, PackType DEF IdOf

LEMMA BelowMore ==
  ASSUME TypeOK, NEW n \in Nodes, NEW a \in Nat, NEW b \in Nat, Below(n, a), a <= b
  PROVE  Below(n, b)
  BY IssuedType DEF Below

\* What is below a bound after a step, with the prime pushed to the state.
BelowNext(n, id) ==
  \A i \in 1..Len(issued') : issued'[i].node = n => IdOf(issued'[i]) < id

\* A step that touches neither generator n nor the caller that holds it.
LEMMA AboveFrame ==
  ASSUME TypeOK, TypeOK', NEW n \in Nodes, AboveAt(n, mu[n]),
         mu'[n] = mu[n], time'[n] = time[n], step'[n] = step[n], clock' \in {clock, clock + 1},
         mu[n] # Nobody => pc'[mu[n]] = pc[mu[n]] /\ now'[mu[n]] = now[mu[n]],
         \A id : Below(n, id) => BelowNext(n, id)
  PROVE  AboveAt(n, mu[n])'
  <1> PICK c \in Callers \cup {Nobody} : mu[n] = c
    BY DEF TypeOK
  <1>1. time[n] <= clock' /\ time'[n] \in Nat
    BY DEF AboveAt, TypeOK
  <1>2. c = Nobody \/ pc'[c] = "locked" =>
          BelowNext(n, Pack(time'[n], NodeNumber[n], step'[n]) + 1)
    BY DEF AboveAt
  <1>3. c # Nobody /\ pc'[c] = "spin" =>
          step'[n] = 0 /\ BelowNext(n, Pack(time'[n] + 1, NodeNumber[n], 0))
    BY DEF AboveAt
  <1>4. c # Nobody /\ pc'[c] = "commit" =>
          now'[c] <= clock' /\ BelowNext(n, Pack(now'[c], NodeNumber[n], step'[n]))
    <2>1. c # Nobody => now[c] \in Nat /\ clock \in Nat
      BY DEF TypeOK
    <2>2. QED
      BY <2>1 DEF AboveAt
  <1>5. mu'[n] = c
    OBVIOUS
  <1>6. QED
    BY <1>1, <1>2, <1>3, <1>4, <1>5 DEF AboveAt, Below, BelowNext

\* What AboveAt asks of a caller about to return an id.
LEMMA AboveCommit ==
  ASSUME NEW n \in Nodes, NEW c \in Callers, c # Nobody, pc'[c] = "commit", time'[n] <= clock',
         now'[c] <= clock', BelowNext(n, Pack(now'[c], NodeNumber[n], step'[n]))
  PROVE  AboveAt(n, c)'
  BY DEF AboveAt, Below, BelowNext

\* A caller inside Generate takes its step while it holds its generator.
LEMMA AboveUnderway ==
  ASSUME TypeOK, MutexHeld, TypeOK', NextAbove, NEW c \in Callers, Holding(c),
         SampleFresh(c) \/ SampleSame(c) \/ Spin(c)
  PROVE  AboveAt(NodeOf[c], c)'
  <1> PICK n \in Nodes : n = NodeOf[c]
    BY NodeAssumption DEF NodeAssumption
  <1> DEFINE num == NodeNumber[n]
  <1>1. /\ num \in 0..(NodeCount - 1) /\ num \in Nat
        /\ StepCount \in Nat \ {0} /\ c # Nobody
    BY NodeAssumption, LayoutAssumption DEF NodeAssumption, LayoutAssumption
  <1>2. mu[n] = c /\ AboveAt(n, c)
    BY DEF MutexHeld, NextAbove
  <1>3. /\ time[n] \in Nat /\ clock \in Nat /\ time[n] <= clock
        /\ step[n] \in 0..(StepCount - 1) /\ 0 \in 0..(StepCount - 1)
    BY <1>1, <1>2 DEF TypeOK, AboveAt
  <1>4. issued' = issued /\ clock' = clock /\ time' = time
    BY DEF SampleFresh, SampleSame, Spin
  <1>5. \A id : Below(n, id) => BelowNext(n, id)
    BY <1>4 DEF Below, BelowNext
  <1>0. \A t \in Nat : \A u \in Nat : \A i \in 0..(StepCount - 1) :
          /\ Pack(t, num, i) \in Nat
          /\ Pack(u, num, 0) \in Nat
          /\ t < u => Pack(t, num, i) < Pack(u, num, 0)
    BY <1>1, PackFirst
  <1>6. CASE SampleFresh(c)
    <2>1. Below(n, Pack(time[n], num, step[n]) + 1)
      BY <1>2, <1>6 DEF AboveAt, SampleFresh
    <2>2. time[n] < clock /\ Pack(time[n], num, step[n]) < Pack(clock, num, 0)
      <3>1. time[n] < clock
        BY <1>3, <1>6 DEF SampleFresh
      <3>2. QED
        BY <1>0, <1>3, <3>1
    <2>3. Pack(time[n], num, step[n]) \in Nat /\ Pack(clock, num, 0) \in Nat
      BY <1>0, <1>3
    <2>4. Below(n, Pack(clock, num, 0))
      <3>1. Pack(time[n], num, step[n]) + 1 <= Pack(clock, num, 0)
        BY <2>2, <2>3
      <3>2. QED
        BY <2>1, <2>3, <3>1, BelowMore
    <2>5. pc'[c] = "commit" /\ now'[c] = clock /\ step'[n] = 0
      BY <1>6 DEF SampleFresh, TypeOK
    <2>6. BelowNext(n, Pack(now'[c], num, step'[n]))
      BY <1>5, <2>4, <2>5
    <2>7. QED
      BY <1>1, <1>3, <1>4, <2>5, <2>6, AboveCommit
  <1>7. CASE SampleSame(c)
    <2>1. Below(n, Pack(time[n], num, step[n]) + 1) /\ clock = time[n]
      BY <1>2, <1>7 DEF AboveAt, SampleSame
    <2>2. now'[c] = time[n] /\ step'[n] = NextStep(step[n])
      BY <1>7, <2>1 DEF SampleSame, TypeOK
    <2>3. CASE NextStep(step[n]) = 0
      <3>1. pc'[c] = "spin"
        BY <1>7, <2>3 DEF SampleSame, TypeOK
      <3>2. Pack(time[n], num, step[n]) < Pack(time[n] + 1, num, 0)
        BY <1>0, <1>3
      <3>3. Pack(time[n], num, step[n]) \in Nat /\ Pack(time[n] + 1, num, 0) \in Nat
        BY <1>0, <1>3
      <3>4. Pack(time[n], num, step[n]) + 1 <= Pack(time[n] + 1, num, 0)
        BY <3>2, <3>3
      <3>5. Below(n, Pack(time[n] + 1, num, 0))
        BY <2>1, <3>3, <3>4, BelowMore
      <3>6. BelowNext(n, Pack(time'[n] + 1, num, 0))
        BY <1>4, <1>5, <3>5
      <3>7. QED
        BY <1>1, <1>3, <1>4, <2>2, <2>3, <3>1, <3>6 DEF AboveAt, Below, BelowNext
    <2>4. CASE NextStep(step[n]) # 0
      <3>1. pc'[c] = "commit"
        BY <1>7, <2>4 DEF SampleSame, TypeOK
      <3>2. NextStep(step[n]) = step[n] + 1
        <4>1. step[n] + 1 \in 1..StepCount
          BY <1>1, <1>3
        <4>2. step[n] + 1 = StepCount => NextStep(step[n]) = 0
          BY <1>1 DEF NextStep
        <4>3. step[n] + 1 \in 1..(StepCount - 1) => NextStep(step[n]) = step[n] + 1
          BY <1>1 DEF NextStep
        <4>4. QED
          BY <1>1, <2>4, <4>1, <4>2, <4>3
      <3>3. Pack(time[n], num, step[n] + 1) = Pack(time[n], num, step[n]) + 1
        <4>1. (time[n] * NodeCount + num) * StepCount \in Int
          BY <1>1, <1>3, LayoutAssumption DEF LayoutAssumption
        <4>2. QED
          BY <1>3, <4>1 DEF Pack
      <3>4. BelowNext(n, Pack(now'[c], num, step'[n]))
        BY <1>5, <2>1, <2>2, <3>2, <3>3
      <3>5. QED
        BY <1>1, <1>3, <1>4, <2>1, <2>2, <3>1, <3>4, AboveCommit
    <2>5. QED
      BY <2>3, <2>4
  <1>8. CASE Spin(c)
    <2>1. step[n] = 0 /\ Below(n, Pack(time[n] + 1, num, 0))
      BY <1>1, <1>2, <1>8 DEF AboveAt, Spin
    <2>2. now'[c] = clock /\ step' = step
      BY <1>8 DEF Spin, TypeOK
    <2>3. CASE clock <= time[n]
      <3>1. pc'[c] = "spin"
        BY <1>8, <2>3 DEF Spin, TypeOK
      <3>2. BelowNext(n, Pack(time'[n] + 1, num, 0))
        BY <1>4, <1>5, <2>1
      <3>3. QED
        BY <1>1, <1>3, <1>4, <2>1, <2>2, <3>1, <3>2 DEF AboveAt, Below, BelowNext
    <2>4. CASE ~(clock <= time[n])
      <3>1. pc'[c] = "commit"
        BY <1>8, <2>4 DEF Spin, TypeOK
      <3>2. Pack(time[n] + 1, num, 0) \in Nat /\ Pack(clock, num, 0) \in Nat
        BY <1>0, <1>3
      <3>3. time[n] + 1 \in Nat /\ (time[n] + 1 < clock \/ time[n] + 1 = clock)
        BY <1>3, <2>4
      <3>4. Pack(time[n] + 1, num, 0) <= Pack(clock, num, 0)
        BY <1>0, <1>3, <3>2, <3>3
      <3>5. Below(n, Pack(clock, num, 0))
        BY <2>1, <3>2, <3>4, BelowMore
      <3>6. BelowNext(n, Pack(now'[c], num, step'[n]))
        BY <1>5, <2>1, <2>2, <3>5
      <3>7. QED
        BY <1>1, <1>3, <1>4, <2>1, <2>2, <3>1, <3>6, AboveCommit
    <2>5. QED
      BY <2>3, <2>4
  <1>9. QED
    BY <1>6, <1>7, <1>8

\* A caller leaves the generators it does not hold alone.
LEMMA AboveOthers ==
  ASSUME TypeOK, MutexHeld, NextAbove, TypeOK', NEW c \in Callers, NEW n \in Nodes, mu[n] # c,
         Call(c) \/ (NodeOf[c] # n /\ (Lock(c) \/ Proceed(c)))
  PROVE  AboveAt(n, mu[n])'
  <1> USE DEF Proceed
  <1>1. mu'[n] = mu[n] /\ time'[n] = time[n] /\ step'[n] = step[n]
    BY NodeAssumption DEF Call, Lock, SampleFresh, SampleSame, Spin, Commit, TypeOK, NodeAssumption
  <1>2. clock' = clock /\ (mu[n] # Nobody => mu[n] \in Callers)
    BY DEF Call, Lock, SampleFresh, SampleSame, Spin, Commit, TypeOK
  <1>3. mu[n] # Nobody => pc'[mu[n]] = pc[mu[n]] /\ now'[mu[n]] = now[mu[n]]
    BY <1>2 DEF Call, Lock, SampleFresh, SampleSame, Spin, Commit, TypeOK
  <1>4. \A id : Below(n, id) => BelowNext(n, id)
    <2>1. CASE Commit(c) /\ NodeOf[c] # n
      <3> DEFINE e == [node |-> NodeOf[c], time |-> now[c], step |-> step[NodeOf[c]]]
      <3>1. issued' = Append(issued, e) /\ e.node # n
        BY <2>1 DEF Commit
      <3>2. \A i \in 1..Len(issued') : (i \in 1..Len(issued) /\ issued'[i] = issued[i]) \/ issued'[i] = e
        <4> DEFINE Parts == [node : Nodes, time : Nat, step : 0..(StepCount - 1)]
        <4>1. issued \in Seq(Parts) /\ e \in Parts
          BY NodeAssumption DEF TypeOK, NodeAssumption
        <4> HIDE DEF Parts, e
        <4>2. QED
          BY <3>1, <4>1
      <3> HIDE DEF e
      <3>3. QED
        BY <3>1, <3>2 DEF Below, BelowNext
    <2>2. CASE issued' = issued
      BY <2>2 DEF Below, BelowNext
    <2>3. QED
      BY <2>1, <2>2 DEF Call, Lock, SampleFresh, SampleSame, Spin
  <1>5. AboveAt(n, mu[n])
    BY DEF NextAbove
  <1>6. QED
    BY <1>1, <1>2, <1>3, <1>4, <1>5, AboveFrame

\* What an element of the ids is after one more is returned.
LEMMA IssueOne ==
  ASSUME TypeOK, NEW c \in Callers, Commit(c)
  PROVE  LET e == [node |-> NodeOf[c], time |-> now[c], step |-> step[NodeOf[c]]]
         IN  /\ e \in [node : Nodes, time : Nat, step : 0..(StepCount - 1)]
             /\ Len(issued') = Len(issued) + 1 /\ Len(issued) \in Nat
             /\ issued'[Len(issued) + 1] = e
             /\ \A i \in 1..Len(issued) : issued'[i] = issued[i]
             /\ IdOf(e) = Pack(now[c], NodeNumber[NodeOf[c]], step[NodeOf[c]])
             /\ IdOf(e) \in Nat
  <1> DEFINE e == [node |-> NodeOf[c], time |-> now[c], step |-> step[NodeOf[c]]]
             Parts == [node : Nodes, time : Nat, step : 0..(StepCount - 1)]
  <1>1. issued \in Seq(Parts) /\ e \in Parts
    BY NodeAssumption DEF TypeOK, NodeAssumption
  <1>2. IdOf(e) = Pack(now[c], NodeNumber[NodeOf[c]], step[NodeOf[c]])
    BY DEF IdOf
  <1>3. now[c] \in Nat /\ NodeNumber[NodeOf[c]] \in Nat /\ step[NodeOf[c]] \in Nat
    BY NodeAssumption, LayoutAssumption DEF TypeOK, NodeAssumption, LayoutAssumption
  <1>4. IdOf(e) \in Nat
    BY <1>2, <1>3, PackType
  <1>5. issued' = Append(issued, e)
    BY DEF Commit
  <1>6. /\ Len(issued') = Len(issued) + 1 /\ Len(issued) \in Nat
        /\ issued'[Len(issued) + 1] = e
        /\ \A i \in 1..Len(issued) : issued'[i] = issued[i]
    <2> HIDE DEF Parts, e
    <2> QED
      BY <1>1, <1>5
  <1>7. QED
    BY <1>1, <1>2, <1>4, <1>6

LEMMA AboveReturn ==
  ASSUME TypeOK, MutexHeld, NextAbove, TypeOK', NEW c \in Callers, Commit(c)
  PROVE  AboveAt(NodeOf[c], Nobody)'
  <1> PICK n \in Nodes : n = NodeOf[c]
    BY NodeAssumption DEF NodeAssumption
  <1> DEFINE id == Pack(now[c], NodeNumber[n], step[n])
             e == [node |-> NodeOf[c], time |-> now[c], step |-> step[NodeOf[c]]]
  <1>1. mu[n] = c /\ c # Nobody
    BY NodeAssumption DEF Commit, MutexHeld, Holding, NodeAssumption
  <1>2. now[c] <= clock /\ Below(n, id)
    BY <1>1 DEF NextAbove, AboveAt, Commit
  <1>3. time'[n] = now[c] /\ step' = step /\ clock' = clock
    BY DEF Commit, TypeOK
  <1>4. /\ IdOf(e) = id /\ id \in Nat
        /\ Len(issued') = Len(issued) + 1 /\ Len(issued) \in Nat
        /\ issued'[Len(issued) + 1] = e
        /\ \A i \in 1..Len(issued) : issued'[i] = issued[i]
    BY IssueOne
  <1>5. \A i \in 1..Len(issued) : IdOf(issued[i]) \in Nat
    BY IssuedType
  <1>6. BelowNext(n, id + 1)
    <2> HIDE DEF id, e
    <2> SUFFICES ASSUME NEW i \in 1..Len(issued'), issued'[i].node = n
                 PROVE  IdOf(issued'[i]) < id + 1
      BY DEF BelowNext
    <2>1. CASE i \in 1..Len(issued)
      BY <1>2, <1>4, <1>5, <2>1 DEF Below
    <2>2. CASE i = Len(issued) + 1
      BY <1>4, <2>2
    <2>3. QED
      BY <1>4, <2>1, <2>2
  <1>7. BelowNext(n, Pack(time'[n], NodeNumber[n], step'[n]) + 1)
    BY <1>3, <1>6
  <1>8. QED
    BY <1>2, <1>3, <1>7 DEF AboveAt, Below, BelowNext

LEMMA AboveStep ==
  ASSUME TypeOK, MutexHeld, NextAbove, [Next]_vars
  PROVE  NextAbove'
  <1>0. TypeOK' /\ MutexHeld'
    BY TypeStep, MutexStep
  <1> SUFFICES ASSUME NEW n \in Nodes PROVE AboveAt(n, mu[n])'
    BY DEF NextAbove
  <1>1. ASSUME NEW c \in Callers, Call(c) PROVE AboveAt(n, mu[n])'
    <2>1. mu[n] # c
      BY <1>1, NodeAssumption DEF Call, MutexHeld, Holding, NodeAssumption
    <2>2. QED
      BY <1>0, <1>1, <2>1, AboveOthers
  <1>2. ASSUME NEW c \in Callers, Lock(c) \/ Proceed(c), NodeOf[c] # n PROVE AboveAt(n, mu[n])'
    <2>1. mu[n] # c
      BY <1>2, NodeAssumption DEF MutexHeld, NodeAssumption
    <2>2. QED
      BY <1>0, <1>2, <2>1, AboveOthers
  <1>3. ASSUME NEW c \in Callers, Lock(c), NodeOf[c] = n PROVE AboveAt(n, mu[n])'
    <2>1. AboveAt(n, Nobody) /\ c # Nobody
      BY <1>3, NodeAssumption DEF Lock, NextAbove, NodeAssumption
    <2>2. /\ mu'[n] = c /\ pc'[c] = "locked"
          /\ clock' = clock /\ time' = time /\ step' = step /\ issued' = issued
      BY <1>3 DEF Lock, TypeOK
    <2>3. AboveAt(n, c)'
      BY <2>1, <2>2 DEF AboveAt, Below
    <2>4. QED
      BY <2>2, <2>3
  <1>4. ASSUME NEW c \in Callers, SampleFresh(c) \/ SampleSame(c) \/ Spin(c), NodeOf[c] = n
        PROVE  AboveAt(n, mu[n])'
    <2>1. Holding(c)
      BY <1>4 DEF Holding, SampleFresh, SampleSame, Spin
    <2>2. mu'[n] = c
      BY <1>4, <2>1 DEF MutexHeld, SampleFresh, SampleSame, Spin
    <2>3. AboveAt(n, c)'
      BY <1>0, <1>4, <2>1, AboveUnderway
    <2>4. QED
      BY <2>2, <2>3
  <1>5. ASSUME NEW c \in Callers, Commit(c), NodeOf[c] = n PROVE AboveAt(n, mu[n])'
    <2>1. mu'[n] = Nobody
      BY <1>5 DEF Commit, TypeOK
    <2>2. AboveAt(n, Nobody)'
      BY <1>0, <1>5, AboveReturn
    <2>3. QED
      BY <2>1, <2>2
  <1>6. CASE Tick
    <2>1. clock' = clock + 1 /\ UNCHANGED <<node, pc, now, issued>>
      BY <1>6 DEF Tick
    <2>2. AboveAt(n, mu[n])
      BY DEF NextAbove
    <2>3. \A id : Below(n, id) => BelowNext(n, id)
      BY <2>1 DEF Below, BelowNext
    <2>4. QED
      BY <1>0, <2>1, <2>2, <2>3, AboveFrame
  <1>7. CASE UNCHANGED vars
    BY <1>7 DEF vars, NextAbove, AboveAt, Below
  <1>8. QED
    BY <1>1, <1>2, <1>3, <1>4, <1>5, <1>6, <1>7 DEF Next, Proceed
-----------------------------------------------------------------------------
(* The inductive invariant: IncreasingIds follows a step because the       *)
(* generator stays above what it returned, which the mutex protects.       *)

Inv == TypeOK /\ MutexHeld /\ NextAbove /\ IncreasingIds

LEMMA InitInv == Init => Inv
  <1> SUFFICES ASSUME Init PROVE Inv
    OBVIOUS
  <1>1. TypeOK
    BY InitTypeOK
  <1>2. Len(issued) = 0
    BY DEF Init
  <1>3. MutexHeld
    BY NodeAssumption DEF Init, MutexHeld, Holding, NodeAssumption
  <1>4. \A n \in Nodes : mu[n] = Nobody /\ time[n] <= clock
    BY DEF Init
  <1>5. NextAbove
    BY <1>2, <1>4 DEF NextAbove, AboveAt, Below
  <1>6. IncreasingIds
    BY <1>2 DEF IncreasingIds
  <1>7. QED
    BY <1>1, <1>3, <1>5, <1>6 DEF Inv

LEMMA IncreasingStep ==
  ASSUME Inv, [Next]_vars
  PROVE  IncreasingIds'
  <1>1. ASSUME NEW c \in Callers, Commit(c) PROVE IncreasingIds'
    <2> PICK n \in Nodes : n = NodeOf[c]
      BY NodeAssumption DEF NodeAssumption
    <2> DEFINE e == [node |-> NodeOf[c], time |-> now[c], step |-> step[NodeOf[c]]]
    <2>1. mu[n] = c /\ c # Nobody
      BY <1>1, NodeAssumption DEF Inv, Commit, MutexHeld, Holding, NodeAssumption
    <2>2. /\ IdOf(e) = Pack(now[c], NodeNumber[n], step[n])
          /\ Len(issued') = Len(issued) + 1 /\ Len(issued) \in Nat
          /\ issued'[Len(issued) + 1] = e
          /\ \A i \in 1..Len(issued) : issued'[i] = issued[i]
      BY <1>1, IssueOne DEF Inv
    <2>3. Below(n, IdOf(e)) /\ e.node = n
      BY <1>1, <2>1, <2>2 DEF Inv, NextAbove, AboveAt, Commit
    <2> HIDE DEF e
    <2> SUFFICES ASSUME NEW i \in 1..Len(issued'), NEW j \in 1..Len(issued'), i < j,
                        issued'[i].node = issued'[j].node
                 PROVE  IdOf(issued'[i]) < IdOf(issued'[j])
      BY DEF IncreasingIds
    <2>4. i \in 1..Len(issued) /\ (j \in 1..Len(issued) \/ j = Len(issued) + 1)
      BY <2>2
    <2>5. CASE j \in 1..Len(issued)
      BY <2>2, <2>4, <2>5 DEF Inv, IncreasingIds
    <2>6. CASE j = Len(issued) + 1
      BY <2>2, <2>3, <2>4, <2>6 DEF Below
    <2>7. QED
      BY <2>4, <2>5, <2>6
  <1>2. CASE issued' = issued
    BY <1>2 DEF Inv, IncreasingIds
  <1>3. QED
    BY <1>1, <1>2
    DEF Next, Proceed, vars, Call, Lock, SampleFresh, SampleSame, Spin, Tick

LEMMA InvStep == Inv /\ [Next]_vars => Inv'
  <1> SUFFICES ASSUME Inv, [Next]_vars PROVE Inv'
    OBVIOUS
  <1>1. TypeOK' /\ MutexHeld'
    BY TypeStep, MutexStep DEF Inv
  <1>2. NextAbove'
    BY AboveStep DEF Inv
  <1>3. IncreasingIds'
    BY IncreasingStep
  <1>4. QED
    BY <1>1, <1>2, <1>3 DEF Inv

LEMMA UniqueFromIncreasing == NumbersApart /\ Inv => UniqueIds
  <1> SUFFICES ASSUME NumbersApart, Inv, NEW i \in 1..Len(issued), NEW j \in 1..Len(issued), i # j
               PROVE  IdOf(issued[i]) # IdOf(issued[j])
    BY DEF UniqueIds
  <1>1. IdOf(issued[i]) \in Nat /\ IdOf(issued[j]) \in Nat
    BY IssuedType DEF Inv
  <1>2. CASE issued[i].node = issued[j].node
    <2>1. i < j \/ j < i
      OBVIOUS
    <2>2. QED
      BY <1>1, <1>2, <2>1 DEF Inv, IncreasingIds
  <1>3. CASE issued[i].node # issued[j].node
    <2> DEFINE m == NodeNumber[issued[i].node]
               n == NodeNumber[issued[j].node]
    <2>1. /\ issued[i].node \in Nodes /\ issued[i].time \in Nat
          /\ issued[i].step \in 0..(StepCount - 1)
          /\ issued[j].node \in Nodes /\ issued[j].time \in Nat
          /\ issued[j].step \in 0..(StepCount - 1)
      BY IssuedType DEF Inv
    <2>2. m \in 0..(NodeCount - 1) /\ n \in 0..(NodeCount - 1) /\ m # n
      BY <1>3, <2>1, NodeAssumption DEF NodeAssumption, NumbersApart
    <2> HIDE DEF m, n
    <2>3. Pack(issued[i].time, m, issued[i].step) # Pack(issued[j].time, n, issued[j].step)
      BY <2>1, <2>2, PackSeparates
    <2>4. QED
      BY <2>3 DEF IdOf, m, n
  <1>4. QED
    BY <1>2, <1>3

\* The step field never overflows, whatever its width: Generate wraps it and
\* waits instead (common/snowflake.go:127).
THEOREM TypeCorrect == Spec => []TypeOK
  <1>1. QED
    BY InitTypeOK, TypeStep, PTL DEF Spec

\* For any number of generators, of callers sharing them, and for any field widths:
\* ids of one generator grow in the order of return, and what it returns next is
\* above all of them.
THEOREM IdsIncreasing == Spec => [](IncreasingIds /\ NextAbove)
  <1>1. Inv => IncreasingIds /\ NextAbove
    BY DEF Inv
  <1>2. QED
    BY <1>1, InitInv, InvStep, PTL DEF Spec

\* When no two generators have the same number, no id is returned twice.
THEOREM IdsUnique == ASSUME NumbersApart PROVE Spec => []UniqueIds
  <1>1. Inv => UniqueIds
    BY UniqueFromIncreasing
  <1>2. QED
    BY <1>1, InitInv, InvStep, PTL DEF Spec
-----------------------------------------------------------------------------
(* The generators implement the abstract source of ids.                    *)

LEMMA RefineStep ==
  ASSUME NumbersApart, Nat \subseteq Ids, Inv, Inv', [Next]_vars
  PROVE  [Source!Give]_([i \in 1..Len(issued) |-> IdOf(issued[i])])
  <1> DEFINE given == [i \in 1..Len(issued) |-> IdOf(issued[i])]
  <1>1. ASSUME NEW c \in Callers, Commit(c) PROVE Source!Give
    <2> DEFINE e == [node |-> NodeOf[c], time |-> now[c], step |-> step[NodeOf[c]]]
    <2>1. /\ Len(issued') = Len(issued) + 1 /\ Len(issued) \in Nat
          /\ issued'[Len(issued) + 1] = e /\ IdOf(e) \in Nat
          /\ \A i \in 1..Len(issued) : issued'[i] = issued[i]
      BY <1>1, IssueOne DEF Inv
    <2> HIDE DEF e
    <2>2. \A i \in 1..Len(issued) : IdOf(issued[i]) \in Nat
      BY IssuedType DEF Inv
    <2>3. UniqueIds'
      BY UniqueFromIncreasing, PTL
    <2>4. \A i \in 1..Len(issued) : IdOf(issued[i]) # IdOf(e)
      BY <2>1, <2>3 DEF UniqueIds
    <2>5. given \in Seq(Nat) /\ Len(given) = Len(issued) /\ DOMAIN given = 1..Len(issued)
      BY <2>1, <2>2
    <2>6. given' = Append(given, IdOf(e))
      BY <2>1, <2>2, <2>5
    <2>7. IdOf(e) \in Ids \ Source!Used
      BY <2>1, <2>4, <2>5 DEF Source!Used
    <2>8. QED
      BY <2>6, <2>7 DEF Source!Give
  <1>2. CASE issued' = issued
    BY <1>2
  <1>3. QED
    BY <1>1, <1>2
    DEF Next, Proceed, vars, Call, Lock, SampleFresh, SampleSame, Spin, Tick

\* Seen from outside, the generators hand out fresh ids and do nothing else.
THEOREM ImplementsSource ==
  ASSUME NumbersApart, Nat \subseteq Ids
  PROVE  Spec => ImplementsIdSource
  <1>1. Init => Source!Init
    BY DEF Init, Source!Init
  <1>2. Inv /\ Inv' /\ [Next]_vars => [Source!Give]_([i \in 1..Len(issued) |-> IdOf(issued[i])])
    BY RefineStep
  <1>3. QED
    BY <1>1, <1>2, InitInv, InvStep, PTL DEF Spec, ImplementsIdSource, Source!Spec
=============================================================================
