--------------------------- MODULE LatencyTracker ---------------------------
(***************************************************************************)
(* The latency tracker (common/latency_tracker.go): a window over the last *)
(* MaxSize latencies and a count of all requests.  Every method holds the  *)
(* tracker's lock from its first line to its last, so each is one step, or *)
(* one reading.                                                            *)
(***************************************************************************)
EXTENDS Naturals, Sequences, FiniteSets, SequencesExt

CONSTANT MaxSize   \* 1000 in middleware/latency_middleware.go

ASSUME TrackerAssumption == MaxSize \in Nat \ {0}

VARIABLES
  latencies,   \* the window, oldest first
  total,       \* totalRequests
  recorded     \* every latency recorded since the process began (history)

tracker == <<latencies, total, recorded>>

TrackerInit == latencies = <<>> /\ total = 0 /\ recorded = <<>>

\* Mutant: the window slides one record too late.
RecordLate(l) ==
  /\ total' = total + 1
  /\ latencies' = Append(IF Len(latencies) > MaxSize THEN Tail(latencies) ELSE latencies, l)
  /\ recorded' = Append(recorded, l)

Record(l) ==
  /\ total' = total + 1
  /\ latencies' = Append(IF Len(latencies) >= MaxSize THEN Tail(latencies) ELSE latencies, l)
  /\ recorded' = Append(recorded, l)

GetAverage ==
  IF latencies = <<>> THEN 0 ELSE FoldSeq(+, 0, latencies) \div Len(latencies)

Smallest(m, n) == IF m < n THEN m ELSE n

\* The copy of the window that sort.Slice puts in order.
Sorted(s) ==
  LET place == CHOOSE p \in Bijection(DOMAIN s, DOMAIN s) :
                 \A i, j \in DOMAIN s : i <= j => s[p[i]] <= s[p[j]]
  IN  [i \in DOMAIN s |-> s[place[i]]]

\* Mutant: the window is not sorted.
GetPercentileUnsorted(p) ==
  IF latencies = <<>> THEN 0
  ELSE latencies[Smallest((Len(latencies) * p) \div 100, Len(latencies) - 1) + 1]

\* The index counts from 0.
GetPercentile(p) ==
  IF latencies = <<>> THEN 0
  ELSE Sorted(latencies)[Smallest((Len(latencies) * p) \div 100, Len(latencies) - 1) + 1]
-----------------------------------------------------------------------------
\* Record: the window holds the latest MaxSize latencies in their order, and the
\* count has missed none since the process began, however many there were.
WindowIsLatest ==
  /\ total = Len(recorded)
  /\ latencies = SubSeq(recorded, Len(recorded) - Smallest(MaxSize, Len(recorded)) + 1,
                        Len(recorded))

Below(x) == Cardinality({i \in DOMAIN latencies : latencies[i] <= x})
Above(x) == Cardinality({i \in DOMAIN latencies : latencies[i] >= x})

\* GetPercentile(p), of a window that is not empty, is one of its latencies; more
\* than p percent of them are no greater, and 100 - p percent are no smaller.
\* GetAverage lies between two of them.
QuantilesRight ==
  latencies # <<>> =>
    /\ \A p \in {50, 95, 99} : LET x == GetPercentile(p) IN
         /\ \E i \in DOMAIN latencies : latencies[i] = x
         /\ 100 * Below(x) > p * Len(latencies)
         /\ 100 * Above(x) >= (100 - p) * Len(latencies)
    /\ Below(GetAverage) > 0 /\ Above(GetAverage) > 0
=============================================================================
