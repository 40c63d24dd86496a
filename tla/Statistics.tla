----------------------------- MODULE Statistics -----------------------------
(***************************************************************************)
(* The summaries of pkg/stats/stats.go, over measurements that come in one *)
(* after the other.  Numbers are integers; a division is left undone.      *)
(***************************************************************************)
EXTENDS Integers, Sequences, FiniteSets, FiniteSetsExt, Functions

CONSTANTS
  Numbers,     (* measurements                                             *)
  MaxNumbers,  (* bound: how many are taken one by one                     *)
  Series       (* longer series to summarise                               *)

ASSUME StatisticsAssumption ==
  Numbers \subseteq Int /\ MaxNumbers \in Nat /\ Series \subseteq Seq(Int)

VARIABLE measurements    \* the slice that SummarizeResults is called with

StatisticsInit == measurements = <<>>

\* One more measurement, or a whole series.
Record ==
  \/ Len(measurements) < MaxNumbers /\ \E x \in Numbers : measurements' = Append(measurements, x)
  \/ measurements = <<>> /\ measurements' \in Series

StatisticsSpec == StatisticsInit /\ [][Record]_measurements

-----------------------------------------------------------------------------
\* How many numbers of a slice are less than v, and how many do not exceed it.
Below(r, v) == Cardinality({j \in 1..Len(r) : r[j] < v})
UpTo(r, v) == Cardinality({j \in 1..Len(r) : r[j] <= v})

\* The slice in ascending order: at position i the number that fewer than i numbers are
\* less than, and at least i do not exceed.
SortedSlice(r) ==
  [i \in 1..Len(r) |-> CHOOSE v \in Range(r) : Below(r, v) < i /\ UpTo(r, v) >= i]

\* Mutant of Position: rounded down.
PositionBelow(n, percent) == (n * percent) \div 100

\* Rounded up.
Position(n, percent) == (n * percent + 99) \div 100

getPercentile(sorted, percent) ==
  LET pos == Position(Len(sorted), percent)
  IN IF pos = 0 THEN sorted[1] ELSE sorted[pos]

\* SummarizeResults of a slice that is not empty; the average as sum and number.
Summary(r) ==
  LET sorted == SortedSlice(r)
  IN [NumDataPoints |-> Len(r), Min |-> Min(Range(r)), Max |-> Max(Range(r)),
      Average |-> [sum |-> SumFunction(r), of |-> Len(r)],
      P50 |-> getPercentile(sorted, 50), P75 |-> getPercentile(sorted, 75),
      P90 |-> getPercentile(sorted, 90), P99 |-> getPercentile(sorted, 99)]

-----------------------------------------------------------------------------
\* The nearest rank: the least of the numbers that at least percent of them do not exceed.
NearestRank(r, percent) ==
  Min({v \in Range(r) : 100 * UpTo(r, v) >= percent * Len(r)})

\* The percentiles are those of the nearest rank method, for any number of measurements in
\* any order (getPercentiles, getPercentile).
PercentilesAreNearestRanks ==
  measurements # <<>> =>
    LET s == Summary(measurements)
    IN /\ s.P50 = NearestRank(measurements, 50) /\ s.P75 = NearestRank(measurements, 75)
       /\ s.P90 = NearestRank(measurements, 90) /\ s.P99 = NearestRank(measurements, 99)
=============================================================================
