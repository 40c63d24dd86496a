---------------------------- MODULE PingoProofs ----------------------------
(***************************************************************************)
(* Pingo keeps its rate and does not throttle itself, for any number of    *)
(* loops, periods, timeouts and costs of a round.                          *)
(***************************************************************************)
EXTENDS Pingo, FiniteSetTheorems, SequenceTheorems, WellFoundedInduction, TLAPS

USE DoEveryAssumption, PingoAssumption

-----------------------------------------------------------------------------
(* Facts about numbers and sequences.                                      *)

\* A set of naturals that is not empty has a least element.
LEMMA LeastElement ==
  ASSUME NEW S, S \subseteq Nat, S # {}
  PROVE  \E x \in S : \A y \in S : x <= y
<1>1. \E x \in S : \A y \in S : ~(<<y, x>> \in OpToRel(<, Nat))
  BY WFMin, NatLessThanWellFounded
<1>2. PICK x \in S : \A y \in S : ~(y < x)
  BY <1>1 DEF OpToRel
<1> QED
  BY <1>2

\* The minimum of a set of naturals is one of them, and none is less.
LEMMA MinIsLeast ==
  ASSUME NEW S \in SUBSET Nat, S # {}
  PROVE  Min(S) \in S /\ \A y \in S : Min(S) <= y
BY LeastElement DEF Min

\* Division by a positive number gives an integer.
LEMMA QuotientIsInt ==
  ASSUME NEW a \in Int, NEW b \in Nat, b > 0
  PROVE  Quotient(a, b) \in Int
BY DEF Quotient

\* n times c, divided by n, is c, below zero too.
LEMMA QuotientOfMultiple ==
  ASSUME NEW n \in Nat, n > 0, NEW c \in Nat
  PROVE  Quotient(-(n * c), n) = -c
<1>1. n * c \in Nat
  OBVIOUS
<1>2. (n * c) \div n = c
  OBVIOUS
<1>3. -(-(n * c)) = n * c
  BY <1>1
<1>4. CASE c = 0
  BY <1>4 DEF Quotient
<1>5. CASE c > 0
  <2>1. n * c > 0
    BY <1>5
  <2> QED
    BY <2>1, <1>1, <1>2, <1>3 DEF Quotient
<1> QED
  BY <1>4, <1>5

\* Fewer than the limit of pings fit into a timeout when they are a period apart.
LEMMA LimitIsBeyondTheTimeout ==
  ASSUME NEW l \in Loops, NEW k \in Nat, k * Period[l] < Timeout
  PROVE  k < maxConcurrentPings(l)
<1> DEFINE P == Period[l]
           d == (12 * Timeout) \div (10 * P)
<1>1. P \in Nat /\ P > 0 /\ Timeout \in Nat
  OBVIOUS
<1>2. k * P < Timeout
  OBVIOUS
<1> HIDE DEF P
<1>3. d \in Int /\ 12 * Timeout < (d + 1) * (10 * P)
  BY <1>1
<1>4. d + 1 > k
  <2> SUFFICES ASSUME d + 1 <= k PROVE FALSE
    BY <1>3
  <2>1. (d + 1) * (10 * P) <= k * (10 * P)
    BY <1>1, <1>3
  <2>2. k * (10 * P) = 10 * (k * P)
    BY <1>1
  <2> QED
    BY <1>1, <1>2, <1>3, <2>1, <2>2
<1> QED
  BY <1>4 DEF maxConcurrentPings, P

\* The first i elements of a sequence.
LEMMA StartOfSequence ==
  ASSUME NEW s \in Seq(Nat), NEW i \in Nat, i <= Len(s)
  PROVE  /\ SubSeq(s, 1, i) \in Seq(Nat)
         /\ Len(SubSeq(s, 1, i)) = i
         /\ \A j \in 1..i : SubSeq(s, 1, i)[j] = s[j]
<1>1. SubSeq(s, 1, i) \in Seq(Nat)
  OBVIOUS
<1>2. Len(SubSeq(s, 1, i)) = i
  OBVIOUS
<1>3. ASSUME NEW j \in 1..i
      PROVE  SubSeq(s, 1, i)[j] = s[j]
  OBVIOUS
<1> QED
  BY <1>1, <1>2, <1>3

\* The end of a sequence, behind its first i elements.
LEMMA EndOfSequence ==
  ASSUME NEW s \in Seq(Nat), NEW i \in Nat, i <= Len(s)
  PROVE  /\ SubSeq(s, i + 1, Len(s)) \in Seq(Nat)
         /\ Len(SubSeq(s, i + 1, Len(s))) = Len(s) - i
         /\ \A j \in 1..(Len(s) - i) : SubSeq(s, i + 1, Len(s))[j] = s[i + j]
<1>1. SubSeq(s, i + 1, Len(s)) \in Seq(Nat)
  OBVIOUS
<1>2. Len(SubSeq(s, i + 1, Len(s))) = Len(s) - i
  OBVIOUS
<1>3. ASSUME NEW j \in 1..(Len(s) - i)
      PROVE  SubSeq(s, i + 1, Len(s))[j] = s[i + j]
  OBVIOUS
<1> QED
  BY <1>1, <1>2, <1>3

\* The first of two sequences that are concatenated.
LEMMA FirstHalf ==
  ASSUME NEW x \in Seq(Nat), NEW y \in Seq(Nat), NEW j \in 1..Len(x)
  PROVE  (x \o y)[j] = x[j]
<1>1. j \in 1..(Len(x) + Len(y)) /\ j <= Len(x)
  OBVIOUS
<1> QED
  BY <1>1, ConcatProperties

\* The second of two sequences that are concatenated.
LEMMA SecondHalf ==
  ASSUME NEW x \in Seq(Nat), NEW y \in Seq(Nat), NEW j \in 1..Len(y)
  PROVE  (x \o y)[Len(x) + j] = y[j]
<1>1. Len(x) \in Nat /\ Len(y) \in Nat /\ j \in Nat /\ 1 <= j /\ j <= Len(y)
  OBVIOUS
<1>2. /\ Len(x) + j \in 1..(Len(x) + Len(y))
      /\ ~(Len(x) + j <= Len(x)) /\ (Len(x) + j) - Len(x) = j
  BY <1>1
<1>3. (x \o y)[Len(x) + j] = y[(Len(x) + j) - Len(x)]
  BY <1>2, ConcatProperties
<1> QED
  BY <1>2, <1>3

\* The distance of a place j that is not before the place i of a sequence of n elements.
LEMMA PlaceBehind ==
  ASSUME NEW n \in Nat, NEW i \in 1..n, NEW j \in 1..(n - 1), ~(j < i)
  PROVE  /\ j - i + 1 \in 1..(n - i)
         /\ i + (j - i + 1) = j + 1 /\ (i - 1) + (j - i + 1) = j
OBVIOUS

\* What is left of a sequence without its element i.
LEMMA RemoveAtFacts ==
  ASSUME NEW s \in Seq(Nat), NEW i \in DOMAIN s
  PROVE  /\ RemoveAt(s, i) \in Seq(Nat)
         /\ Len(RemoveAt(s, i)) = Len(s) - 1
         /\ \A j \in 1..(Len(s) - 1) :
              RemoveAt(s, i)[j] = IF j < i THEN s[j] ELSE s[j + 1]
<1> DEFINE a == SubSeq(s, 1, i - 1)
           b == SubSeq(s, i + 1, Len(s))
<1>1. i \in 1..Len(s) /\ Len(s) \in Nat
  OBVIOUS
<1>2. a \in Seq(Nat) /\ Len(a) = i - 1 /\ \A j \in 1..(i - 1) : a[j] = s[j]
  <2>1. i - 1 \in Nat /\ i - 1 <= Len(s)
    BY <1>1
  <2> QED
    BY <2>1, StartOfSequence
<1>3. b \in Seq(Nat) /\ Len(b) = Len(s) - i /\ \A j \in 1..(Len(s) - i) : b[j] = s[i + j]
  <2>1. i \in Nat /\ i <= Len(s)
    BY <1>1
  <2> QED
    BY <2>1, EndOfSequence
<1>4. RemoveAt(s, i) = a \o b
  BY DEF RemoveAt
<1> DEFINE n == Len(s)
<1> HIDE DEF a, b
<1>5. RemoveAt(s, i) \in Seq(Nat) /\ Len(RemoveAt(s, i)) = Len(s) - 1
  <2>1. RemoveAt(s, i) \in Seq(Nat) /\ Len(RemoveAt(s, i)) = Len(a) + Len(b)
    <3>1. a \in Seq(Nat) /\ b \in Seq(Nat)
      BY <1>2, <1>3
    <3>2. a \o b \in Seq(Nat) /\ Len(a \o b) = Len(a) + Len(b)
      BY <3>1, ConcatProperties
    <3> QED
      BY <1>4, <3>2
  <2>2. Len(a) = i - 1 /\ Len(b) = n - i
    BY <1>2, <1>3
  <2>3. n \in Nat /\ i \in 1..n
    BY <1>1
  <2> HIDE DEF n
  <2>4. (i - 1) + (n - i) = n - 1
    BY <2>3
  <2> QED
    BY <2>1, <2>2, <2>4 DEF n
<1>6. ASSUME NEW j \in 1..(Len(s) - 1)
      PROVE  RemoveAt(s, i)[j] = IF j < i THEN s[j] ELSE s[j + 1]
  <2>1. CASE j < i
    <3>1. j \in 1..(i - 1)
      BY <1>1, <2>1
    <3>2. a[j] = s[j] /\ j \in 1..Len(a)
      BY <1>2, <3>1
    <3>3. a \in Seq(Nat) /\ b \in Seq(Nat)
      BY <1>2, <1>3
    <3>4. (a \o b)[j] = a[j]
      BY <3>2, <3>3, FirstHalf
    <3> QED
      BY <1>4, <2>1, <3>2, <3>4
  <2>2. CASE ~(j < i)
    <3> DEFINE k == j - i + 1
    <3>1. k \in 1..(n - i) /\ i + k = j + 1 /\ (i - 1) + k = j
      <4>1. n \in Nat /\ i \in 1..n /\ j \in 1..(n - 1)
        BY <1>1
      <4> HIDE DEF n, k
      <4>2. /\ j - i + 1 \in 1..(n - i)
            /\ i + (j - i + 1) = j + 1 /\ (i - 1) + (j - i + 1) = j
        BY <2>2, <4>1, PlaceBehind
      <4> QED
        BY <4>2, Zenon DEF k
    <3> HIDE DEF k
    <3>2. a \in Seq(Nat) /\ b \in Seq(Nat) /\ k \in 1..Len(b) /\ Len(a) + k = j
      BY <1>2, <1>3, <3>1
    <3>3. (a \o b)[Len(a) + k] = b[k]
      BY <3>2, SecondHalf
    <3>4. b[k] = s[j + 1]
      BY <1>3, <3>1
    <3> QED
      BY <1>4, <2>2, <3>2, <3>3, <3>4
  <2> QED
    BY <2>1, <2>2
<1> QED
  BY <1>5, <1>6

-----------------------------------------------------------------------------
(* Facts about a loop.                                                     *)

\* The types of a loop and its costs.
LEMMA LoopFacts ==
  ASSUME TypeOK, NEW l \in Loops
  PROVE  /\ loop[l] \in [at : {"unstarted", "head", "call", "asleep", "returned"},
                         wake : Nat, num : Nat, windowStart : Nat, windowCount : Nat,
                         adjustment : Int]
         /\ loop[l].wake \in Nat /\ loop[l].windowStart \in Nat /\ loop[l].windowCount \in Nat
         /\ loop[l].num \in Nat /\ loop[l].adjustment \in Int
         /\ now \in Nat /\ cost[l] \in Nat /\ cost[l] \in Costs[l] /\ steady[l] \in Nat
         /\ Period[l] \in Nat /\ Period[l] > 0 /\ Sleep(l) \in Int
         /\ NextCall(l) \in Nat /\ Timeout \in Nat
<1>1. loop[l] \in [at : {"unstarted", "head", "call", "asleep", "returned"},
                   wake : Nat, num : Nat, windowStart : Nat, windowCount : Nat,
                   adjustment : Int]
  BY DEF TypeOK
<1>2. now \in Nat /\ cost[l] \in Nat /\ cost[l] \in Costs[l] /\ steady[l] \in Nat
  BY DEF TypeOK
<1>3. Period[l] \in Nat /\ Period[l] > 0 /\ Timeout \in Nat
  OBVIOUS
<1> QED
  BY <1>1, <1>2, <1>3 DEF Sleep, NextCall

\* A loop on its beat sleeps in each round.
LEMMA OnBeatSleeps ==
  ASSUME TypeOK, NEW l \in Loops, Corrected(l), OnBeat(l)
  PROVE  Sleep(l) >= 0 /\ cost[l] <= Period[l] /\ loop[l].adjustment >= -cost[l]
BY LoopFacts DEF Corrected, OnBeat, Sleep

\* The next call of a loop comes in the future.
LEMMA NextCallIsAhead ==
  ASSUME TypeOK, NEW l \in Loops, WakesInTime(l)
  PROVE  now <= NextCall(l)
BY LoopFacts DEF WakesInTime, NextCall

\* What a window that was on time costs is what the correction takes from the sleep.
LEMMA CorrectionIsTheCost ==
  ASSUME TypeOK, NEW l \in Loops, loop[l].windowCount > 0,
         now - loop[l].windowStart = loop[l].windowCount * (Sleep(l) + cost[l])
  PROVE  Correction(l) = -cost[l]
<1> DEFINE n == loop[l].windowCount
           s == Sleep(l)
           c == cost[l]
<1>1. n \in Nat /\ n > 0 /\ s \in Int /\ c \in Nat
  BY LoopFacts
<1>2. Correction(l) = Quotient(n * s - n * (s + c), n)
  BY DEF Correction
<1> HIDE DEF n, s, c
<1>3. n * s - n * (s + c) = -(n * c)
  BY <1>1
<1>4. Correction(l) = -c
  BY <1>1, <1>2, <1>3, QuotientOfMultiple
<1> QED
  BY <1>4 DEF c

\* Whatever stays as it is, stays good.
LEMMA UntouchedLoop ==
  ASSUME NEW k \in Loops, LoopOK(k),
         loop'[k] = loop[k], now' = now, cost'[k] = cost[k], steady'[k] = steady[k],
         calm'[k] => calm[k], k \in Checks => pings'[k] = pings[k]
  PROVE  LoopOK(k)'
BY DEF LoopOK, WindowHasCalls, WakesInTime, Corrected, Beats, Spaced, Runs, OnBeat, NextCall,
       CallsByThen, Sleep

\* From the ping that is not over yet at the next call on, there are fewer than the limit.
LEMMA RoomIsLeft ==
  ASSUME TypeOK, NEW l \in Checks, LoopOK(l), calm[l], loop[l].at = "call",
         NEW i \in DOMAIN pings[l], pings[l][i] > now
  PROVE  /\ Len(pings[l]) \in Nat /\ i \in 1..Len(pings[l])
         /\ Len(pings[l]) + 1 - i < maxConcurrentPings(l)
<1> DEFINE k == Len(pings[l]) + 1 - i
<1>1. pings[l] \in Seq(Nat) /\ l \in Loops
  BY DEF TypeOK, Checks
<1>2. Len(pings[l]) \in Nat /\ i \in 1..Len(pings[l]) /\ pings[l][i] \in Nat
  BY <1>1
<1>3. k \in Nat
  BY <1>2
<1>4. pings[l][i] + k * Period[l] <= now + Timeout
  BY <1>1 DEF LoopOK, Spaced, Runs, NextCall
<1> HIDE DEF k
<1>5. now \in Nat /\ Period[l] \in Nat /\ Timeout \in Nat
  BY <1>1, LoopFacts
<1>6. k * Period[l] < Timeout
  <2> DEFINE x == k * Period[l]
             y == pings[l][i]
  <2>1. x \in Int /\ y \in Nat /\ y > now
    BY <1>2, <1>3, <1>5
  <2>2. y + x <= now + Timeout
    BY <1>4
  <2> HIDE DEF x, y
  <2>3. x < Timeout
    BY <1>5, <2>1, <2>2
  <2> QED
    BY <2>3 DEF x
<1>7. k < maxConcurrentPings(l)
  BY <1>1, <1>3, <1>6, LimitIsBeyondTheTimeout
<1> QED
  BY <1>2, <1>7 DEF k

-----------------------------------------------------------------------------
(* Every step keeps the invariant.                                         *)

\* Initially no loop has been called.
LEMMA InitIsGood == Init => PingoInv
<1> SUFFICES ASSUME Init PROVE PingoInv
  OBVIOUS
<1> USE DEF Init, LoopInit
<1>1. cost \in [Loops -> Nat] /\ \A l \in Loops : cost[l] \in Costs[l]
  OBVIOUS
<1>2. TypeOK
  BY <1>1 DEF TypeOK, Checks
<1>3. \A l \in Loops : Fresh(l)
  BY DEF Fresh
<1>4. ASSUME NEW l \in Loops
      PROVE  LoopOK(l)
  <2>1. cost[l] \in Nat /\ (calm[l] => cost[l] <= Period[l])
    BY <1>1
  <2>2. /\ loop[l].at = "unstarted" /\ loop[l].adjustment = 0 /\ steady[l] = 0
    OBVIOUS
  <2>3. Corrected(l)
    BY <2>1, <2>2 DEF Corrected
  <2> QED
    BY <2>2, <2>3 DEF LoopOK, WindowHasCalls, WakesInTime, Beats, Spaced, Runs
<1> QED
  BY <1>2, <1>3, <1>4 DEF PingoInv, NotYetServing

\* Steps that concern neither the loops nor their pings.
LEMMA ElsewhereStep ==
  ASSUME PingoInv, UNCHANGED <<timing, pings, calm>>,
         main' \in {"ping", "wait", "check", "found", "serving", "exited", "panicked"},
         main' \notin {"serving", "exited", "panicked"} =>
           main \notin {"serving", "exited", "panicked"},
         pinger' \in [Pingers -> {"free", "pinging", "answered"}],
         responseResults' \in 0..1
  PROVE  PingoInv'
<1>1. TypeOK'
  BY DEF PingoInv, TypeOK, timing, Pingers, Checks
<1>2. NotYetServing'
  BY DEF PingoInv, NotYetServing, Fresh, timing
<1>3. ASSUME NEW k \in Loops
      PROVE  LoopOK(k)'
  BY UntouchedLoop DEF PingoInv, timing
<1> QED
  BY <1>1, <1>2, <1>3 DEF PingoInv

\* CalculateTTFR, and the end of the process.
LEMMA FirstSteps ==
  ASSUME PingoInv,
         \/ \E g \in Pingers : SendPing(g) \/ Pinger(g)
         \/ EndInterval \/ CheckResults \/ Exit \/ Panic \/ UNCHANGED vars
  PROVE  PingoInv'
<1>0. /\ pinger \in [Pingers -> {"free", "pinging", "answered"}] /\ responseResults \in 0..1
      /\ main \in {"ping", "wait", "check", "found", "serving", "exited", "panicked"}
  BY DEF PingoInv, TypeOK
<1>1. ASSUME NEW g \in Pingers, SendPing(g)
      PROVE  PingoInv'
  BY <1>0, <1>1, ElsewhereStep DEF SendPing
<1>2. ASSUME NEW g \in Pingers, PingReturns(g)
      PROVE  PingoInv'
  BY <1>0, <1>2, ElsewhereStep DEF PingReturns
<1>3. ASSUME NEW g \in Pingers, Offer(g)
      PROVE  PingoInv'
  BY <1>0, <1>3, ElsewhereStep DEF Offer
<1>4. CASE EndInterval
  BY <1>0, <1>4, ElsewhereStep DEF EndInterval
<1>5. CASE CheckResults
  BY <1>0, <1>5, ElsewhereStep DEF CheckResults
<1>6. CASE Exit
  BY <1>0, <1>6, ElsewhereStep DEF Exit
<1>7. CASE Panic
  BY <1>0, <1>7, ElsewhereStep DEF Panic
<1>8. CASE UNCHANGED vars
  BY <1>0, <1>8, ElsewhereStep DEF vars, first
<1> QED
  BY <1>1, <1>2, <1>3, <1>4, <1>5, <1>6, <1>7, <1>8 DEF Pinger

\* The loops are called.
LEMMA ServeStep ==
  ASSUME PingoInv, Serve
  PROVE  PingoInv'
<1>0. TypeOK /\ NotYetServing /\ \A l \in Loops : LoopOK(l)
  BY DEF PingoInv
<1>1. \A l \in Loops : Fresh(l)
  BY <1>0 DEF NotYetServing, Serve
<1>2. loop' = [l \in Loops |-> [loop[l] EXCEPT !.at = "head", !.windowStart = now]]
  BY DEF Serve, Started
<1>3. ASSUME NEW l \in Loops
      PROVE  /\ loop'[l] \in [at : {"unstarted", "head", "call", "asleep", "returned"},
                              wake : Nat, num : Nat, windowStart : Nat, windowCount : Nat,
                              adjustment : Int]
             /\ loop'[l].at = "head" /\ loop'[l].windowStart = now
             /\ loop'[l].num = 0 /\ loop'[l].windowCount = 0 /\ loop'[l].adjustment = 0
  BY <1>0, <1>1, <1>2, LoopFacts DEF Fresh
<1>4. TypeOK'
  BY <1>0, <1>2, <1>3 DEF TypeOK, Serve
<1>5. NotYetServing'
  BY DEF NotYetServing, Serve
<1>6. ASSUME NEW l \in Loops
      PROVE  LoopOK(l)'
  <2>1. now' = now /\ cost' = cost /\ steady' = steady /\ pings' = pings /\ calm' = calm
    BY DEF Serve
  <2>2. WindowHasCalls(l)' /\ WakesInTime(l)'
    BY <1>3, <2>1 DEF WindowHasCalls, WakesInTime
  <2>3. Corrected(l)'
    BY <1>0, <1>1, <1>3, <2>1 DEF LoopOK, Corrected, Fresh
  <2>4. Beats(l)'
    <3>1. now \in Nat /\ cost[l] \in Nat /\ Period[l] \in Nat
      BY <1>0, LoopFacts
    <3>2. NextCall(l)' = now /\ CallsByThen(l)' = 0 /\ Sleep(l)' = Period[l]
      BY <1>3, <2>1, <3>1 DEF NextCall, CallsByThen, Sleep
    <3>3. 0 * (Period[l] + cost[l]) = 0
      BY <3>1
    <3> QED
      BY <1>3, <2>1, <3>1, <3>2, <3>3 DEF Beats
  <2>5. l \in Checks => Spaced(l)'
    BY <1>1, <2>1 DEF Fresh, Spaced
  <2> QED
    BY <2>2, <2>3, <2>4, <2>5 DEF LoopOK
<1> QED
  BY <1>4, <1>5, <1>6 DEF PingoInv

\* A step of one loop leaves the others alone.
LEMMA OneLoopSteps ==
  ASSUME PingoInv, NEW l \in Loops, TypeOK', main' = "serving", now' = now, LoopOK(l)',
         \A k \in Loops \ {l} :
           /\ loop'[k] = loop[k] /\ cost'[k] = cost[k] /\ steady'[k] = steady[k]
           /\ calm'[k] = calm[k] /\ (k \in Checks => pings'[k] = pings[k])
  PROVE  PingoInv'
<1>1. ASSUME NEW k \in Loops, k # l
      PROVE  LoopOK(k)'
  <2>1. LoopOK(k)
    BY DEF PingoInv
  <2> QED
    BY <1>1, <2>1, UntouchedLoop
<1> QED
  BY <1>1 DEF PingoInv, NotYetServing

\* A loop that stays calm was calm, and its costs have not fallen.
LEMMA StaysCalm ==
  ASSUME TypeOK, NEW l \in Loops, Loop(l)
  PROVE  /\ calm' \in [Loops -> BOOLEAN]
         /\ calm'[l] => calm[l] /\ cost[l] <= cost'[l] /\ cost'[l] <= Period[l]
         /\ \A k \in Loops \ {l} : calm'[k] = calm[k]
<1>1. calm \in [Loops -> BOOLEAN]
  BY DEF TypeOK
<1>2. calm' = [calm EXCEPT ![l] = calm[l] /\ cost'[l] \in cost[l]..Period[l]]
  BY DEF Loop
<1>3. calm'[l] = (calm[l] /\ cost'[l] \in cost[l]..Period[l])
  BY <1>1, <1>2
<1>4. calm'[l] => calm[l] /\ cost[l] <= cost'[l] /\ cost'[l] <= Period[l]
  <2>1. cost[l] \in Nat /\ Period[l] \in Nat
    BY LoopFacts
  <2>2. cost'[l] \in cost[l]..Period[l] => cost[l] <= cost'[l] /\ cost'[l] <= Period[l]
    BY <2>1
  <2> QED
    BY <1>3, <2>2, Zenon
<1>5. calm' \in [Loops -> BOOLEAN]
  BY <1>1, <1>2
<1>6. \A k \in Loops \ {l} : calm'[k] = calm[k]
  BY <1>1, <1>2
<1> QED
  BY <1>4, <1>5, <1>6

\* The types of a loop after a step that changes it.
LEMMA OneLoopTypes ==
  ASSUME TypeOK, NEW l \in Loops,
         NEW r \in [at : {"unstarted", "head", "call", "asleep", "returned"},
                    wake : Nat, num : Nat, windowStart : Nat, windowCount : Nat,
                    adjustment : Int],
         loop' = [loop EXCEPT ![l] = r]
  PROVE  /\ loop' \in [Loops -> [at : {"unstarted", "head", "call", "asleep", "returned"},
                                 wake : Nat, num : Nat, windowStart : Nat, windowCount : Nat,
                                 adjustment : Int]]
         /\ loop'[l] = r
         /\ \A k \in Loops \ {l} : loop'[k] = loop[k]
BY DEF TypeOK

\* The types after a step of DoEvery.
LEMMA LoopTypes ==
  ASSUME TypeOK, NEW l \in Loops, Loop(l), UNCHANGED <<quitAfter, now>>,
         loop' \in [Loops -> [at : {"unstarted", "head", "call", "asleep", "returned"},
                             wake : Nat, num : Nat, windowStart : Nat, windowCount : Nat,
                             adjustment : Int]],
         cost' \in [Loops -> Nat], \A k \in Loops : cost'[k] \in Costs[k],
         steady' \in [Loops -> Nat]
  PROVE  TypeOK'
<1>1. main' = main /\ pinger' = pinger /\ responseResults' = responseResults /\ pings' = pings
  BY DEF Loop, first
<1>2. calm' \in [Loops -> BOOLEAN]
  BY StaysCalm
<1> QED
  BY <1>1, <1>2 DEF TypeOK, Pingers, Checks

\* A loop returns.
LEMMA ReturnStep ==
  ASSUME PingoInv, NEW l \in Loops, Loop(l), Return(l)
  PROVE  PingoInv'
<1>0. TypeOK /\ LoopOK(l) /\ main' = "serving" /\ now' = now
  BY DEF PingoInv, Loop, Return, first
<1> DEFINE r == [loop[l] EXCEPT !.at = "returned"]
<1>1. r \in [at : {"unstarted", "head", "call", "asleep", "returned"}, wake : Nat, num : Nat,
             windowStart : Nat, windowCount : Nat, adjustment : Int]
  BY <1>0, LoopFacts
<1>2. loop' = [loop EXCEPT ![l] = r]
  BY DEF Return
<1>3. r.at = "returned" /\ r.adjustment = loop[l].adjustment
  BY <1>0, LoopFacts
<1> HIDE DEF r
<1>4. TypeOK'
  <2>1. /\ cost' \in [Loops -> Nat] /\ (\A k \in Loops : cost'[k] \in Costs[k])
        /\ steady' \in [Loops -> Nat] /\ UNCHANGED <<quitAfter, now>>
    BY <1>0 DEF TypeOK, Return
  <2> QED
    BY <1>0, <1>1, <1>2, <2>1, OneLoopTypes, LoopTypes
<1>5. LoopOK(l)'
  <2>1. loop'[l] = r /\ cost' = cost /\ steady' = steady
    BY <1>0, <1>1, <1>2, OneLoopTypes DEF Return
  <2>2. Corrected(l)'
    BY <1>0, <1>3, <2>1, StaysCalm DEF LoopOK, Corrected
  <2> QED
    BY <1>3, <2>1, <2>2 DEF LoopOK, WindowHasCalls, WakesInTime, Beats, Spaced, Runs
<1>6. \A k \in Loops \ {l} : loop'[k] = loop[k] /\ calm'[k] = calm[k]
  BY <1>0, <1>1, <1>2, OneLoopTypes, StaysCalm
<1>7. cost' = cost /\ steady' = steady /\ pings' = pings
  BY DEF Return, Loop
<1> QED
  BY <1>0, <1>4, <1>5, <1>6, <1>7, OneLoopSteps

\* A loop goes on in its window.
LEMMA ProceedStep ==
  ASSUME PingoInv, NEW l \in Loops, Loop(l), Proceed(l)
  PROVE  PingoInv'
<1>0. TypeOK /\ LoopOK(l) /\ main' = "serving" /\ now' = now
  BY DEF PingoInv, Loop, Proceed, first
<1> DEFINE r == [loop[l] EXCEPT !.at = "call"]
<1>1. r \in [at : {"unstarted", "head", "call", "asleep", "returned"}, wake : Nat, num : Nat,
             windowStart : Nat, windowCount : Nat, adjustment : Int]
  BY <1>0, LoopFacts
<1>2. loop' = [loop EXCEPT ![l] = r]
  BY DEF Proceed
<1>3. /\ r.at = "call" /\ r.adjustment = loop[l].adjustment
      /\ r.windowStart = loop[l].windowStart /\ r.windowCount = loop[l].windowCount
  BY <1>0, LoopFacts
<1> HIDE DEF r
<1>4. TypeOK'
  <2>1. /\ cost' \in [Loops -> Nat] /\ (\A k \in Loops : cost'[k] \in Costs[k])
        /\ steady' \in [Loops -> Nat] /\ UNCHANGED <<quitAfter, now>>
    BY <1>0 DEF TypeOK, Proceed
  <2> QED
    BY <1>0, <1>1, <1>2, <2>1, OneLoopTypes, LoopTypes
<1>5. LoopOK(l)'
  <2>1. /\ loop'[l] = r /\ loop[l].at = "head"
        /\ cost' = cost /\ steady' = steady /\ pings' = pings
    BY <1>0, <1>1, <1>2, OneLoopTypes DEF Proceed, Loop
  <2>2. calm'[l] => calm[l]
    BY <1>0, StaysCalm
  <2>3. Corrected(l)'
    BY <1>0, <1>3, <2>1, <2>2 DEF LoopOK, Corrected
  <2>4. /\ NextCall(l)' = NextCall(l) /\ CallsByThen(l)' = CallsByThen(l)
        /\ Sleep(l)' = Sleep(l) /\ (OnBeat(l)' => OnBeat(l)) /\ Runs(l)
    BY <1>0, <1>3, <2>1, <2>2 DEF NextCall, CallsByThen, Sleep, OnBeat, Runs
  <2>5. Beats(l)'
    BY <1>0, <1>3, <2>1, <2>4 DEF LoopOK, Beats
  <2>6. l \in Checks => Spaced(l)'
    BY <1>0, <2>1, <2>2, <2>4 DEF LoopOK, Spaced
  <2> QED
    BY <1>3, <2>1, <2>3, <2>5, <2>6 DEF LoopOK, WindowHasCalls, WakesInTime
<1>6. \A k \in Loops \ {l} : loop'[k] = loop[k] /\ calm'[k] = calm[k]
  BY <1>0, <1>1, <1>2, OneLoopTypes, StaysCalm
<1>7. cost' = cost /\ steady' = steady /\ pings' = pings
  BY DEF Proceed, Loop
<1> QED
  BY <1>0, <1>4, <1>5, <1>6, <1>7, OneLoopSteps

\* A sleep ends, on time.
LEMMA WakeStep ==
  ASSUME PingoInv, NEW l \in Loops, Loop(l), Wake(l)
  PROVE  PingoInv'
<1>0. TypeOK /\ LoopOK(l) /\ main' = "serving" /\ now' = now
  BY DEF PingoInv, Loop, Wake, first
<1> DEFINE r == [loop[l] EXCEPT !.at = "head", !.num = loop[l].num + 1,
                                !.windowCount = loop[l].windowCount + 1]
<1>1. r \in [at : {"unstarted", "head", "call", "asleep", "returned"}, wake : Nat, num : Nat,
             windowStart : Nat, windowCount : Nat, adjustment : Int]
  <2>1. loop[l].num + 1 \in Nat /\ loop[l].windowCount + 1 \in Nat
    BY <1>0, LoopFacts
  <2> QED
    BY <1>0, <2>1, LoopFacts
<1>2. loop' = [loop EXCEPT ![l] = r]
  BY DEF Wake
<1>3. /\ r.at = "head" /\ r.adjustment = loop[l].adjustment
      /\ r.windowStart = loop[l].windowStart /\ r.windowCount = loop[l].windowCount + 1
      /\ r.windowCount > 0
  BY <1>0, LoopFacts
<1> HIDE DEF r
<1>4. TypeOK'
  <2>1. /\ cost' \in [Loops -> Nat] /\ (\A k \in Loops : cost'[k] \in Costs[k])
        /\ steady' \in [Loops -> Nat] /\ UNCHANGED <<quitAfter, now>>
    BY <1>0 DEF TypeOK, Wake
  <2> QED
    BY <1>0, <1>1, <1>2, <2>1, OneLoopTypes, LoopTypes
<1>5. LoopOK(l)'
  <2>1. /\ loop'[l] = r /\ loop[l].at = "asleep"
        /\ cost' = cost /\ steady' = steady /\ pings' = pings
    BY <1>0, <1>1, <1>2, OneLoopTypes DEF Wake, Loop
  <2>2. calm'[l] => calm[l]
    BY <1>0, StaysCalm
  <2>3. Corrected(l)'
    BY <1>0, <1>3, <2>1, <2>2 DEF LoopOK, Corrected
  <2>4. loop[l].wake = now
    <3>1. loop[l].wake \in Nat /\ now \in Nat
      BY <1>0, LoopFacts
    <3>2. loop[l].wake <= now /\ now <= loop[l].wake
      BY <1>0, <2>1 DEF LoopOK, WakesInTime, Wake
    <3> QED
      BY <3>1, <3>2
  <2>5. /\ NextCall(l)' = NextCall(l) /\ CallsByThen(l)' = CallsByThen(l)
        /\ Sleep(l)' = Sleep(l) /\ (OnBeat(l)' => OnBeat(l)) /\ Runs(l)
    <3>1. loop[l].windowCount \in Nat
      BY <1>0, LoopFacts
    <3> QED
      BY <1>0, <1>3, <2>1, <2>2, <2>4, <3>1 DEF NextCall, CallsByThen, Sleep, OnBeat, Runs
  <2>6. Beats(l)'
    BY <1>0, <1>3, <2>1, <2>5 DEF LoopOK, Beats
  <2>7. l \in Checks => Spaced(l)'
    BY <1>0, <2>1, <2>2, <2>5 DEF LoopOK, Spaced
  <2> QED
    BY <1>3, <2>1, <2>3, <2>6, <2>7 DEF LoopOK, WindowHasCalls, WakesInTime
<1>6. \A k \in Loops \ {l} : loop'[k] = loop[k] /\ calm'[k] = calm[k]
  BY <1>0, <1>1, <1>2, OneLoopTypes, StaysCalm
<1>7. cost' = cost /\ steady' = steady /\ pings' = pings
  BY DEF Wake, Loop
<1> QED
  BY <1>0, <1>4, <1>5, <1>6, <1>7, OneLoopSteps

\* A window that was on its beat is on time when it ends.
LEMMA OnBeatIsOnTime ==
  ASSUME TypeOK, NEW l \in Loops, LoopOK(l), loop[l].at = "head", WindowIsOver(l),
         OnBeat(l) \/ OnTime(l)
  PROVE  /\ OnTime(l) /\ loop[l].windowCount > 0
         /\ Correction(l) = -cost[l]
<1>1. /\ now \in Nat /\ loop[l].windowStart \in Nat /\ loop[l].windowCount \in Nat
      /\ Sleep(l) \in Int /\ cost[l] \in Nat
  BY LoopFacts
<1>2. OnTime(l)
  <2> SUFFICES ASSUME OnBeat(l) PROVE OnTime(l)
    OBVIOUS
  <2>1. Sleep(l) >= 0
    BY OnBeatSleeps DEF LoopOK
  <2>2. NextCall(l) = now /\ CallsByThen(l) = loop[l].windowCount
    BY <1>1 DEF NextCall, CallsByThen
  <2>3. now = loop[l].windowStart + loop[l].windowCount * (Sleep(l) + cost[l])
    BY <2>2 DEF LoopOK, Beats, Runs
  <2> DEFINE d == loop[l].windowCount * (Sleep(l) + cost[l])
  <2>4. d \in Int
    BY <1>1
  <2>5. now = loop[l].windowStart + d
    BY <2>3
  <2> HIDE DEF d
  <2>6. now - loop[l].windowStart = d
    BY <1>1, <2>4, <2>5
  <2> QED
    BY <2>1, <2>6 DEF OnTime, d
<1>3. now # loop[l].windowStart
  BY <1>1 DEF WindowIsOver
<1>4. loop[l].windowCount > 0
  <2>1. now - loop[l].windowStart = loop[l].windowCount * (Sleep(l) + cost[l])
    BY <1>2 DEF OnTime
  <2>2. 0 * (Sleep(l) + cost[l]) = 0
    BY <1>1
  <2>3. loop[l].windowCount = 0 => now - loop[l].windowStart = 0
    BY <2>1, <2>2, Zenon
  <2>4. loop[l].windowCount # 0
    BY <1>1, <1>3, <2>3
  <2> QED
    BY <1>1, <2>4
<1>5. Correction(l) = -cost[l]
  BY <1>2, <1>4, CorrectionIsTheCost DEF OnTime
<1> QED
  BY <1>2, <1>4, <1>5

\* A window ends, and the time to sleep is corrected.
LEMMA CorrectStep ==
  ASSUME PingoInv, NEW l \in Loops, Loop(l), Correct(l)
  PROVE  PingoInv'
<1>0. /\ TypeOK /\ LoopOK(l) /\ main' = "serving" /\ now' = now
      /\ loop[l].at = "head" /\ WindowIsOver(l)
  BY DEF PingoInv, Loop, Correct, first
<1> DEFINE r == [loop[l] EXCEPT !.at = "call", !.adjustment = Correction(l),
                                !.windowStart = now, !.windowCount = 0]
<1>1. r \in [at : {"unstarted", "head", "call", "asleep", "returned"}, wake : Nat, num : Nat,
             windowStart : Nat, windowCount : Nat, adjustment : Int]
  <2>1. /\ now \in Nat /\ loop[l].windowStart \in Nat /\ loop[l].windowCount \in Nat
        /\ Sleep(l) \in Int
    BY <1>0, LoopFacts
  <2>2. loop[l].windowCount > 0
    <3>1. loop[l].windowCount # 0
      BY DEF Correct
    <3> QED
      BY <2>1, <3>1
  <2>3. loop[l].windowCount * Sleep(l) - (now - loop[l].windowStart) \in Int
    BY <2>1
  <2>4. Correction(l) \in Int
    BY <2>1, <2>2, <2>3, QuotientIsInt DEF Correction
  <2> HIDE DEF Correction
  <2> QED
    BY <1>0, <2>1, <2>4, LoopFacts
<1>2. loop' = [loop EXCEPT ![l] = r]
  BY DEF Correct
<1>3. /\ r.at = "call" /\ r.adjustment = Correction(l)
      /\ r.windowStart = now /\ r.windowCount = 0
  BY <1>0, LoopFacts
<1> HIDE DEF r
<1>4. PICK c \in Costs[l] : cost' = [cost EXCEPT ![l] = c]
  BY DEF Correct
<1>5. c \in Nat /\ (Period[l] < Quick) /\ c > 0
  <2>1. c \in Nat /\ Period[l] < Quick
    BY <1>0, <1>4 DEF WindowIsOver
  <2>2. c # 0
    BY <1>4, <2>1
  <2> QED
    BY <2>1, <2>2
<1>6. /\ cost' \in [Loops -> Nat] /\ (\A k \in Loops : cost'[k] \in Costs[k])
      /\ cost'[l] = c /\ \A k \in Loops \ {l} : cost'[k] = cost[k]
  BY <1>0, <1>4, <1>5 DEF TypeOK
<1>7. /\ steady' \in [Loops -> Nat]
      /\ steady'[l] = (IF OnTime(l) THEN cost[l] ELSE 0)
      /\ \A k \in Loops \ {l} : steady'[k] = steady[k]
  BY <1>0 DEF Correct, TypeOK
<1>8. TypeOK'
  <2>1. UNCHANGED <<quitAfter, now>>
    BY DEF Correct
  <2>2. loop' \in [Loops -> [at : {"unstarted", "head", "call", "asleep", "returned"},
                            wake : Nat, num : Nat, windowStart : Nat, windowCount : Nat,
                            adjustment : Int]]
    BY <1>0, <1>1, <1>2, OneLoopTypes
  <2> QED
    BY <1>0, <1>6, <1>7, <2>1, <2>2, LoopTypes
<1>9. LoopOK(l)'
  <2>1. loop'[l] = r /\ pings' = pings
    BY <1>0, <1>1, <1>2, OneLoopTypes DEF Loop
  <2>2. calm'[l] => calm[l] /\ cost[l] <= c /\ c <= Period[l]
    BY <1>0, <1>6, StaysCalm
  <2>3. cost[l] \in Nat /\ cost[l] > 0 /\ Period[l] \in Nat
    BY <1>0, <1>5, LoopFacts
  <2>4. Corrected(l)'
    <3>1. ~(Period[l] >= Quick)
      BY <1>5, <2>3
    <3>2. steady'[l] > 0 => r.adjustment = -steady'[l]
      BY <1>0, <1>3, <1>7, OnBeatIsOnTime
    <3>3. calm'[l] => c <= Period[l] /\ r.adjustment >= -c
      <4> SUFFICES ASSUME calm'[l]
                   PROVE  c <= Period[l] /\ r.adjustment >= -c
        OBVIOUS
      <4>1. r.adjustment = -cost[l]
        BY <1>0, <1>3, <2>2, OnBeatIsOnTime DEF OnBeat
      <4> QED
        BY <1>5, <2>2, <2>3, <4>1
    <3> QED
      BY <1>6, <2>1, <3>1, <3>2, <3>3 DEF Corrected
  <2>5. Beats(l)'
    <3>1. NextCall(l)' = now /\ CallsByThen(l)' = 0
      BY <1>0, <1>3, <2>1 DEF NextCall, CallsByThen
    <3>2. Sleep(l)' \in Int /\ now \in Nat /\ (Sleep(l)' + c) \in Int
      <4>1. r.adjustment \in Int
        BY <1>1
      <4>2. Sleep(l)' = Period[l] + r.adjustment
        BY <2>1 DEF Sleep
      <4> QED
        BY <1>0, <1>5, <2>3, <4>1, <4>2, LoopFacts
    <3>3. 0 * (Sleep(l)' + c) = 0
      BY <3>2
    <3> QED
      BY <1>3, <1>6, <2>1, <3>1, <3>2, <3>3 DEF Beats
  <2>6. l \in Checks => Spaced(l)'
    <3>1. NextCall(l)' = NextCall(l) /\ Runs(l)
      BY <1>0, <1>3, <2>1 DEF NextCall, Runs
    <3> QED
      BY <1>0, <2>1, <2>2, <3>1 DEF LoopOK, Spaced
  <2> QED
    BY <1>3, <2>1, <2>4, <2>5, <2>6 DEF LoopOK, WindowHasCalls, WakesInTime
<1>10. \A k \in Loops \ {l} : loop'[k] = loop[k] /\ calm'[k] = calm[k]
  BY <1>0, <1>1, <1>2, OneLoopTypes, StaysCalm
<1>11. pings' = pings
  BY DEF Loop
<1> QED
  BY <1>0, <1>6, <1>7, <1>8, <1>9, <1>10, <1>11, OneLoopSteps

\* The function has been called and the loop sleeps.
LEMMA RestStep ==
  ASSUME PingoInv, NEW l \in Loops, main = "serving", loop[l].at = "call", Rest(l),
         UNCHANGED <<first, quitAfter, now, cost, steady, calm>>,
         pings' = IF l \in Checks THEN [pings EXCEPT ![l] = Append(pings[l], now + Timeout)]
                  ELSE pings
  PROVE  PingoInv'
<1>0. /\ TypeOK /\ LoopOK(l) /\ main' = "serving" /\ now' = now
      /\ cost' = cost /\ steady' = steady /\ calm' = calm
  BY DEF PingoInv, first
<1> DEFINE w == now + cost[l] + (IF Sleep(l) > 0 THEN Sleep(l) ELSE 0)
           r == [loop[l] EXCEPT !.at = "asleep", !.wake = w]
<1>1. w \in Nat /\ now <= w
  <2>1. now \in Nat /\ cost[l] \in Nat /\ Sleep(l) \in Int
    BY <1>0, LoopFacts
  <2> QED
    BY <2>1
<1>2. r \in [at : {"unstarted", "head", "call", "asleep", "returned"}, wake : Nat, num : Nat,
             windowStart : Nat, windowCount : Nat, adjustment : Int]
  <2> HIDE DEF w
  <2> QED
    BY <1>0, <1>1, LoopFacts
<1>3. loop' = [loop EXCEPT ![l] = r]
  BY DEF Rest
<1>4. /\ r.at = "asleep" /\ r.wake = w /\ r.adjustment = loop[l].adjustment
      /\ r.windowStart = loop[l].windowStart /\ r.windowCount = loop[l].windowCount
  <2> HIDE DEF w
  <2> QED
    BY <1>0, LoopFacts
<1> HIDE DEF r
<1>5. loop'[l] = r
  BY <1>0, <1>2, <1>3, OneLoopTypes
<1>6. /\ pings' \in [Checks -> Seq(Nat)]
      /\ \A k \in Checks : k # l => pings'[k] = pings[k]
  <2>1. now + Timeout \in Nat /\ pings \in [Checks -> Seq(Nat)]
    <3> HIDE DEF w
    <3>1. now \in Nat /\ Timeout \in Nat
      BY <1>0, LoopFacts
    <3>2. now + Timeout \in Nat
      BY <3>1
    <3>3. pings \in [Checks -> Seq(Nat)]
      BY <1>0 DEF TypeOK
    <3> QED
      BY <3>2, <3>3
  <2>2. CASE l \in Checks
    <3>1. Append(pings[l], now + Timeout) \in Seq(Nat)
      BY <2>1, <2>2
    <3> QED
      BY <2>1, <2>2, <3>1
  <2>3. CASE l \notin Checks
    BY <2>1, <2>3
  <2> QED
    BY <2>2, <2>3
<1>7. TypeOK'
  <2> HIDE DEF w
  <2>1. loop' \in [Loops -> [at : {"unstarted", "head", "call", "asleep", "returned"},
                            wake : Nat, num : Nat, windowStart : Nat, windowCount : Nat,
                            adjustment : Int]]
    BY <1>0, <1>2, <1>3, OneLoopTypes
  <2> QED
    BY <1>0, <1>6, <2>1 DEF TypeOK, first, Pingers
<1>8. NextCall(l)' = w /\ NextCall(l) = now
  <2> HIDE DEF w
  <2> QED
    BY <1>4, <1>5 DEF NextCall
<1>9. LoopOK(l)'
  <2>1. /\ now \in Nat /\ cost[l] \in Nat /\ Period[l] \in Nat /\ Sleep(l) \in Int
        /\ loop[l].adjustment \in Int /\ loop[l].windowStart \in Nat
        /\ loop[l].windowCount \in Nat /\ Timeout \in Nat
    BY <1>0, LoopFacts
  <2>2. WindowHasCalls(l)' /\ WakesInTime(l)'
    <3> HIDE DEF w
    <3> QED
      BY <1>0, <1>1, <1>4, <1>5 DEF WindowHasCalls, WakesInTime
  <2>3. Corrected(l)'
    <3> HIDE DEF w
    <3> QED
      BY <1>0, <1>4, <1>5 DEF LoopOK, Corrected
  <2>4. Beats(l)'
    <3> SUFFICES ASSUME OnBeat(l)
                 PROVE  NextCall(l)' = loop'[l].windowStart
                                         + CallsByThen(l)' * (Sleep(l)' + cost'[l])
      BY <1>0 DEF Beats, OnBeat
    <3> DEFINE n == loop[l].windowCount
               s == Sleep(l) + cost[l]
    <3>1. Sleep(l) >= 0
      BY <1>0, OnBeatSleeps DEF LoopOK
    <3>2. w = now + s
      <4> DEFINE z == Sleep(l)
      <4>1. z \in Int /\ z >= 0
        BY <2>1, <3>1
      <4>2. w = now + cost[l] + (IF z > 0 THEN z ELSE 0) /\ s = z + cost[l]
        OBVIOUS
      <4> HIDE DEF w, s, z
      <4>3. (IF z > 0 THEN z ELSE 0) = z
        BY <4>1
      <4>4. now + cost[l] + z = now + (z + cost[l])
        BY <2>1, <4>1
      <4> QED
        BY <4>2, <4>3, <4>4
    <3>3. now = loop[l].windowStart + n * s
      <4>1. CallsByThen(l) = n
        BY <2>1 DEF CallsByThen
      <4> HIDE DEF w
      <4> QED
        BY <1>0, <1>8, <4>1 DEF LoopOK, Beats, Runs
    <3>4. CallsByThen(l)' = n + 1 /\ Sleep(l)' = Sleep(l) /\ loop'[l].windowStart = loop[l].windowStart
      <4> HIDE DEF w
      <4> QED
        BY <1>4, <1>5 DEF CallsByThen, Sleep
    <3>5. s \in Int /\ n \in Nat /\ loop[l].windowStart \in Nat
      BY <2>1
    <3>6. Sleep(l)' + cost'[l] = s
      BY <1>0, <3>4
    <3> HIDE DEF n, s, w
    <3>7. (n + 1) * s = n * s + s /\ n * s \in Int
      BY <3>5
    <3> DEFINE x == n * s
               v == loop[l].windowStart
    <3>8. x \in Int /\ v \in Nat /\ now = v + x /\ s \in Int
      BY <3>3, <3>5, <3>7
    <3>9. (n + 1) * s = x + s
      BY <3>7
    <3>10. loop'[l].windowStart = v
      BY <3>4
    <3> HIDE DEF x, v
    <3>11. w = v + (x + s)
      BY <3>2, <3>8
    <3> QED
      BY <1>8, <3>4, <3>6, <3>9, <3>10, <3>11
  <2>5. l \in Checks => Spaced(l)'
    <3> SUFFICES ASSUME l \in Checks, calm[l], NEW i \in DOMAIN pings'[l]
                 PROVE  pings'[l][i] + (Len(pings'[l]) + 1 - i) * Period[l]
                          <= NextCall(l)' + Timeout
      BY <1>0 DEF Spaced
    <3> DEFINE P == Period[l]
               m == Len(pings[l])
    <3>1. now + P <= w
      <4> DEFINE z == Sleep(l)
                 c == cost[l]
                 a == loop[l].adjustment
      <4>1. a >= -c
        BY <1>0 DEF LoopOK, Corrected
      <4>2. z = P + a /\ w = now + c + (IF z > 0 THEN z ELSE 0)
        BY DEF Sleep
      <4>3. P \in Nat /\ z \in Int /\ c \in Nat /\ a \in Int
        BY <2>1
      <4> HIDE DEF P, z, c, a, w
      <4>4. P <= c + z
        BY <4>1, <4>2, <4>3
      <4>5. w \in Nat /\ now \in Nat
        BY <1>1, <2>1
      <4> DEFINE t == now + c + z
      <4>6. t <= w /\ t \in Int
        BY <4>2, <4>3, <4>5
      <4>7. now + P <= t /\ now + P \in Int
        BY <4>3, <4>4, <4>5
      <4> HIDE DEF t
      <4> QED
        BY <4>5, <4>6, <4>7
    <3> HIDE DEF w
    <3>2. pings[l] \in Seq(Nat) /\ pings'[l] = Append(pings[l], now + Timeout)
      BY <1>0 DEF TypeOK
    <3>3. /\ m \in Nat /\ Len(pings'[l]) = m + 1 /\ i \in 1..(m + 1)
          /\ pings'[l][m + 1] = now + Timeout
          /\ i <= m => pings'[l][i] = pings[l][i] /\ pings[l][i] \in Nat
      <4> DEFINE t == now + Timeout
      <4>1. t \in Nat
        BY <2>1
      <4>2. pings'[l] = Append(pings[l], t)
        BY <3>2
      <4> HIDE DEF t
      <4>3. /\ Len(pings'[l]) = m + 1 /\ i \in 1..(m + 1) /\ m \in Nat
            /\ pings'[l][m + 1] = t
        BY <3>2, <4>1, <4>2
      <4>4. i <= m => i \in 1..m
        BY <4>3
      <4>5. i <= m => pings'[l][i] = pings[l][i] /\ pings[l][i] \in Nat
        BY <3>2, <4>1, <4>2, <4>4
      <4> QED
        BY <4>3, <4>5 DEF t
    <3>4. w \in Nat /\ P \in Nat
      BY <1>1, <2>1
    <3> HIDE DEF P
    <3>5. CASE i = m + 1
      <4>1. m + 1 + 1 - (m + 1) = 1
        BY <3>3
      <4>2. (Len(pings'[l]) + 1 - i) * P = P
        BY <3>3, <3>4, <3>5, <4>1
      <4>3. now + Timeout + P <= w + Timeout
        BY <2>1, <3>1, <3>4
      <4> QED
        BY <1>8, <3>3, <3>5, <4>2, <4>3 DEF P
    <3>6. CASE i <= m
      <4> DEFINE k == m + 1 - i
      <4>1. pings[l][i] + k * P <= now + Timeout
        <5>1. i \in DOMAIN pings[l]
          BY <3>2, <3>3, <3>6
        <5> QED
          BY <1>0, <1>8, <5>1 DEF LoopOK, Spaced, Runs, P
      <4>2. k \in Nat /\ Len(pings'[l]) + 1 - i = k + 1 /\ P \in Nat
        <5>1. m \in Nat /\ i \in 1..m /\ Len(pings'[l]) = m + 1
          BY <3>3, <3>6
        <5> HIDE DEF m
        <5>2. k \in Nat /\ (m + 1) + 1 - i = k + 1
          BY <5>1
        <5> QED
          BY <3>4, <5>1, <5>2
      <4> HIDE DEF k, m
      <4>3. (k + 1) * P = k * P + P /\ k * P \in Int
        BY <4>2
      <4> DEFINE x == k * P
                 y == pings[l][i]
      <4>4. x \in Int /\ y \in Nat /\ P \in Nat /\ now \in Nat /\ Timeout \in Nat
        BY <2>1, <3>3, <3>6, <4>2, <4>3
      <4>5. y + x <= now + Timeout
        BY <4>1
      <4>6. (k + 1) * P = x + P
        BY <4>3
      <4> HIDE DEF x, y
      <4>7. y + (x + P) <= w + Timeout
        BY <3>1, <3>4, <4>4, <4>5
      <4>8. pings[l][i] + (k + 1) * P <= w + Timeout
        BY <4>6, <4>7 DEF y
      <4> QED
        BY <1>8, <3>3, <3>6, <4>2, <4>8 DEF P
    <3> QED
      BY <3>3, <3>5, <3>6
  <2> QED
    BY <2>2, <2>3, <2>4, <2>5 DEF LoopOK
<1>10. \A k \in Loops \ {l} : loop'[k] = loop[k]
  BY <1>0, <1>2, <1>3, OneLoopTypes
<1> QED
  <2> HIDE DEF w
  <2> QED
    BY <1>0, <1>6, <1>7, <1>9, <1>10, OneLoopSteps

\* A ping ends.
LEMMA EndPingStep ==
  ASSUME PingoInv, NEW l \in Checks, EndPing(l)
  PROVE  PingoInv'
<1>0. /\ TypeOK /\ LoopOK(l) /\ main' = "serving" /\ now' = now /\ l \in Loops
      /\ loop' = loop /\ cost' = cost /\ steady' = steady /\ calm' = calm
  BY DEF PingoInv, EndPing, first, timing, Checks
<1>1. pings \in [Checks -> Seq(Nat)] /\ pings[l] \in Seq(Nat)
  BY <1>0 DEF TypeOK
<1>2. PICK j \in DOMAIN pings[l] : pings' = [pings EXCEPT ![l] = RemoveAt(pings[l], j)]
  BY DEF EndPing
<1> DEFINE s == pings[l]
           q == RemoveAt(pings[l], j)
<1>3. /\ q \in Seq(Nat) /\ Len(q) = Len(s) - 1 /\ Len(s) \in Nat
      /\ \A i \in 1..(Len(s) - 1) : q[i] = IF i < j THEN s[i] ELSE s[i + 1]
  <2>1. s \in Seq(Nat) /\ j \in DOMAIN s
    BY <1>1, <1>2
  <2>2. Len(s) \in Nat
    BY <2>1
  <2>3. q \in Seq(Nat) /\ Len(q) = Len(s) - 1
    BY <2>1, RemoveAtFacts
  <2>4. \A i \in 1..(Len(s) - 1) : q[i] = IF i < j THEN s[i] ELSE s[i + 1]
    BY <2>1, RemoveAtFacts
  <2> QED
    BY <2>2, <2>3, <2>4
<1>4. pings' \in [Checks -> Seq(Nat)] /\ pings'[l] = q /\ \A k \in Checks : k # l => pings'[k] = pings[k]
  <2> HIDE DEF q
  <2> QED
    BY <1>1, <1>2, <1>3 DEF q
<1>5. TypeOK'
  BY <1>0, <1>4 DEF TypeOK, EndPing, first, timing, Pingers
<1>6. Spaced(l)'
  <2> SUFFICES ASSUME Runs(l), calm[l], NEW i \in DOMAIN q
               PROVE  q[i] + (Len(q) + 1 - i) * Period[l] <= NextCall(l) + Timeout
    BY <1>0, <1>4 DEF Spaced, Runs, NextCall
  <2> HIDE DEF q
  <2>1. \A x \in DOMAIN s : s[x] + (Len(s) + 1 - x) * Period[l] <= NextCall(l) + Timeout
    BY <1>0 DEF LoopOK, Spaced
  <2> DEFINE n == Len(s)
             T == NextCall(l) + Timeout
             P == Period[l]
  <2>2. /\ n \in Nat /\ i \in Nat /\ 1 <= i /\ i <= n - 1 /\ Len(q) = n - 1
        /\ i \in DOMAIN s /\ i + 1 \in DOMAIN s /\ s[i] \in Nat
    <3>1. n \in Nat /\ Len(q) = n - 1 /\ i \in 1..Len(q)
      BY <1>3
    <3>2. i \in Nat /\ 1 <= i /\ i <= n - 1
      BY <3>1
    <3>3. i \in 1..n /\ i + 1 \in 1..n
      <4> HIDE DEF n
      <4> QED
        BY <3>1, <3>2
    <3>4. i \in DOMAIN s /\ i + 1 \in DOMAIN s /\ s[i] \in Nat
      BY <1>1, <3>3
    <3> QED
      BY <3>1, <3>2, <3>4
  <2>3. P \in Nat /\ T \in Nat
    BY <1>0, LoopFacts
  <2>4. q[i] = IF i < j THEN s[i] ELSE s[i + 1]
    <3>1. i \in 1..(Len(s) - 1)
      BY <2>2
    <3> HIDE DEF n, T, P, s
    <3> QED
      BY <1>3, <3>1
  <2>5. /\ s[i] + (n + 1 - i) * P <= T
        /\ s[i + 1] + (n + 1 - (i + 1)) * P <= T
    BY <2>1, <2>2
  <2> HIDE DEF n, T, P
  <2>6. /\ Len(q) + 1 - i = n - i /\ n + 1 - (i + 1) = n - i
        /\ n + 1 - i = (n - i) + 1 /\ n - i \in Nat
    <3>1. n \in Nat /\ i \in Nat /\ 1 <= i /\ i <= n - 1 /\ Len(q) = n - 1
      BY <2>2
    <3>2. (n - 1) + 1 - i = n - i /\ n + 1 - (i + 1) = n - i /\ n + 1 - i = (n - i) + 1
      BY <3>1
    <3> QED
      BY <3>1, <3>2
  <2>7. s[i] + (n - i) * P <= T
    <3> DEFINE k == n - i
               x == k * P
               y == s[i]
    <3>1. k \in Nat /\ y \in Nat
      BY <2>2, <2>6
    <3>2. y + (k + 1) * P <= T
      BY <2>5, <2>6
    <3> HIDE DEF k, y
    <3>3. (k + 1) * P = x + P /\ x \in Int
      BY <2>3, <3>1
    <3> HIDE DEF x
    <3>4. y + x <= T
      BY <2>3, <3>1, <3>2, <3>3
    <3> QED
      BY <3>4 DEF x, y, k
  <2>8. q[i] + (n - i) * P <= T
    BY <2>4, <2>5, <2>6, <2>7
  <2> QED
    BY <2>6, <2>8 DEF T, P
<1>7. LoopOK(l)'
  BY <1>0, <1>6 DEF LoopOK, WindowHasCalls, WakesInTime, Corrected, Beats, Runs, OnBeat,
                    NextCall, CallsByThen, Sleep
<1> QED
  BY <1>0, <1>4, <1>5, <1>7, OneLoopSteps

\* The limit of CheckConnectivity never holds up a calm loop.
LEMMA CalmIsNotHeldUp ==
  ASSUME TypeOK, NEW l \in Loops, LoopOK(l), loop[l].at = "call", Waits(l),
         \A d \in Deadlines : d > now
  PROVE  ~calm[l]
<1>1. l \in Checks /\ Full(l)
  BY DEF Waits, HeldUp
<1>2. pings[l] \in Seq(Nat)
  BY <1>1 DEF TypeOK
<1>3. \A i \in DOMAIN pings[l] : pings[l][i] > now
  <2> SUFFICES ASSUME NEW i \in DOMAIN pings[l] PROVE pings[l][i] \in Deadlines
    OBVIOUS
  <2>1. pings[l][i] \in ToSet(pings[l])
    BY DEF ToSet
  <2> QED
    BY <1>1, <2>1 DEF Deadlines
<1>4. Len(pings[l]) \in Nat /\ maxConcurrentPings(l) \in Int
  <2>1. Timeout \in Nat /\ Period[l] \in Nat /\ Period[l] > 0
    BY LoopFacts
  <2> QED
    BY <1>2, <2>1 DEF maxConcurrentPings
<1>5. Len(pings[l]) >= maxConcurrentPings(l)
  BY <1>1 DEF Full
<1>6. CASE Len(pings[l]) = 0
  <2>1. 0 * Period[l] < Timeout
    OBVIOUS
  <2>2. 0 < maxConcurrentPings(l)
    BY <2>1, LimitIsBeyondTheTimeout
  <2> QED
    BY <1>4, <1>5, <1>6, <2>2
<1>7. CASE Len(pings[l]) > 0
  <2> SUFFICES ASSUME calm[l] PROVE FALSE
    OBVIOUS
  <2>1. 1 \in DOMAIN pings[l]
    BY <1>2, <1>4, <1>7
  <2>2. Len(pings[l]) + 1 - 1 < maxConcurrentPings(l)
    BY <1>1, <1>3, <2>1, RoomIsLeft
  <2> QED
    BY <1>4, <1>5, <2>2
<1> QED
  BY <1>4, <1>6, <1>7

\* Time passes.
LEMMA TickStep ==
  ASSUME PingoInv, Tick
  PROVE  PingoInv'
<1>0. /\ TypeOK /\ main' = "serving" /\ loop' = loop /\ cost' = cost /\ pings' = pings
      /\ calm' = [l \in Loops |-> calm[l] /\ ~HeldUp(l)] /\ calm \in [Loops -> BOOLEAN]
  BY DEF PingoInv, Tick, first, TypeOK
<1> DEFINE wakes == {loop[l].wake : l \in {k \in Loops : loop[k].at = "asleep"}}
           moments == Deadlines \cup wakes
<1>1. moments \subseteq Nat
  <2>1. wakes \subseteq Nat
    BY <1>0, LoopFacts
  <2>2. Deadlines \subseteq Nat
    <3> SUFFICES ASSUME NEW l \in Checks PROVE ToSet(pings[l]) \subseteq Nat
      BY DEF Deadlines
    <3>1. pings[l] \in Seq(Nat)
      BY <1>0 DEF TypeOK
    <3> QED
      BY <3>1 DEF ToSet
  <2> QED
    BY <2>1, <2>2
<1>2. moments # {} /\ now' = Min(moments)
  BY DEF Tick
<1>3. now' \in moments /\ \A m \in moments : now' <= m
  <2> HIDE DEF moments
  <2> QED
    BY <1>1, <1>2, MinIsLeast
<1>4. steady' = [l \in Loops |-> IF loop[l].at \in {"head", "call"} THEN 0 ELSE steady[l]]
  BY DEF Tick
<1>5. TypeOK'
  <2>1. now' \in Nat
    BY <1>1, <1>3
  <2>2. steady' \in [Loops -> Nat]
    BY <1>0, <1>4 DEF TypeOK
  <2>3. calm' \in [Loops -> BOOLEAN]
    BY <1>0, Zenon
  <2> QED
    BY <1>0, <2>1, <2>2, <2>3 DEF TypeOK, Tick, first, Pingers, Checks
<1>6. ASSUME NEW l \in Loops
      PROVE  LoopOK(l)'
  <2>1. LoopOK(l) /\ Waits(l) /\ (calm'[l] => calm[l] /\ ~HeldUp(l))
    BY <1>0 DEF PingoInv, Tick
  <2>2. steady[l] \in Nat /\ now \in Nat
    BY <1>0, LoopFacts
  <2>3. Corrected(l)'
    <3>1. steady'[l] = 0 \/ steady'[l] = steady[l]
      BY <1>4
    <3>2. Period[l] >= Quick => loop[l].adjustment = 0 /\ steady'[l] = 0
      BY <2>1, <3>1 DEF LoopOK, Corrected
    <3>3. steady'[l] > 0 => loop[l].adjustment = -steady'[l]
      BY <2>1, <3>1 DEF LoopOK, Corrected
    <3> QED
      BY <1>0, <2>1, <3>2, <3>3 DEF LoopOK, Corrected
  <2>4. CASE loop[l].at = "call"
    <3>1. ~calm[l]
      BY <1>0, <2>1, <2>4, CalmIsNotHeldUp DEF Tick
    <3>2. steady'[l] = 0
      BY <1>4, <2>4
    <3> QED
      BY <1>0, <2>3, <2>4, <3>1, <3>2
         DEF LoopOK, WindowHasCalls, WakesInTime, Beats, Spaced, OnBeat
  <2>5. CASE loop[l].at = "asleep"
    <3>1. loop[l].wake \in moments
      BY <2>5
    <3>2. now' <= loop[l].wake
      BY <1>3, <3>1
    <3>3. steady'[l] = steady[l]
      BY <1>4, <2>5
    <3> QED
      BY <1>0, <2>1, <2>3, <2>5, <3>2, <3>3
         DEF LoopOK, WindowHasCalls, WakesInTime, Beats, Spaced, OnBeat, Runs, NextCall,
             CallsByThen, Sleep
  <2>6. CASE loop[l].at = "returned"
    BY <1>0, <2>3, <2>6 DEF LoopOK, WindowHasCalls, WakesInTime, Beats, Spaced, Runs
  <2>7. CASE HeldUp(l)
    <3>1. loop[l].at = "head" /\ ~calm'[l]
      BY <2>1, <2>7 DEF HeldUp
    <3>2. steady'[l] = 0
      BY <1>4, <3>1
    <3> QED
      BY <1>0, <2>1, <2>3, <3>1, <3>2
         DEF LoopOK, WindowHasCalls, WakesInTime, Beats, Spaced, OnBeat
  <2> QED
    BY <2>1, <2>4, <2>5, <2>6, <2>7 DEF Waits
<1>7. NotYetServing'
  BY <1>0 DEF NotYetServing
<1> QED
  BY <1>5, <1>6, <1>7 DEF PingoInv

\* Every step keeps the invariant.
LEMMA StepIsGood == PingoInv /\ [Next]_vars => PingoInv'
<1> SUFFICES ASSUME PingoInv, [Next]_vars PROVE PingoInv'
  OBVIOUS
<1>1. ASSUME NEW l \in Loops, Loop(l)
      PROVE  PingoInv'
  BY <1>1, ReturnStep, CorrectStep, ProceedStep, WakeStep DEF Loop, LoopStep
<1>2. ASSUME NEW l \in Checks, StartPing(l)
      PROVE  PingoInv'
  <2>1. l \in Loops
    BY DEF Checks
  <2> QED
    BY <1>2, <2>1, RestStep DEF StartPing
<1>3. CASE Push
  <2>1. Main \in Loops /\ Main \notin Checks
    BY DEF Checks
  <2> QED
    BY <1>3, <2>1, RestStep DEF Push
<1>4. CASE Serving
  BY <1>1, <1>2, <1>3, <1>4, ServeStep, EndPingStep, TickStep, FirstSteps DEF Serving
<1>5. CASE Stopped
  BY <1>5, FirstSteps DEF Stopped
<1> QED
  BY <1>4, <1>5, FirstSteps DEF Next

-----------------------------------------------------------------------------
(* What holds in every execution.                                          *)

LEMMA PingoInvHolds == Spec => []PingoInv
BY InitIsGood, StepIsGood, PTL DEF Spec

\* Every variable keeps its type: no time is negative, and the channel of CalculateTTFR
\* never holds more than one answer.
THEOREM PingoTypeCorrect == Spec => []TypeOK
<1>1. PingoInv => TypeOK
  BY DEF PingoInv
<1> QED
  BY <1>1, PingoInvHolds, PTL

\* The correction divides by the calls of a window, and the only window without one is the
\* first, before its first round: later on, however long a call has been held up, pingo does
\* not die of a division by zero.  (There it does, if more than a second passes between the
\* two readings of the clock.)
THEOREM OnlyTheFirstRoundPanics ==
  Spec => [](\A l \in Loops : DividesByZero(l) => loop[l].num = 0)
<1>1. PingoInv => \A l \in Loops : DividesByZero(l) => loop[l].num = 0
  <2> SUFFICES ASSUME PingoInv, NEW l \in Loops, DividesByZero(l)
               PROVE  loop[l].num = 0
    OBVIOUS
  <2>1. WindowHasCalls(l) /\ loop[l].at = "head" /\ loop[l].windowCount = 0
    BY DEF PingoInv, LoopOK, DividesByZero
  <2> QED
    BY <2>1 DEF WindowHasCalls
<1> QED
  BY <1>1, PingoInvHolds, PTL

\* The channel of CheckConnectivity limits the goroutines and not the rate, for any period,
\* timeout and costs: those pings of a calm loop that are not over leave room for the next.
THEOREM LimitNeverThrottles == Spec => []RoomForEveryPing
<1>1. PingoInv => RoomForEveryPing
  <2> SUFFICES ASSUME PingoInv, NEW l \in Checks, calm[l], loop[l].at = "call"
               PROVE  Cardinality({i \in DOMAIN pings[l] : pings[l][i] > now})
                        < maxConcurrentPings(l)
    BY DEF RoomForEveryPing
  <2> DEFINE Open == {i \in DOMAIN pings[l] : pings[l][i] > now}
             n == Len(pings[l])
  <2>1. TypeOK /\ l \in Loops /\ LoopOK(l)
    BY DEF PingoInv, Checks
  <2>2. pings[l] \in Seq(Nat)
    BY <2>1 DEF TypeOK
  <2>3. n \in Nat /\ Open \subseteq 1..n /\ Open \subseteq Nat
    BY <2>2
  <2>4. maxConcurrentPings(l) \in Int
    <3>1. Timeout \in Nat /\ Period[l] \in Nat /\ Period[l] > 0
      BY <2>1, LoopFacts
    <3> QED
      BY <3>1 DEF maxConcurrentPings
  <2>5. CASE Open = {}
    <3>1. 0 * Period[l] < Timeout
      BY <2>1, LoopFacts
    <3>2. 0 < maxConcurrentPings(l)
      BY <2>1, <3>1, LimitIsBeyondTheTimeout
    <3> QED
      BY <2>5, <3>2, FS_EmptySet
  <2>6. CASE Open # {}
    <3>1. PICK i \in Open : \A k \in Open : i <= k
      <4> HIDE DEF Open
      <4> QED
        BY <2>3, <2>6, LeastElement
    <3>2. i \in 1..n /\ n + 1 - i < maxConcurrentPings(l)
      BY <2>1, <3>1, RoomIsLeft
    <3>3. Open \subseteq i..n
      BY <2>3, <3>1
    <3> HIDE DEF Open, n
    <3>4. IsFiniteSet(i..n) /\ Cardinality(i..n) = n - i + 1
      <4>1. i \in Int /\ n \in Int /\ ~(i > n)
        BY <2>3, <3>2
      <4>2. /\ IsFiniteSet(i..n)
            /\ Cardinality(i..n) = IF i > n THEN 0 ELSE n - i + 1
        BY <4>1, FS_Interval
      <4> QED
        BY <4>1, <4>2
    <3>5. Cardinality(Open) <= n - i + 1 /\ Cardinality(Open) \in Nat
      BY <3>3, <3>4, FS_Subset, FS_CardinalityType
    <3>6. Cardinality(Open) < maxConcurrentPings(l)
      BY <2>3, <2>4, <3>2, <3>5
    <3> QED
      BY <3>6 DEF Open
  <2> QED
    BY <2>5, <2>6
<1> QED
  BY <1>1, PingoInvHolds, PTL

\* DoEvery keeps its rate, for any period, window and costs: a window whose rounds cost
\* what those of the one before did has one call per period, exactly.
THEOREM RateIsKept == Spec => PaceIsKept
<1>1. PingoInv /\ [Next]_vars =>
        [\A l \in Loops :
           /\ Correct(l)
           /\ cost[l] = steady[l] /\ cost[l] <= Period[l]
           => now - loop[l].windowStart = loop[l].windowCount * Period[l]]_vars
  <2> SUFFICES ASSUME PingoInv, NEW l \in Loops, Correct(l),
                      cost[l] = steady[l], cost[l] <= Period[l]
               PROVE  now - loop[l].windowStart = loop[l].windowCount * Period[l]
    OBVIOUS
  <2>1. TypeOK /\ LoopOK(l) /\ loop[l].at = "head" /\ WindowIsOver(l)
    BY DEF PingoInv, Correct
  <2>2. cost[l] \in Nat /\ cost[l] # 0 /\ Period[l] \in Nat
    BY <2>1, LoopFacts DEF WindowIsOver
  <2>3. steady[l] > 0 /\ OnBeat(l)
    BY <2>2 DEF OnBeat
  <2>4. OnTime(l)
    BY <2>1, <2>3, OnBeatIsOnTime
  <2>5. Sleep(l) + cost[l] = Period[l]
    BY <2>1, <2>2, <2>3 DEF LoopOK, Corrected, Sleep
  <2> QED
    BY <2>4, <2>5 DEF OnTime
<1> QED
  BY <1>1, PingoInvHolds, PTL DEF Spec, PaceIsKept
=============================================================================
