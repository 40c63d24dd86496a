--------------------------- MODULE PerfTestProofs ---------------------------
(***************************************************************************)
(* What an iperf or qperf test reports and what it inherits, for any list  *)
(* of tests, any number of nodes, attempts and failed calls.               *)
(***************************************************************************)
EXTENDS PerfTest, FiniteSetTheorems, SequenceTheorems, WellFoundedInduction, TLAPS

-----------------------------------------------------------------------------
(* Numbers.                                                                *)

\* A set of numbers that is not empty has a least element.
LEMMA LeastElement ==
  ASSUME NEW S, S \subseteq Nat, S # {}
  PROVE  \E x \in S : \A y \in S : x <= y
<1>1. \E x \in S : \A y \in S : ~(<<y, x>> \in OpToRel(<, Nat))
  BY WFMin, NatLessThanWellFounded
<1>2. PICK x \in S : \A y \in S : ~(y < x)
  BY <1>1 DEF OpToRel
<1> QED
  BY <1>2

\* A set of numbers with 0 and the successors of its elements has them all.
LEMMA SuccessorsReachAll ==
  ASSUME NEW T, 0 \in T, \A n \in Nat : n \in T => n + 1 \in T
  PROVE  Nat \subseteq T
<1>1. SUFFICES ASSUME Nat \ T # {} PROVE FALSE
  OBVIOUS
<1>2. PICK x \in Nat \ T : \A y \in Nat \ T : x <= y
  BY <1>1, LeastElement
<1>3. x # 0 /\ x - 1 \in Nat
  BY <1>2
<1>4. x - 1 \in T
  BY <1>2, <1>3
<1>5. (x - 1) + 1 \in T
  BY <1>3, <1>4
<1> QED
  BY <1>2, <1>5

\* The constants are numbers, and there is a node 1.
LEMMA ConstantsAreNumbers ==
  /\ NumNodes \in Nat \ {0} /\ Length \in Nat \ {0} /\ MaxTries \in Nat \ {0}
  /\ MaxFaults \in Nat
  /\ Nodes \subseteq Nat \ {0} /\ IsFiniteSet(Nodes) /\ 1 \in Nodes
<1>1. /\ NumNodes \in Nat \ {0} /\ Length \in Nat \ {0} /\ MaxTries \in Nat \ {0}
      /\ MaxFaults \in Nat
  BY PerfTestAssumption
<1>2. Nodes = 1..NumNodes
  BY DEF Nodes
<1> QED
  BY <1>1, <1>2, FS_Interval

\* The config of the test in progress is one of Configs.
LEMMA ConfigsAreTyped ==
  ASSUME TypeOK
  PROVE  /\ cfg \in Configs /\ kind \in Kinds /\ cfg.modes \subseteq Modes
         /\ cfg.iterations \in Nat
<1>1. cfg \in Configs
  BY DEF TypeOK, cfg
<1> QED
  BY <1>1, PerfTestAssumption DEF kind

\* The three modes and their positions.
LEMMA ThreeModes ==
  /\ Last = 4 /\ Order[1] = "direct" /\ Order[2] = "service" /\ Order[3] = "external"
  /\ \A i \in 1..3 : Order[i] \in Modes
  /\ \A m \in Modes : \E i \in 1..3 : m = Order[i]
  /\ Internal \subseteq Modes
<1>1. Last = 4
  BY DEF Last, Order
<1>2. Order[1] = "direct" /\ Order[2] = "service" /\ Order[3] = "external"
  BY DEF Order
<1>3. \A i \in 1..3 : i = 1 \/ i = 2 \/ i = 3
  OBVIOUS
<1> QED
  BY <1>1, <1>2, <1>3 DEF Modes, Internal

\* The loop over the modes stops at the next one asked for, or behind the last.
LEMMA ModeAfterIsNext ==
  ASSUME NEW i \in 0..3
  PROVE  /\ ModeAfter(i) \in (i + 1)..4
         /\ ModeAfter(i) = 4 \/ Order[ModeAfter(i)] \in cfg.modes
         /\ \A h \in (i + 1)..(ModeAfter(i) - 1) : Order[h] \notin cfg.modes
<1> DEFINE P(j) == /\ j = 4 \/ Order[j] \in cfg.modes
                   /\ \A h \in (i + 1)..(j - 1) : Order[h] \notin cfg.modes
           S == {j \in (i + 1)..4 : j = 4 \/ Order[j] \in cfg.modes}
<1>1. S \subseteq Nat /\ 4 \in S
  OBVIOUS
<1>2. PICK j \in S : \A y \in S : j <= y
  <2> HIDE DEF S
  <2> QED
    BY <1>1, LeastElement
<1>3. j \in (i + 1)..4 /\ P(j)
  BY <1>2
<1>4. ModeAfter(i) = CHOOSE x \in (i + 1)..4 : P(x)
  BY ThreeModes DEF ModeAfter
<1> HIDE DEF P
<1>5. ModeAfter(i) \in (i + 1)..4 /\ P(ModeAfter(i))
  BY <1>3, <1>4
<1> QED
  BY <1>5 DEF P

-----------------------------------------------------------------------------
(* The list of the test pods.                                              *)

Below(S, x) == {y \in S : y < x}

\* A finite set of numbers has, for each position, the element at that position.
LEMMA EveryPositionIsTaken ==
  ASSUME NEW S, S \subseteq Nat, IsFiniteSet(S), NEW i \in Nat, i < Cardinality(S)
  PROVE  \E x \in S : Cardinality(Below(S, x)) = i
<1> DEFINE T == {k \in Nat : k < Cardinality(S) => \E x \in S : Cardinality(Below(S, x)) = k}
<1>0. Cardinality(S) \in Nat
  BY FS_CardinalityType
<1>1. 0 \in T
  <2> SUFFICES ASSUME 0 < Cardinality(S) PROVE \E x \in S : Cardinality(Below(S, x)) = 0
    OBVIOUS
  <2>1. S # {}
    BY FS_EmptySet
  <2>2. PICK x \in S : \A y \in S : x <= y
    BY <2>1, LeastElement
  <2>3. \A y \in S : ~(y < x)
    BY <2>2
  <2>4. Below(S, x) = {}
    BY <2>3 DEF Below
  <2> QED
    BY <2>4, FS_EmptySet
<1>2. ASSUME NEW k \in Nat, k \in T
      PROVE  k + 1 \in T
  <2> SUFFICES ASSUME k + 1 < Cardinality(S)
               PROVE  \E x \in S : Cardinality(Below(S, x)) = k + 1
    OBVIOUS
  <2>1. PICK x \in S : Cardinality(Below(S, x)) = k
    BY <1>0, <1>2
  <2> DEFINE U == Below(S, x) \cup {x}
             R == S \ U
  <2>2. IsFiniteSet(Below(S, x)) /\ x \notin Below(S, x) /\ U \subseteq S
    <3>1. Below(S, x) \subseteq S /\ x \notin Below(S, x)
      BY DEF Below
    <3> QED
      BY <3>1, FS_Subset
  <2>3. IsFiniteSet(U) /\ Cardinality(U) = k + 1
    BY <2>1, <2>2, FS_AddElement
  <2>4. R # {}
    <3> SUFFICES ASSUME R = {} PROVE FALSE
      OBVIOUS
    <3>1. S = U
      BY <2>2
    <3> HIDE DEF U
    <3> QED
      BY <2>3, <3>1
  <2>5. PICK z \in R : \A y \in R : z <= y
    <3>1. R \subseteq Nat
      OBVIOUS
    <3> HIDE DEF R
    <3> QED
      BY <2>4, <3>1, LeastElement
  <2>6. z > x
    BY <2>5 DEF Below
  <2>7. Below(S, z) = U
    <3>1. ASSUME NEW y \in S PROVE y < z <=> y \in U
      <4>1. y \in U => y <= x
        BY DEF Below
      <4>2. y \notin U => z <= y
        BY <2>5
      <4> QED
        BY <2>6, <4>1, <4>2
    <3> HIDE DEF U
    <3> QED
      BY <2>2, <3>1 DEF Below
  <2> HIDE DEF U
  <2> QED
    BY <2>3, <2>5, <2>7
<1>3. Nat \subseteq T
  <2> HIDE DEF T
  <2> QED
    BY <1>1, <1>2, SuccessorsReachAll
<1> QED
  BY <1>3

\* The list has the pods of the set, and the first two are at the two lowest nodes.
LEMMA InOrderIsSorted ==
  ASSUME TypeOK, NEW S \in SUBSET Listed, S # {}
  PROVE  /\ InOrder(S) \in Seq(Nodes \X (1..Length)) /\ Len(InOrder(S)) = Cardinality(S)
         /\ \A i \in 1..Cardinality(S) :
              /\ InOrder(S)[i][1] \in S
              /\ InOrder(S)[i][2] = pods[kind][InOrder(S)[i][1]].by
              /\ Cardinality(Below(S, InOrder(S)[i][1])) = i - 1
<1> DEFINE At(i) == CHOOSE x \in S : Cardinality(Below(S, x)) = i - 1
<1>1. S \subseteq Nodes /\ S \subseteq Nat /\ IsFiniteSet(S)
  BY ConstantsAreNumbers, FS_Subset DEF Listed
<1>2. Cardinality(S) \in Nat
  BY <1>1, FS_CardinalityType
<1>3. ASSUME NEW i \in 1..Cardinality(S)
      PROVE  At(i) \in S /\ Cardinality(Below(S, At(i))) = i - 1
  <2>1. i - 1 \in Nat /\ i - 1 < Cardinality(S)
    BY <1>2
  <2>2. \E x \in S : Cardinality(Below(S, x)) = i - 1
    BY <1>1, <2>1, EveryPositionIsTaken
  <2> QED
    BY <2>2
<1>4. InOrder(S) = [i \in 1..Cardinality(S) |-> <<At(i), pods[kind][At(i)].by>>]
  BY Zenon DEF InOrder, Below
<1> HIDE DEF At
<1>5. \A n \in S : pods[kind][n].by \in 1..Length
  BY <1>1, ConfigsAreTyped, ConstantsAreNumbers DEF TypeOK, Pod, Listed
<1>6. \A i \in 1..Cardinality(S) : InOrder(S)[i] = <<At(i), pods[kind][At(i)].by>>
  BY <1>4
<1>7. \A i \in 1..Cardinality(S) : InOrder(S)[i] \in Nodes \X (1..Length)
  <2>1. TAKE i \in 1..Cardinality(S)
  <2>2. At(i) \in Nodes /\ pods[kind][At(i)].by \in 1..Length
    BY <1>1, <1>3, <1>5
  <2> QED
    BY <1>6, <2>2
<1>8. InOrder(S) \in Seq(Nodes \X (1..Length)) /\ Len(InOrder(S)) = Cardinality(S)
  BY <1>2, <1>4, <1>7
<1> QED
  BY <1>3, <1>6, <1>8

-----------------------------------------------------------------------------
(* What is summarised, and what is sampled.                                *)

\* The values of a mode are those of the results that have one, and no others.
LEMMA ValuesAreTheSamples ==
  ASSUME results \in Seq([Modes -> Sample]), NEW m \in Modes
  PROVE  /\ Values(m) \in Seq(Sample)
         /\ \A j \in DOMAIN Values(m) :
              \E i \in DOMAIN results : results[i][m] # NoSample /\ Values(m)[j] = results[i][m]
         /\ (\A i \in DOMAIN results : results[i][m] # NoSample) => Len(Values(m)) = Len(results)
         /\ (\A i \in DOMAIN results : results[i][m] = NoSample) => Len(Values(m)) = 0
<1> DEFINE Of(f, i) == IF i = 0 THEN <<>>
                       ELSE IF results[i][m] = NoSample THEN f[i - 1]
                       ELSE Append(f[i - 1], results[i][m])
           T == {n \in Nat : \E f : f = [i \in 0..n |-> Of(f, i)]}
           N == Len(results)
           f == CHOOSE g : g = [i \in 0..N |-> Of(g, i)]
           Good(k) ==
             /\ f[k] \in Seq(Sample)
             /\ \A j \in DOMAIN f[k] :
                  \E i \in 1..k : results[i][m] # NoSample /\ f[k][j] = results[i][m]
             /\ (\A i \in 1..k : results[i][m] # NoSample) => Len(f[k]) = k
             /\ (\A i \in 1..k : results[i][m] = NoSample) => Len(f[k]) = 0
           G == {k \in Nat : k <= N => Good(k)}
<1>1. N \in Nat /\ DOMAIN results = 1..N /\ \A i \in 1..N : results[i] \in [Modes -> Sample]
  BY LenProperties, ElementOfSeq
<1>2. Values(m) = f[N]
  BY DEF Values
<1>3. N \in T
  <2>1. 0 \in T
    <3> DEFINE g == [i \in 0..0 |-> <<>>]
    <3>1. g = [i \in 0..0 |-> Of(g, i)]
      OBVIOUS
    <3> QED
      BY <3>1
  <2>2. ASSUME NEW n \in Nat, n \in T
        PROVE  n + 1 \in T
    <3>1. PICK g : g = [i \in 0..n |-> Of(g, i)]
      BY <2>2
    <3> DEFINE h == [i \in 0..n + 1 |-> IF i <= n THEN g[i] ELSE Of(g, i)]
    <3>2. \A i \in 0..n : h[i] = g[i]
      OBVIOUS
    <3>3. ASSUME NEW i \in 0..n + 1
          PROVE  h[i] = Of(h, i)
      <4>1. i = 0 \/ (i - 1 \in 0..n /\ h[i - 1] = g[i - 1])
        BY <3>2
      <4>2. h[i] = Of(g, i)
        <5>1. CASE i <= n
          <6>1. i \in 0..n /\ h[i] = g[i]
            BY <5>1
          <6> HIDE DEF Of, h
          <6> QED
            BY <6>1, <3>1
        <5>2. CASE i = n + 1
          BY <5>2
        <5> QED
          BY <5>1, <5>2
      <4> QED
        BY <4>1, <4>2
    <3>4. h = [i \in 0..n + 1 |-> Of(h, i)]
      <4> HIDE DEF Of
      <4> QED
        BY <3>3
    <3>5. \E e : e = [i \in 0..n + 1 |-> Of(e, i)]
      <4> HIDE DEF Of, h
      <4> QED
        BY <3>4
    <3>6. n + 1 \in Nat
      OBVIOUS
    <3> HIDE DEF Of
    <3> QED
      BY <3>5, <3>6, Zenon
  <2>3. Nat \subseteq T
    <3> HIDE DEF T
    <3> QED
      BY <2>1, <2>2, SuccessorsReachAll
  <2> QED
    BY <1>1, <2>3
<1>4. f = [i \in 0..N |-> Of(f, i)]
  <2>1. \E g : g = [i \in 0..N |-> Of(g, i)]
    BY <1>3
  <2> HIDE DEF Of
  <2> QED
    BY <2>1
<1> HIDE DEF f
<1>5. 0 \in G
  <2>1. f[0] = <<>>
    BY <1>1, <1>4
  <2>2. f[0] \in Seq(Sample) /\ DOMAIN f[0] = {} /\ Len(f[0]) = 0
    BY <2>1, EmptySeq
  <2> QED
    BY <2>2
<1>6. ASSUME NEW k \in Nat, k \in G
      PROVE  k + 1 \in G
  <2> SUFFICES ASSUME k + 1 <= N PROVE Good(k + 1)
    OBVIOUS
  <2>1. k + 1 \in 1..N /\ k + 1 \in 0..N /\ (k + 1) - 1 = k /\ k + 1 # 0
    BY <1>1
  <2>2. Good(k)
    BY <1>1, <1>6
  <2>3. f[k + 1] = IF results[k + 1][m] = NoSample THEN f[k]
                   ELSE Append(f[k], results[k + 1][m])
    BY <1>4, <2>1
  <2>4. k + 1 \in 1..k + 1 /\ \A i \in 1..k : i \in 1..k + 1
    OBVIOUS
  <2>5. CASE results[k + 1][m] = NoSample
    <3>1. f[k + 1] = f[k]
      BY <2>3, <2>5
    <3>2. \A j \in DOMAIN f[k + 1] :
            \E i \in 1..k + 1 : results[i][m] # NoSample /\ f[k + 1][j] = results[i][m]
      BY <2>2, <2>4, <3>1
    <3> QED
      BY <2>2, <2>4, <2>5, <3>1, <3>2
  <2>6. CASE results[k + 1][m] # NoSample
    <3>1. f[k + 1] = Append(f[k], results[k + 1][m]) /\ results[k + 1][m] \in Sample
      BY <1>1, <2>1, <2>3, <2>6
    <3>2. /\ f[k + 1] \in Seq(Sample) /\ Len(f[k + 1]) = Len(f[k]) + 1
          /\ DOMAIN f[k + 1] = 1..Len(f[k]) + 1 /\ DOMAIN f[k] = 1..Len(f[k]) /\ Len(f[k]) \in Nat
          /\ \A j \in 1..Len(f[k]) : f[k + 1][j] = f[k][j]
          /\ f[k + 1][Len(f[k]) + 1] = results[k + 1][m]
      BY <2>2, <3>1, AppendProperties, LenProperties
    <3>3. \A j \in DOMAIN f[k + 1] :
            \E i \in 1..k + 1 : results[i][m] # NoSample /\ f[k + 1][j] = results[i][m]
      <4>1. TAKE j \in DOMAIN f[k + 1]
      <4>2. CASE j \in DOMAIN f[k]
        BY <2>2, <2>4, <3>2, <4>2
      <4>3. CASE j = Len(f[k]) + 1
        BY <2>4, <2>6, <3>2, <4>3
      <4> QED
        BY <3>2, <4>1, <4>2, <4>3
    <3> QED
      BY <2>2, <2>4, <2>6, <3>2, <3>3
  <2> QED
    BY <2>5, <2>6
<1>7. Good(N)
  <2>1. Nat \subseteq G
    <3> HIDE DEF G
    <3> QED
      BY <1>5, <1>6, SuccessorsReachAll
  <2> QED
    BY <1>1, <2>1
<1> QED
  BY <1>1, <1>2, <1>7

\* The empty values have their types.
LEMMA NothingIsASample == NoSample \in Sample /\ NoResult \in [Modes -> Sample]
  /\ NoSummary \in [Modes -> Seq(Sample)]
<1>1. NoSample \in Sample
  BY ConstantsAreNumbers DEF NoSample, Sample, Place
<1> QED
  BY <1>1, EmptySeq DEF NoResult, NoSummary

\* A sample with a unit is not the empty one.
LEMMA SampleByParts ==
  ASSUME NEW s, NEW c \in Place, NEW d \in Place, NEW v \in 0..Length,
         NEW u \in {"known", "unknown"},
         s = [client |-> c, server |-> d, svc |-> v, unit |-> u]
  PROVE  s \in Sample /\ s # NoSample
<1>1. s \in Sample
  BY DEF Sample
<1>2. s.unit = u /\ NoSample.unit = ""
  BY DEF NoSample
<1>3. u # ""
  OBVIOUS
<1> QED
  BY <1>1, <1>2, <1>3

\* A pod that is listed has its maker, and every service may have one.
LEMMA MakersAreTests ==
  ASSUME TypeOK, NEW n \in Nodes
  PROVE  /\ n \in 0..NumNodes /\ pods[kind][n] \in Pod
         /\ pods[kind][n].by \in 0..Length /\ svcs[kind][n] \in 0..Length
<1>1. kind \in Kinds
  BY ConfigsAreTyped
<1>2. pods[kind][n] \in Pod /\ svcs[kind][n] \in 0..Length
  BY <1>1 DEF TypeOK
<1>3. n \in 0..NumNodes
  BY ConstantsAreNumbers DEF Nodes
<1> QED
  BY <1>2, <1>3 DEF Pod

\* A sample is taken from the pod of the client's node to one at the server's.
LEMMA SamplesAreFair ==
  ASSUME TypeOK, Deployed, Paired, pc = "measure", mode \in 1..3, Order[mode] \in cfg.modes,
         NEW s \in Samples
  PROVE  /\ s \in Sample /\ s # NoSample
         /\ Order[mode] \in Internal => Fair(s)
<1>1. kind \in Kinds
  BY ConfigsAreTyped
<1>2. CASE Order[mode] = "external"
  <2>1. /\ s.unit \in {"known", "unknown"}
        /\ s = [client |-> <<0, 0>>, server |-> <<0, 0>>, svc |-> 0, unit |-> s.unit]
    BY <1>2 DEF Samples
  <2>2. <<0, 0>> \in Place /\ 0 \in 0..Length
    BY ConstantsAreNumbers DEF Place
  <2>3. Order[mode] \notin Internal
    BY <1>2 DEF Internal
  <2> QED
    BY <2>1, <2>2, <2>3, SampleByParts
<1>3. CASE Order[mode] # "external"
  <2> DEFINE first == testpods[1][1]
             second == testpods[2][1]
             listening == {n \in Servers : tests[pods[kind][n].by].port = cfg.port}
  <2>1. Order[mode] \in Internal /\ cfg.modes \cap Internal # {}
    BY <1>3, ThreeModes DEF Internal, Modes
  <2>2. Len(testpods) >= 2 /\ testpods \in Seq(Nodes \X (1..Length))
    BY <2>1 DEF Paired, TypeOK
  <2>3. /\ first # second /\ (stale = {} => first = 1 /\ second = 2)
    BY <2>2 DEF Paired
  <2>4. testpods[1] \in Nodes \X (1..Length) /\ testpods[2] \in Nodes \X (1..Length)
    <3>1. 1 \in 1..Len(testpods) /\ 2 \in 1..Len(testpods)
      BY <2>2, LenProperties
    <3> QED
      BY <2>2, <3>1, ElementOfSeq
  <2>5. first \in Nodes /\ second \in Nodes
    BY <2>4
  <2>6. Servers \subseteq {n \in {first} : IsUp(n)}
    BY DEF Servers, Selected
  <2>7. /\ s.client \in {<<n, pods[kind][n].by>> : n \in {x \in {second} : IsUp(x)}}
        /\ s.server \in {<<n, pods[kind][n].by>> : n \in listening}
        /\ s.svc \in (IF Order[mode] = "service" THEN {svcs[kind][first]} ELSE {0})
        /\ s.unit \in {"known", "unknown"}
        /\ s = [client |-> s.client, server |-> s.server, svc |-> s.svc, unit |-> s.unit]
    BY <1>3 DEF Samples
  <2>8. /\ s.client = <<second, pods[kind][second].by>> /\ IsUp(second)
        /\ s.server = <<first, pods[kind][first].by>> /\ IsUp(first)
        /\ s.svc \in {0, svcs[kind][first]}
    BY <2>6, <2>7
  <2>9. /\ pods[kind][first].by \in 0..Length /\ pods[kind][second].by \in 0..Length
        /\ svcs[kind][first] \in 0..Length /\ first \in 0..NumNodes /\ second \in 0..NumNodes
    BY <2>5, MakersAreTests
  <2>10. s \in Sample /\ s # NoSample
    <3>1. s.client \in Place /\ s.server \in Place
      BY <2>8, <2>9 DEF Place
    <3>2. s.svc \in 0..Length
      BY <2>8, <2>9, ConstantsAreNumbers
    <3> QED
      BY <2>7, <3>1, <3>2, SampleByParts
  <2>11. ~inherited => Own(s)
    <3> SUFFICES ASSUME ~inherited PROVE Own(s)
      OBVIOUS
    <3>1. \A n \in Nodes : /\ svcs[kind][n] \in {0, current}
                           /\ pods[kind][n].by \in {0, current} \/ n \in stale
      BY DEF Deployed, Ahead
    <3>2. /\ pods[kind][first].by = current \/ first \in stale
          /\ pods[kind][second].by = current \/ second \in stale
          /\ svcs[kind][first] \in {0, current}
      BY <2>5, <2>8, <3>1 DEF IsUp
    <3> HIDE DEF first, second
    <3> QED
      BY <2>8, <3>2 DEF Own
  <2>12. s.client[1] # s.server[1]
    BY <2>3, <2>8
  <2>13. stale = {} => OfFirstTwo(s)
    BY <2>3, <2>8 DEF OfFirstTwo
  <2> QED
    BY <2>10, <2>11, <2>12, <2>13 DEF Fair
<1> QED
  BY <1>2, <1>3

-----------------------------------------------------------------------------
(* The steps.                                                              *)

\* What Enter does for the next mode or, behind the last one, for the results.
LEMMA EnterGoesOn ==
  ASSUME NEW i \in 1..4, Enter(i)
  PROVE  /\ mode' = i /\ tries' = 0
         /\ \/ /\ i = 4 /\ pc' = "iterate"
               /\ results' = Append(results, result') /\ succeeded' = succeeded + 1
            \/ i # 4 /\ pc' \in {"wait", "measure"} /\ UNCHANGED <<results, succeeded>>
BY ThreeModes DEF Enter, EndIteration, Keeps

\* A failed iteration adds nothing to the results.
LEMMA FailureGoesOn ==
  ASSUME EndIteration(FALSE, result)
  PROVE  pc' = "iterate" /\ UNCHANGED <<results, succeeded>>
BY DEF EndIteration, Keeps

\* What Begin does, without its IF.
LEMMA BeginGoesOn ==
  ASSUME Begin
  PROVE  /\ pc = "iterate" /\ iteration < cfg.iterations /\ iteration' = iteration + 1
         /\ result' = NoResult /\ testpods' = <<>>
         /\ \/ /\ WaitsFirst /\ pc' = "wait" /\ mode' = 0 /\ tries' = 0
               /\ UNCHANGED <<results, succeeded>>
            \/ ~WaitsFirst /\ Enter(ModeAfter(0))
         /\ UNCHANGED <<tests, current, node, summary, error, namespace, history, faults>>
BY DEF Begin, run

\* What PodsAreUp does, without its IFs.
LEMMA PodsAreUpGoesOn ==
  ASSUME PodsAreUp
  PROVE  /\ pc = "wait" /\ Found # {}
         /\ \/ /\ mode # 0 /\ pc' = "measure"
               /\ UNCHANGED <<mode, tries, testpods, results, succeeded>>
            \/ /\ mode = 0 /\ Cardinality(Found) < 2 /\ EndIteration(FALSE, result)
               /\ UNCHANGED <<mode, tries, testpods>>
            \/ /\ mode = 0 /\ ~(Cardinality(Found) < 2) /\ testpods' = InOrder(Found)
               /\ Enter(ModeAfter(0))
         /\ UNCHANGED <<tests, current, node, iteration, result, summary, error, namespace,
                        history, faults>>
BY Zenon DEF PodsAreUp, run

-----------------------------------------------------------------------------
(* The types.                                                              *)

LEMMA CleanUpKeepsTypes ==
  ASSUME TypeOK, NEW failed \in BOOLEAN, Cleanup(failed)
  PROVE  /\ pods' \in [Kinds -> [Nodes -> Pod]] /\ svcs' \in [Kinds -> [Nodes -> 0..Length]]
         /\ \A k \in Kinds, n \in Nodes :
              /\ svcs'[k][n] \in {0, svcs[k][n]} /\ pods'[k][n].by = pods[k][n].by
              /\ pods[k][n].by = 0 => pods'[k][n] = pods[k][n]
         /\ policy' \in {0, policy} /\ faults' \in 0..MaxFaults
<1>1. CASE cfg.leaveStandingConfig
  BY <1>1 DEF Cleanup, TypeOK, namespace
<1>2. CASE ~cfg.leaveStandingConfig
  <2>1. PICK failing \in SUBSET Calls :
          /\ faults' = faults + Cardinality(failing) /\ faults' <= MaxFaults
          /\ \E stop \in [failing -> Nodes] : CleanUp(failing, stop)
    BY <1>2 DEF Cleanup
  <2>2. PICK stop \in [failing -> Nodes] : CleanUp(failing, stop)
    BY <2>1
  <2> DEFINE Reached(call, n) == call \notin failing \/ n < stop[call]
  <2>3. /\ svcs' = [k \in Kinds |-> [n \in Nodes |->
                      IF Reached(<<"svcs", k>>, n) THEN 0 ELSE svcs[k][n]]]
        /\ pods' = [k \in Kinds |-> [n \in Nodes |->
                      IF Reached(<<"pods", k>>, n) /\ Doomed(k, n) THEN Deleted(pods[k][n])
                                                                  ELSE pods[k][n]]]
        /\ policy' \in {0, policy}
    BY <2>2 DEF CleanUp
  <2>4. Cardinality(failing) \in Nat
    <3>1. IsFiniteSet({"svcs", "pods"} \X Kinds)
      <4>1. IsFiniteSet({"svcs", "pods"})
        <5>1. IsFiniteSet({"svcs"}) /\ IsFiniteSet({"pods"})
          BY FS_Singleton
        <5>2. {"svcs", "pods"} = {"svcs"} \cup {"pods"}
          OBVIOUS
        <5>3. IsFiniteSet({"svcs"} \cup {"pods"})
          BY <5>1, FS_Union
        <5> QED
          BY <5>2, <5>3
      <4>2. IsFiniteSet(Kinds)
        <5>1. IsFiniteSet({"iperf"}) /\ IsFiniteSet({"qperf"})
          BY FS_Singleton
        <5>2. Kinds = {"iperf"} \cup {"qperf"}
          BY DEF Kinds
        <5>3. IsFiniteSet({"iperf"} \cup {"qperf"})
          BY <5>1, FS_Union
        <5> QED
          BY <5>2, <5>3
      <4> QED
        BY <4>1, <4>2, FS_Product
    <3>2. IsFiniteSet({<<"policies", "all">>})
      BY FS_Singleton
    <3>3. IsFiniteSet(Calls)
      BY <3>1, <3>2, FS_Union DEF Calls
    <3> QED
      BY <3>3, FS_Subset, FS_CardinalityType
  <2>5. faults' \in 0..MaxFaults
    BY <2>1, <2>4, ConstantsAreNumbers DEF TypeOK
  <2> HIDE DEF Reached
  <2>6. ASSUME NEW k \in Kinds, NEW n \in Nodes
        PROVE  /\ pods'[k][n] \in Pod /\ svcs'[k][n] \in 0..Length
               /\ svcs'[k][n] \in {0, svcs[k][n]} /\ pods'[k][n].by = pods[k][n].by
               /\ pods[k][n].by = 0 => pods'[k][n] = pods[k][n]
    <3>1. pods[k][n] \in Pod /\ svcs[k][n] \in 0..Length /\ 0 \in 0..Length
      BY ConstantsAreNumbers DEF TypeOK
    <3>2. pods'[k][n] = IF Reached(<<"pods", k>>, n) /\ Doomed(k, n) THEN Deleted(pods[k][n])
                                                                   ELSE pods[k][n]
      BY <2>3
    <3>3. svcs'[k][n] \in {0, svcs[k][n]}
      BY <2>3
    <3>4. Deleted(pods[k][n]) \in Pod /\ Deleted(pods[k][n]).by = pods[k][n].by
      BY <3>1 DEF Deleted, Pod
    <3> QED
      BY <3>1, <3>2, <3>3, <3>4 DEF Doomed
  <2>7. pods' \in [Kinds -> [Nodes -> Pod]] /\ svcs' \in [Kinds -> [Nodes -> 0..Length]]
    BY <2>3, <2>6
  <2> QED
    BY <2>3, <2>5, <2>6, <2>7
<1> QED
  BY <1>1, <1>2

\* The initial states are typed.
LEMMA InitHasItsTypes == Init => TypeOK
<1> SUFFICES ASSUME Init PROVE TypeOK
  OBVIOUS
<1>1. current \in 1..Length /\ node \in Nodes /\ cfg.iterations \in Nat
  <2>1. 1 \in 1..Length
    BY ConstantsAreNumbers
  <2>2. cfg \in Configs
    BY <2>1 DEF Init, cfg
  <2> QED
    BY <2>1, <2>2, ConstantsAreNumbers, PerfTestAssumption DEF Init
<1>2. /\ iteration \in 0..cfg.iterations /\ mode \in 0..Last /\ tries \in 0..MaxTries
      /\ policy \in 0..current /\ succeeded \in 0..iteration /\ faults \in 0..MaxFaults
  BY <1>1, ConstantsAreNumbers, ThreeModes DEF Init
<1>3. /\ testpods \in Seq(Nodes \X (1..Length)) /\ results \in Seq([Modes -> Sample])
      /\ result \in [Modes -> Sample] /\ summary \in [Modes -> Seq(Sample)]
  BY EmptySeq, NothingIsASample DEF Init
<1>4. NoPod \in Pod /\ NoPod.by = 0 /\ 0 \in 0..Length /\ 0 <= current
  BY <1>1, ConstantsAreNumbers DEF NoPod, Pod
<1>5. /\ pods \in [Kinds -> [Nodes -> Pod]] /\ svcs \in [Kinds -> [Nodes -> 0..Length]]
      /\ \A k \in Kinds, n \in Nodes : pods[k][n] = NoPod /\ svcs[k][n] = 0
  BY <1>4 DEF Init
<1>6. \A k \in Kinds, n \in Nodes :
        /\ svcs[k][n] <= current /\ pods[k][n].by <= current
        /\ pods[k][n].by = 0 => pods[k][n] = NoPod
  BY <1>4, <1>5
<1> QED
  BY <1>1, <1>2, <1>3, <1>5, <1>6 DEF Init, TypeOK

\* The types of the counters.
LEMMA CountersAreNumbers ==
  ASSUME TypeOK
  PROVE  /\ current \in 1..Length /\ current \in Nat /\ cfg.iterations \in Nat
         /\ iteration \in 0..cfg.iterations /\ iteration \in Nat
         /\ succeeded \in 0..iteration /\ succeeded \in Nat
         /\ tries \in 0..MaxTries /\ tries \in Nat /\ faults \in 0..MaxFaults /\ faults \in Nat
         /\ node \in Nodes /\ node \in Nat /\ policy \in 0..current /\ mode \in 0..4
<1>1. /\ current \in 1..Length /\ iteration \in 0..cfg.iterations /\ succeeded \in 0..iteration
      /\ tries \in 0..MaxTries /\ faults \in 0..MaxFaults /\ node \in Nodes
      /\ policy \in 0..current /\ mode \in 0..Last
  BY DEF TypeOK
<1> QED
  BY <1>1, ConfigsAreTyped, ConstantsAreNumbers, ThreeModes

\* The types of the namespace, apart.
NamespaceOK ==
  /\ pods \in [Kinds -> [Nodes -> Pod]] /\ svcs \in [Kinds -> [Nodes -> 0..Length]]
  /\ \A k \in Kinds, n \in Nodes :
       /\ svcs[k][n] <= current /\ pods[k][n].by <= current
       /\ pods[k][n].by = 0 => pods[k][n] = NoPod
  /\ policy \in 0..current

\* The types of the iterations and of what comes out of them.
OutcomeOK ==
  /\ iteration \in 0..cfg.iterations /\ mode \in 0..Last /\ tries \in 0..MaxTries
  /\ testpods \in Seq(Nodes \X (1..Length))
  /\ result \in [Modes -> Sample] /\ results \in Seq([Modes -> Sample])
  /\ summary \in [Modes -> Seq(Sample)] /\ error \in BOOLEAN
  /\ succeeded \in 0..iteration

RestOK ==
  /\ tests \in [1..Length -> Configs] /\ current \in 1..Length
  /\ pc \in {"cleanup", "policy", "deploy", "iterate", "wait", "measure", "teardown", "done"}
  /\ node \in Nodes /\ inherited \in BOOLEAN /\ stale \subseteq Nodes /\ faults \in 0..MaxFaults

\* The type invariant in its three parts.
LEMMA TypesByParts == TypeOK <=> NamespaceOK /\ OutcomeOK /\ RestOK
BY DEF TypeOK, NamespaceOK, OutcomeOK, RestOK

\* The pod of a node is the one that is there, or a new one of this test.
LEMMA OnePodIsMade ==
  ASSUME TypeOK, GetOrCreatePod(node)
  PROVE  /\ pods' \in [Kinds -> [Nodes -> Pod]]
         /\ \A k \in Kinds, n \in Nodes : k # kind \/ n # node => pods'[k][n] = pods[k][n]
         /\ IF pods[kind][node].by # 0 THEN pods'[kind][node] = pods[kind][node]
            ELSE pods'[kind][node] = [by |-> current, running |-> FALSE, terminating |-> FALSE]
         /\ stale' = IF pods[kind][node].terminating THEN stale \cup {node} ELSE stale
         /\ stale' \subseteq Nodes
<1>1. kind \in Kinds /\ node \in Nodes /\ current \in 0..Length
  BY ConfigsAreTyped, CountersAreNumbers, ConstantsAreNumbers
<1>2. pods \in [Kinds -> [Nodes -> Pod]] /\ stale \subseteq Nodes
  BY DEF TypeOK
<1> DEFINE new == [by |-> current, running |-> FALSE, terminating |-> FALSE]
<1>3. new \in Pod /\ [NoPod EXCEPT !.by = current] = new
  <2>1. NoPod \in Pod /\ NoPod.running = FALSE /\ NoPod.terminating = FALSE
    BY ConstantsAreNumbers DEF NoPod, Pod
  <2>2. ASSUME NEW q \in Pod
        PROVE  [q EXCEPT !.by = current] =
                 [by |-> current, running |-> q.running, terminating |-> q.terminating]
    BY DEF Pod
  <2>3. new \in Pod
    BY <1>1 DEF Pod
  <2> QED
    BY <2>1, <2>2, <2>3
<1>4. pods' = pods \/ pods' = [pods EXCEPT ![kind][node] = new]
  BY <1>3 DEF GetOrCreatePod
<1>5. IF pods[kind][node].by # 0 THEN pods' = pods ELSE pods' = [pods EXCEPT ![kind][node] = new]
  BY <1>3 DEF GetOrCreatePod
<1>6. stale' = IF pods[kind][node].terminating THEN stale \cup {node} ELSE stale
  BY DEF GetOrCreatePod
<1> HIDE DEF new
<1>7. pods' \in [Kinds -> [Nodes -> Pod]]
  BY <1>1, <1>2, <1>3, <1>4
<1>8. \A k \in Kinds, n \in Nodes : k # kind \/ n # node => pods'[k][n] = pods[k][n]
  BY <1>1, <1>2, <1>4
<1>9. IF pods[kind][node].by # 0 THEN pods'[kind][node] = pods[kind][node]
      ELSE pods'[kind][node] = new
  BY <1>1, <1>2, <1>5
<1> QED
  BY <1>1, <1>2, <1>6, <1>7, <1>8, <1>9 DEF new

\* The service of a node is the one that is there, or a new one of this test.
LEMMA OneServiceIsMade ==
  ASSUME TypeOK, GetOrCreateSvc(node) \/ UNCHANGED svcs
  PROVE  /\ svcs' \in [Kinds -> [Nodes -> 0..Length]]
         /\ \A k \in Kinds, n \in Nodes : svcs'[k][n] \in {svcs[k][n], current}
<1>1. kind \in Kinds /\ node \in Nodes /\ current \in 0..Length
  BY ConfigsAreTyped, CountersAreNumbers, ConstantsAreNumbers
<1>2. svcs \in [Kinds -> [Nodes -> 0..Length]]
  BY DEF TypeOK
<1>3. svcs' = svcs \/ svcs' = [svcs EXCEPT ![kind][node] = current]
  BY DEF GetOrCreateSvc
<1> QED
  BY <1>1, <1>2, <1>3

\* The steps that leave the tests alone keep the namespace typed.
LEMMA StepKeepsNamespaceOK ==
  ASSUME TypeOK, UNCHANGED <<tests, current>>,
         \/ UNCHANGED namespace
         \/ CleanupBefore \/ Teardown \/ CreateTestPolicy \/ Deploy
         \/ \E k \in Kinds, n \in Nodes : PodRuns(k, n) \/ PodGone(k, n)
  PROVE  NamespaceOK'
<1>1. /\ NamespaceOK /\ current \in 1..Length /\ current \in Nat
  BY TypesByParts, CountersAreNumbers
<1>2. CASE UNCHANGED namespace
  BY <1>1, <1>2 DEF NamespaceOK, namespace
<1>3. CASE CleanupBefore \/ Teardown
  <2>1. PICK failed \in BOOLEAN : Cleanup(failed)
    BY <1>3 DEF CleanupBefore, Teardown
  <2>2. /\ pods' \in [Kinds -> [Nodes -> Pod]] /\ svcs' \in [Kinds -> [Nodes -> 0..Length]]
        /\ \A k \in Kinds, n \in Nodes :
             /\ svcs'[k][n] \in {0, svcs[k][n]} /\ pods'[k][n].by = pods[k][n].by
             /\ pods[k][n].by = 0 => pods'[k][n] = pods[k][n]
        /\ policy' \in {0, policy}
    BY <2>1, CleanUpKeepsTypes
  <2>3. policy' \in 0..current
    BY <1>1, <2>2, CountersAreNumbers
  <2>4. ASSUME NEW k \in Kinds, NEW n \in Nodes
        PROVE  /\ svcs'[k][n] <= current /\ pods'[k][n].by <= current
               /\ pods'[k][n].by = 0 => pods'[k][n] = NoPod
    <3>1. /\ svcs[k][n] <= current /\ pods[k][n].by <= current
          /\ pods[k][n].by = 0 => pods[k][n] = NoPod
      BY <1>1 DEF NamespaceOK
    <3>2. 0 <= current
      BY <1>1
    <3>3. svcs'[k][n] = 0 \/ svcs'[k][n] = svcs[k][n]
      BY <2>2
    <3>4. svcs'[k][n] <= current
      BY <3>1, <3>2, <3>3
    <3> QED
      BY <2>2, <3>1, <3>4
  <2>5. current' = current
    OBVIOUS
  <2> QED
    BY <2>2, <2>3, <2>4, <2>5 DEF NamespaceOK
<1>4. CASE CreateTestPolicy
  <2>1. policy' \in {policy, 0, current} /\ UNCHANGED <<pods, svcs>>
    BY <1>4 DEF CreateTestPolicy, NewPolicy
  <2>2. policy' \in 0..current
    BY <1>1, <2>1, CountersAreNumbers
  <2> QED
    BY <1>1, <2>1, <2>2 DEF NamespaceOK
<1>5. CASE Deploy
  <2>1. GetOrCreateSvc(node) \/ UNCHANGED svcs
    BY <1>5 DEF Deploy
  <2>2. /\ svcs' \in [Kinds -> [Nodes -> 0..Length]]
        /\ \A k \in Kinds, n \in Nodes : svcs'[k][n] \in {svcs[k][n], current}
    BY <2>1, OneServiceIsMade
  <2>3. \A k \in Kinds, n \in Nodes : svcs'[k][n] <= current
    BY <1>1, <2>2 DEF NamespaceOK
  <2>4. /\ pods' \in [Kinds -> [Nodes -> Pod]]
        /\ \A k \in Kinds, n \in Nodes :
             pods'[k][n].by <= current /\ (pods'[k][n].by = 0 => pods'[k][n] = NoPod)
    <3>1. CASE UNCHANGED pods
      BY <1>1, <3>1 DEF NamespaceOK
    <3>2. CASE GetOrCreatePod(node)
      <4>1. /\ pods' \in [Kinds -> [Nodes -> Pod]]
            /\ \A k \in Kinds, n \in Nodes : k # kind \/ n # node => pods'[k][n] = pods[k][n]
            /\ IF pods[kind][node].by # 0 THEN pods'[kind][node] = pods[kind][node]
               ELSE pods'[kind][node] = [by |-> current, running |-> FALSE, terminating |-> FALSE]
        BY <3>2, OnePodIsMade
      <4>2. pods'[kind][node] = pods[kind][node] \/ pods'[kind][node].by = current
        BY <4>1
      <4>3. ASSUME NEW k \in Kinds, NEW n \in Nodes
            PROVE  pods'[k][n].by <= current /\ (pods'[k][n].by = 0 => pods'[k][n] = NoPod)
        <5>1. pods'[k][n] = pods[k][n] \/ pods'[k][n].by = current
          BY <4>1, <4>2
        <5>2. current # 0 /\ current <= current
          BY <1>1
        <5> QED
          BY <1>1, <5>1, <5>2 DEF NamespaceOK
      <4> QED
        BY <4>1, <4>3
    <3> QED
      BY <1>5, <3>1, <3>2 DEF Deploy
  <2>5. policy' = policy
    BY <1>5 DEF Deploy
  <2> QED
    BY <1>1, <2>2, <2>3, <2>4, <2>5 DEF NamespaceOK
<1>6. ASSUME NEW k \in Kinds, NEW n \in Nodes, PodRuns(k, n)
      PROVE  NamespaceOK'
  <2>1. pods[k][n] \in Pod /\ pods[k][n].by # 0
    BY <1>1, <1>6 DEF NamespaceOK, PodRuns
  <2>2. [pods[k][n] EXCEPT !.running = TRUE] \in Pod
        /\ [pods[k][n] EXCEPT !.running = TRUE].by = pods[k][n].by
    BY <2>1 DEF Pod
  <2>3. pods' = [pods EXCEPT ![k] = [@ EXCEPT ![n] = [pods[k][n] EXCEPT !.running = TRUE]]]
    BY <1>6 DEF PodRuns
  <2>4. /\ pods' \in [Kinds -> [Nodes -> Pod]]
        /\ \A j \in Kinds, x \in Nodes :
             pods'[j][x] = IF j = k /\ x = n THEN [pods[k][n] EXCEPT !.running = TRUE]
                           ELSE pods[j][x]
    <3> DEFINE q == [pods[k][n] EXCEPT !.running = TRUE]
    <3>1. q \in Pod /\ pods' = [pods EXCEPT ![k] = [@ EXCEPT ![n] = q]]
      BY <2>2, <2>3
    <3> HIDE DEF q
    <3>2. /\ pods' \in [Kinds -> [Nodes -> Pod]]
          /\ \A j \in Kinds, x \in Nodes :
               pods'[j][x] = IF j = k /\ x = n THEN q ELSE pods[j][x]
      BY <1>1, <3>1 DEF NamespaceOK
    <3> QED
      BY <3>2 DEF q
  <2>5. UNCHANGED <<svcs, policy>>
    BY <1>6 DEF PodRuns
  <2>6. ASSUME NEW j \in Kinds, NEW x \in Nodes
        PROVE  pods'[j][x].by <= current /\ (pods'[j][x].by = 0 => pods'[j][x] = NoPod)
    <3>1. pods[j][x].by <= current /\ (pods[j][x].by = 0 => pods[j][x] = NoPod)
      BY <1>1 DEF NamespaceOK
    <3>2. pods'[j][x] = pods[j][x] \/ (pods'[j][x].by = pods[j][x].by /\ pods[j][x].by # 0)
      BY <2>1, <2>2, <2>4
    <3> QED
      BY <3>1, <3>2
  <2> QED
    BY <1>1, <2>4, <2>5, <2>6 DEF NamespaceOK
<1>7. ASSUME NEW k \in Kinds, NEW n \in Nodes, PodGone(k, n)
      PROVE  NamespaceOK'
  <2>1. NoPod \in Pod /\ NoPod.by = 0
    BY ConstantsAreNumbers DEF NoPod, Pod
  <2>2. pods' = [pods EXCEPT ![k] = [@ EXCEPT ![n] = NoPod]] /\ UNCHANGED <<svcs, policy>>
    BY <1>7 DEF PodGone
  <2>3. /\ pods' \in [Kinds -> [Nodes -> Pod]]
        /\ \A j \in Kinds, x \in Nodes :
             pods'[j][x] = IF j = k /\ x = n THEN NoPod ELSE pods[j][x]
    BY <1>1, <2>1, <2>2 DEF NamespaceOK
  <2> QED
    BY <1>1, <2>1, <2>2, <2>3 DEF NamespaceOK
<1> QED
  BY <1>2, <1>3, <1>4, <1>5, <1>6, <1>7

\* The steps that leave iterations and results alone keep them typed.
LEMMA OutcomeStays ==
  ASSUME TypeOK, UNCHANGED <<tests, current, iterating, results, summary, succeeded>>,
         error' \in BOOLEAN
  PROVE  OutcomeOK'
<1>1. OutcomeOK
  BY TypesByParts
<1>2. cfg' = cfg
  BY DEF cfg
<1> QED
  BY <1>1, <1>2 DEF OutcomeOK, iterating

\* A measurement that took place is the result of its mode.
LEMMA MeasureGoesOn ==
  ASSUME TypeOK, Deployed, Paired, Proceeds, Measure
  PROVE  /\ pc = "measure" /\ mode \in 1..3 /\ Order[mode] \in Modes
         /\ \E s \in Sample : /\ s # NoSample /\ (Order[mode] \in Internal => Fair(s))
                            /\ result' = [result EXCEPT ![Order[mode]] = s]
         /\ Enter(ModeAfter(mode)) /\ ModeAfter(mode) \in 1..4
         /\ UNCHANGED <<tests, current, node, iteration, testpods, summary, error, namespace,
                        history, faults>>
<1>1. /\ pc = "measure" /\ Enter(ModeAfter(mode))
      /\ UNCHANGED <<tests, current, node, iteration, testpods, summary, error, namespace,
                     history, faults>>
  BY DEF Measure, run
<1>2. mode \in 1..3 /\ Order[mode] \in cfg.modes
  BY <1>1, ThreeModes DEF Proceeds
<1>3. PICK s \in Samples : result' = [result EXCEPT ![Order[mode]] = s]
  BY DEF Measure
<1>4. s \in Sample /\ s # NoSample /\ (Order[mode] \in Internal => Fair(s))
  BY <1>1, <1>2, SamplesAreFair
<1>5. ModeAfter(mode) \in 1..4
  BY <1>2, ModeAfterIsNext
<1> QED
  BY <1>1, <1>2, <1>3, <1>4, <1>5, ThreeModes

\* What Enter makes of typed results is typed.
LEMMA EnterKeepsTypes ==
  ASSUME TypeOK, NEW i \in 1..4, Enter(i), result' \in [Modes -> Sample],
         iteration' \in Nat, succeeded < iteration'
  PROVE  /\ mode' \in 0..Last /\ tries' \in 0..MaxTries
         /\ results' \in Seq([Modes -> Sample]) /\ succeeded' \in 0..iteration'
         /\ pc' \in {"iterate", "wait", "measure"}
<1>1. results \in Seq([Modes -> Sample]) /\ succeeded \in Nat
  BY CountersAreNumbers DEF TypeOK
<1>2. results' = results \/ results' = Append(results, result')
  BY EnterGoesOn
<1>3. results' \in Seq([Modes -> Sample])
  BY <1>1, <1>2, AppendProperties
<1>4. succeeded' \in 0..iteration'
  BY <1>1, EnterGoesOn
<1>5. mode' \in 0..Last /\ tries' \in 0..MaxTries
  BY EnterGoesOn, ThreeModes, ConstantsAreNumbers
<1> QED
  BY <1>3, <1>4, <1>5, EnterGoesOn

\* The iterations keep the types of what they count and collect.
LEMMA IterationKeepsTypes ==
  ASSUME TypeOK, Deployed, Proceeds, Paired, Kept,
         Begin \/ PodsAreUp \/ PodsAreNotUp \/ Measure \/ MeasureFails
  PROVE  /\ OutcomeOK' /\ pc' \in {"iterate", "wait", "measure"}
         /\ UNCHANGED <<tests, current, node, namespace, history>>
<1>0. /\ OutcomeOK /\ cfg.iterations \in Nat /\ iteration \in Nat /\ succeeded \in Nat
      /\ succeeded \in 0..iteration /\ result \in [Modes -> Sample] /\ 0 \in 0..MaxTries
      /\ results \in Seq([Modes -> Sample]) /\ testpods \in Seq(Nodes \X (1..Length))
  BY TypesByParts, CountersAreNumbers, ConstantsAreNumbers DEF OutcomeOK
<1> DEFINE Typed == /\ iteration' \in 0..cfg.iterations /\ mode' \in 0..Last
                    /\ tries' \in 0..MaxTries /\ testpods' \in Seq(Nodes \X (1..Length))
                    /\ result' \in [Modes -> Sample] /\ results' \in Seq([Modes -> Sample])
                    /\ succeeded' \in 0..iteration'
<1>1. /\ pc' \in {"iterate", "wait", "measure"} /\ Typed
      /\ UNCHANGED <<tests, current, node, namespace, history, summary, error>>
  <2>1. CASE Begin
    <3>1. iteration' \in 0..cfg.iterations /\ iteration' \in Nat /\ succeeded < iteration'
      BY <1>0, <2>1, BeginGoesOn
    <3>2. result' \in [Modes -> Sample] /\ testpods' \in Seq(Nodes \X (1..Length))
      BY <2>1, BeginGoesOn, NothingIsASample, EmptySeq
    <3>3. ModeAfter(0) \in 1..4
      BY ModeAfterIsNext
    <3>4. CASE UNCHANGED <<results, succeeded>> /\ pc' = "wait" /\ mode' = 0 /\ tries' = 0
      BY <1>0, <2>1, <3>1, <3>2, <3>4, BeginGoesOn, ThreeModes
    <3>5. CASE Enter(ModeAfter(0))
      BY <2>1, <3>1, <3>2, <3>3, <3>5, BeginGoesOn, EnterKeepsTypes
    <3> QED
      BY <2>1, <3>4, <3>5, BeginGoesOn
  <2>2. CASE PodsAreUp
    <3>1. iteration' = iteration /\ result' = result /\ iteration' \in 0..cfg.iterations
      BY <1>0, <2>2, PodsAreUpGoesOn DEF OutcomeOK
    <3>2. CASE mode = 0 /\ ~(Cardinality(Found) < 2)
      <4>1. testpods' = InOrder(Found) /\ Enter(ModeAfter(0)) /\ Found # {} /\ pc = "wait"
        BY <2>2, <3>2, PodsAreUpGoesOn
      <4>2. testpods' \in Seq(Nodes \X (1..Length))
        <5>1. Found \in SUBSET Listed
          BY DEF Found
        <5> QED
          BY <4>1, <5>1, InOrderIsSorted
      <4>3. ModeAfter(0) \in 1..4
        BY ModeAfterIsNext
      <4>4. succeeded < iteration'
        BY <3>1, <4>1 DEF Kept
      <4> QED
        BY <1>0, <2>2, <3>1, <4>1, <4>2, <4>3, <4>4, PodsAreUpGoesOn, EnterKeepsTypes
    <3>3. CASE UNCHANGED <<mode, tries, testpods, results, succeeded>>
               /\ pc' \in {"iterate", "measure"}
      BY <1>0, <2>2, <3>1, <3>3, PodsAreUpGoesOn DEF OutcomeOK
    <3> QED
      BY <2>2, <3>2, <3>3, PodsAreUpGoesOn, FailureGoesOn
  <2>3. CASE PodsAreNotUp
    <3>1. /\ UNCHANGED <<tests, current, node, namespace, history, summary, error>>
          /\ UNCHANGED <<iteration, mode, testpods, result>> /\ pc = "wait"
      BY <2>3 DEF PodsAreNotUp, run
    <3>2. /\ UNCHANGED <<results, succeeded>> /\ pc' \in {"wait", "iterate"}
          /\ tries' \in {tries, 0} \/ (tries < MaxTries /\ tries' = tries + 1)
      BY <2>3, <3>1, FailureGoesOn DEF PodsAreNotUp
    <3>3. tries' \in 0..MaxTries
      BY <1>0, <3>2, CountersAreNumbers, ConstantsAreNumbers
    <3> QED
      BY <1>0, <3>1, <3>2, <3>3 DEF OutcomeOK
  <2>4. CASE Measure
    <3>1. PICK s \in Sample : result' = [result EXCEPT ![Order[mode]] = s]
      BY <2>4, MeasureGoesOn
    <3>2. result' \in [Modes -> Sample]
      BY <1>0, <3>1
    <3>3. iteration' = iteration /\ iteration' \in 0..cfg.iterations /\ succeeded < iteration'
      BY <1>0, <2>4, MeasureGoesOn DEF OutcomeOK, Kept
    <3> QED
      BY <1>0, <2>4, <3>2, <3>3, MeasureGoesOn, EnterKeepsTypes
  <2>5. CASE MeasureFails
    <3>1. /\ UNCHANGED <<tests, current, node, namespace, history, summary, error>>
          /\ UNCHANGED <<iteration, mode, tries, testpods, result>>
      BY <2>5 DEF MeasureFails, run, iterating
    <3>2. UNCHANGED <<results, succeeded>> /\ pc' = "iterate"
      BY <2>5, FailureGoesOn DEF MeasureFails
    <3> QED
      BY <1>0, <3>1, <3>2 DEF OutcomeOK
  <2> QED
    BY <2>1, <2>2, <2>3, <2>4, <2>5
<1>2. cfg' = cfg
  BY <1>1 DEF cfg
<1>3. summary' \in [Modes -> Seq(Sample)] /\ error' \in BOOLEAN
  BY <1>0, <1>1 DEF OutcomeOK
<1> QED
  BY <1>1, <1>2, <1>3 DEF OutcomeOK

\* What Summarize does: nothing to report, a unit nobody knows, or the values.
LEMMA SummarizeGoesOn ==
  ASSUME Summarize
  PROVE  /\ pc = "iterate" /\ iteration = cfg.iterations /\ pc' = "teardown"
         /\ \/ /\ results = <<>> /\ error' = (cfg.iterations > 0) /\ summary' = summary
            \/ results # <<>> /\ error' = TRUE /\ summary' = NoSummary
            \/ /\ results # <<>> /\ error' = FALSE /\ summary' = [m \in Modes |-> Values(m)]
         /\ UNCHANGED <<tests, current, node, iterating, results, succeeded, namespace, history,
                        faults>>
<1> DEFINE all == [m \in Modes |-> Values(m)]
           unknown == \E m \in Modes : \E i \in 1..Len(all[m]) : all[m][i].unit = "unknown"
<1>1. /\ pc = "iterate" /\ iteration = cfg.iterations /\ pc' = "teardown"
      /\ IF results = <<>>
         THEN error' = (cfg.iterations > 0) /\ UNCHANGED summary
         ELSE error' = unknown /\ summary' = IF unknown THEN NoSummary ELSE all
      /\ UNCHANGED <<tests, current, node, iterating, results, succeeded, namespace, history,
                     faults>>
  BY Zenon DEF Summarize, run
<1>2. unknown \in BOOLEAN
  OBVIOUS
<1> HIDE DEF unknown
<1>3. unknown = TRUE \/ unknown = FALSE
  BY <1>2
<1> QED
  BY <1>1, <1>3, Zenon

\* The steps that leave iterations and results alone.
Aside ==
  \/ CleanupBefore \/ Teardown \/ CreateTestPolicy \/ Deploy
  \/ \E k \in Kinds, n \in Nodes : PodRuns(k, n) \/ PodGone(k, n)

\* They may set the error, and their own variables keep their types.
LEMMA AsideKeepsResults ==
  ASSUME TypeOK, Aside
  PROVE  /\ UNCHANGED <<tests, current, iterating, results, summary, succeeded>>
         /\ error' \in {TRUE, error} /\ RestOK'
<1>1. RestOK /\ error \in BOOLEAN /\ faults \in Nat /\ faults \in 0..MaxFaults /\ node \in Nat
      /\ MaxFaults \in Nat /\ NumNodes \in Nat /\ Nodes = 1..NumNodes /\ node \in Nodes
  BY TypesByParts, CountersAreNumbers, ConstantsAreNumbers DEF OutcomeOK, Nodes
<1>2. CASE CleanupBefore
  <2>1. PICK failed \in BOOLEAN : Cleanup(failed) /\ inherited' = failed
    BY <1>2 DEF CleanupBefore
  <2>2. faults' \in 0..MaxFaults
    BY <2>1, CleanUpKeepsTypes
  <2> QED
    BY <1>1, <1>2, <2>1, <2>2 DEF CleanupBefore, run, outcome, RestOK
<1>3. CASE Teardown
  <2>1. PICK failed \in BOOLEAN : Cleanup(failed)
    BY <1>3 DEF Teardown
  <2>2. faults' \in 0..MaxFaults
    BY <2>1, CleanUpKeepsTypes
  <2> QED
    BY <1>1, <1>3, <2>1, <2>2 DEF Teardown, run, outcome, history, RestOK
<1>4. CASE CreateTestPolicy
  <2>1. /\ pc' \in {"deploy", "teardown"} /\ error' \in {TRUE, error}
        /\ UNCHANGED <<tests, current, node, iterating, results, summary, succeeded, inherited,
                       stale>>
    BY <1>4 DEF CreateTestPolicy, run, history, GiveUp
  <2>2. faults' = faults \/ (faults < MaxFaults /\ faults' = faults + 1)
    BY <1>4 DEF CreateTestPolicy, Fault
  <2>3. faults' \in 0..MaxFaults
    BY <1>1, <2>2
  <2> QED
    BY <1>1, <2>1, <2>3 DEF RestOK
<1>5. CASE Deploy
  <2>1. stale' \subseteq Nodes
    BY <1>1, <1>5, OnePodIsMade DEF Deploy, RestOK
  <2>2. node' \in Nodes
    BY <1>1, <1>5 DEF Deploy
  <2>3. faults' \in 0..MaxFaults
    BY <1>1, <1>5 DEF Deploy, Fault
  <2>4. pc' \in {"deploy", "iterate", "teardown"} /\ error' \in {TRUE, error}
    BY <1>5 DEF Deploy, GiveUp
  <2>5. UNCHANGED <<tests, current, iterating, results, summary, succeeded, inherited>>
    BY <1>5 DEF Deploy, run
  <2> QED
    BY <1>1, <2>1, <2>2, <2>3, <2>4, <2>5 DEF RestOK
<1>6. ASSUME NEW k \in Kinds, NEW n \in Nodes, PodRuns(k, n) \/ PodGone(k, n)
      PROVE  UNCHANGED <<run, pc, node, iterating, outcome, history, faults>>
  BY <1>6 DEF PodRuns, PodGone
<1>7. CASE \E k \in Kinds, n \in Nodes : PodRuns(k, n) \/ PodGone(k, n)
  BY <1>1, <1>6, <1>7 DEF run, outcome, history, RestOK
<1> QED
  BY <1>2, <1>3, <1>4, <1>5, <1>7 DEF Aside

\* The disjuncts of Next, by what their proofs have in common.
LEMMA NextByKind ==
  ASSUME [Next]_vars
  PROVE  \/ Aside \/ NextTest \/ Summarize
         \/ Begin \/ PodsAreUp \/ PodsAreNotUp \/ Measure \/ MeasureFails
         \/ UNCHANGED vars
BY DEF Next, Program, Kubelets, Aside

\* All steps keep the types.
LEMMA StepKeepsTypes ==
  ASSUME TypeOK, Deployed, Proceeds, Paired, Kept, [Next]_vars
  PROVE  TypeOK'
<1>1. NamespaceOK /\ OutcomeOK /\ RestOK
  BY TypesByParts
<1>2. CASE Aside
  <2>1. NamespaceOK'
    BY <1>2, AsideKeepsResults, StepKeepsNamespaceOK DEF Aside
  <2>2. OutcomeOK'
    <3>1. error' \in BOOLEAN
      BY <1>1, <1>2, AsideKeepsResults DEF OutcomeOK
    <3> QED
      BY <1>2, <3>1, AsideKeepsResults, OutcomeStays
  <2> QED
    BY <1>2, <2>1, <2>2, AsideKeepsResults, TypesByParts DEF TypeOK, NamespaceOK, OutcomeOK, RestOK
<1>3. CASE Begin \/ PodsAreUp \/ PodsAreNotUp \/ Measure \/ MeasureFails
  <2>1. /\ OutcomeOK' /\ pc' \in {"iterate", "wait", "measure"}
        /\ UNCHANGED <<tests, current, node, namespace, history>>
    BY <1>3, IterationKeepsTypes
  <2>2. NamespaceOK'
    BY <2>1, StepKeepsNamespaceOK
  <2>3. faults' = faults \/ (faults < MaxFaults /\ faults' = faults + 1)
    BY <1>3 DEF Begin, PodsAreUp, PodsAreNotUp, Measure, MeasureFails, Fault
  <2>4. faults' \in 0..MaxFaults
    BY <2>3, CountersAreNumbers, ConstantsAreNumbers
  <2>5. RestOK'
    BY <1>1, <2>1, <2>4 DEF RestOK, history
  <2> QED
    BY <2>1, <2>2, <2>5 DEF TypeOK, NamespaceOK, OutcomeOK, RestOK
<1>4. CASE Summarize
  <2>1. UNCHANGED <<tests, current, node, iterating, results, succeeded, namespace, history,
                    faults>> /\ pc' = "teardown"
    BY <1>4, SummarizeGoesOn
  <2>2. NamespaceOK' /\ RestOK'
    <3>1. NamespaceOK'
      BY <2>1, StepKeepsNamespaceOK
    <3> QED
      BY <1>1, <2>1, <3>1 DEF RestOK, history
  <2>3. results \in Seq([Modes -> Sample])
    BY <1>1 DEF OutcomeOK
  <2>4. \A m \in Modes : Values(m) \in Seq(Sample)
    BY <2>3, ValuesAreTheSamples
  <2>5. summary' \in [Modes -> Seq(Sample)]
    BY <1>1, <1>4, <2>4, SummarizeGoesOn, NothingIsASample DEF OutcomeOK
  <2>6. error' \in BOOLEAN
    <3>1. (cfg.iterations > 0) \in BOOLEAN
      BY ConfigsAreTyped
    <3> QED
      BY <1>4, <3>1, SummarizeGoesOn, Zenon
  <2>7. cfg' = cfg
    BY <2>1 DEF cfg
  <2>8. OutcomeOK'
    BY <1>1, <2>1, <2>5, <2>6, <2>7 DEF OutcomeOK, iterating
  <2> QED
    BY <2>2, <2>8 DEF TypeOK, NamespaceOK, OutcomeOK, RestOK
<1>5. CASE NextTest
  <2>1. /\ tests' = tests /\ current' = current + 1 /\ current < Length /\ pc' = "cleanup"
        /\ node' = 1 /\ iteration' = 0 /\ mode' = 0 /\ tries' = 0 /\ testpods' = <<>>
        /\ result' = NoResult /\ results' = <<>> /\ summary' = NoSummary /\ error' = FALSE
        /\ inherited' = FALSE /\ stale' = {} /\ succeeded' = 0
        /\ UNCHANGED <<pods, svcs, policy, faults>>
    BY <1>5 DEF NextTest, namespace
  <2>2. current' \in 1..Length /\ current \in Nat
    BY <2>1, CountersAreNumbers, ConstantsAreNumbers
  <2>3. tests \in [1..Length -> Configs] /\ faults \in 0..MaxFaults
    BY <1>1 DEF RestOK
  <2>4. cfg' \in Configs /\ cfg'.iterations \in Nat
    <3>1. cfg' = tests[current']
      BY <2>1 DEF cfg
    <3> QED
      BY <2>2, <2>3, <3>1, PerfTestAssumption
  <2>5. RestOK'
    BY <2>1, <2>2, <2>3, ConstantsAreNumbers DEF RestOK
  <2>6. OutcomeOK'
    <3>1. 0 \in 0..cfg'.iterations /\ 0 \in 0..MaxTries /\ 0 \in 0..Last /\ 0 \in 0..0
      BY <2>4, ConstantsAreNumbers, ThreeModes
    <3>2. <<>> \in Seq(Nodes \X (1..Length)) /\ <<>> \in Seq([Modes -> Sample])
      BY EmptySeq
    <3> QED
      BY <2>1, <3>1, <3>2, NothingIsASample DEF OutcomeOK
  <2>7. NamespaceOK'
    <3>1. ASSUME NEW k \in Kinds, NEW n \in Nodes
          PROVE  /\ svcs[k][n] <= current' /\ pods[k][n].by <= current'
                 /\ pods[k][n].by = 0 => pods[k][n] = NoPod
      <4>1. /\ svcs[k][n] <= current /\ pods[k][n].by <= current
            /\ pods[k][n].by = 0 => pods[k][n] = NoPod
            /\ svcs[k][n] \in 0..Length /\ pods[k][n] \in Pod
        BY <1>1 DEF NamespaceOK
      <4>2. svcs[k][n] \in Nat /\ pods[k][n].by \in Nat
        BY <4>1, ConstantsAreNumbers DEF Pod
      <4> QED
        BY <2>1, <2>2, <4>1, <4>2
    <3>2. policy \in 0..current'
      BY <2>1, <2>2, CountersAreNumbers
    <3>3. pods \in [Kinds -> [Nodes -> Pod]] /\ svcs \in [Kinds -> [Nodes -> 0..Length]]
      BY <1>1 DEF NamespaceOK
    <3> QED
      BY <2>1, <3>1, <3>2, <3>3 DEF NamespaceOK
  <2> QED
    BY <2>5, <2>6, <2>7 DEF TypeOK, NamespaceOK, OutcomeOK, RestOK
<1>6. CASE UNCHANGED vars
  BY <1>6 DEF TypeOK, vars, run, iterating, outcome, namespace, history, cfg
<1> QED
  BY <1>2, <1>3, <1>4, <1>5, <1>6, NextByKind

-----------------------------------------------------------------------------
(* What is deployed.                                                       *)

\* A cleanup in which no call fails removes all services and lets all pods terminate.
LEMMA CleanupWithoutFailure ==
  ASSUME TypeOK, Cleanup(FALSE), NEW k \in Kinds, NEW n \in Nodes
  PROVE  svcs'[k][n] = 0 /\ (pods'[k][n].by = 0 \/ pods'[k][n].terminating)
<1>1. PICK failing \in SUBSET Calls :
        /\ FALSE = (failing # {})
        /\ \E stop \in [failing -> Nodes] : CleanUp(failing, stop)
  BY DEF Cleanup
<1>2. failing = {}
  BY <1>1
<1>3. PICK stop : CleanUp({}, stop)
  BY <1>1, <1>2
<1>4. /\ svcs' = [j \in Kinds |-> [x \in Nodes |-> 0]]
      /\ pods' = [j \in Kinds |-> [x \in Nodes |->
                    IF Doomed(j, x) THEN Deleted(pods[j][x]) ELSE pods[j][x]]]
  BY <1>3 DEF CleanUp
<1>5. pods[k][n] \in Pod
  BY DEF TypeOK
<1>6. Deleted(pods[k][n]).terminating
  BY <1>5 DEF Deleted, Pod
<1> QED
  BY <1>4, <1>6 DEF Doomed

\* What is said of a node while a test is set up and runs.
InPlace(n) ==
  /\ ~inherited =>
       /\ svcs[kind][n] \in {0, current}
       /\ \/ pods[kind][n].by \in {0, current}
          \/ n \in stale
          \/ Ahead(n) /\ pods[kind][n].terminating
  /\ stale = {} /\ ~Ahead(n) => pods[kind][n].by # 0 /\ ~pods[kind][n].terminating

\* Deployed, with what is said of a node under its name.
LEMMA DeployedByNode ==
  Deployed <=>
    /\ pc \in {"cleanup", "policy"} => stale = {} /\ node = 1
    /\ pc \in {"deploy", "iterate", "wait", "measure"} => policy = current
    /\ pc \in {"policy", "deploy", "iterate", "wait", "measure"} => \A n \in Nodes : InPlace(n)
BY DEF Deployed, InPlace

\* The kubelets start pods, and take away the terminating ones.
LEMMA KubeletsMove ==
  ASSUME TypeOK, NEW k \in Kinds, NEW n \in Nodes, PodRuns(k, n) \/ PodGone(k, n)
  PROVE  /\ UNCHANGED <<run, pc, node, iterating, outcome, svcs, policy, history, faults>>
         /\ \A j \in Kinds, x \in Nodes :
              \/ /\ pods'[j][x].by = pods[j][x].by
                 /\ pods'[j][x].terminating = pods[j][x].terminating
              \/ pods[j][x].terminating /\ pods'[j][x].by = 0
<1>1. UNCHANGED <<run, pc, node, iterating, outcome, svcs, policy, history, faults>>
  BY DEF PodRuns, PodGone
<1>2. pods \in [Kinds -> [Nodes -> Pod]]
  BY DEF TypeOK
<1>3. ASSUME NEW q \in Pod
      PROVE  /\ [q EXCEPT !.running = TRUE].by = q.by
             /\ [q EXCEPT !.running = TRUE].terminating = q.terminating
  BY DEF Pod
<1>4. ASSUME NEW j \in Kinds, NEW x \in Nodes
      PROVE  \/ /\ pods'[j][x].by = pods[j][x].by
                /\ pods'[j][x].terminating = pods[j][x].terminating
             \/ pods[j][x].terminating /\ pods'[j][x].by = 0
  <2>1. CASE PodRuns(k, n)
    <3>1. pods' = [pods EXCEPT ![k] = [@ EXCEPT ![n] = [pods[k][n] EXCEPT !.running = TRUE]]]
      BY <2>1 DEF PodRuns
    <3>2. pods'[j][x] = pods[j][x] \/ (j = k /\ x = n)
      BY <1>2, <3>1
    <3>3. pods'[k][n] = [pods[k][n] EXCEPT !.running = TRUE]
      BY <1>2, <3>1
    <3>4. pods[k][n] \in Pod
      BY <1>2
    <3>5. /\ pods'[k][n].by = pods[k][n].by
          /\ pods'[k][n].terminating = pods[k][n].terminating
      BY <1>3, <3>3, <3>4
    <3> QED
      BY <3>2, <3>5
  <2>2. CASE PodGone(k, n)
    <3>1. pods' = [pods EXCEPT ![k] = [@ EXCEPT ![n] = NoPod]] /\ pods[k][n].terminating
      BY <2>2 DEF PodGone
    <3>2. pods'[j][x] = pods[j][x] \/ (j = k /\ x = n)
      BY <1>2, <3>1
    <3>3. pods'[k][n] = NoPod
      BY <1>2, <3>1
    <3>4. NoPod.by = 0
      BY DEF NoPod
    <3> QED
      BY <3>1, <3>2, <3>3, <3>4
  <2> QED
    BY <2>1, <2>2
<1> QED
  BY <1>1, <1>4

\* A node's pod and service are its own, or the pod is noted as stale.
LEMMA DeployStays ==
  ASSUME TypeOK, Deployed, Deploy
  PROVE  Deployed'
<1>0. /\ kind \in Kinds /\ node \in 1..NumNodes /\ NumNodes \in Nat /\ Nodes = 1..NumNodes
      /\ current # 0 /\ pc = "deploy"
  BY ConfigsAreTyped, CountersAreNumbers, ConstantsAreNumbers DEF Deploy, Nodes
<1>1. /\ pc' \in {"deploy", "iterate", "teardown"} /\ policy' = policy /\ inherited' = inherited
      /\ current' = current /\ kind' = kind
  BY <1>0 DEF Deploy, GiveUp, run, kind, cfg
<1>2. policy = current /\ \A n \in Nodes : InPlace(n)
  BY <1>0, DeployedByNode
<1>3. CASE pc' = "teardown"
  BY <1>3, DeployedByNode DEF Deployed
<1>4. CASE pc' # "teardown"
  <2>1. /\ GetOrCreatePod(node) /\ GetOrCreateSvc(node)
        /\ IF node < NumNodes THEN node' = node + 1 /\ pc' = "deploy"
                              ELSE pc' = "iterate" /\ node' = node
    BY <1>0, <1>4 DEF Deploy, GiveUp
  <2>2. /\ \A n \in Nodes : n # node => pods'[kind][n] = pods[kind][n]
        /\ IF pods[kind][node].by # 0 THEN pods'[kind][node] = pods[kind][node]
           ELSE pods'[kind][node] = [by |-> current, running |-> FALSE, terminating |-> FALSE]
        /\ stale' = IF pods[kind][node].terminating THEN stale \cup {node} ELSE stale
    BY <1>0, <2>1, OnePodIsMade
  <2>3. \A n \in Nodes : svcs'[kind][n] \in {svcs[kind][n], current}
    BY <1>0, <2>1, OneServiceIsMade
  <2>4. ASSUME NEW n \in Nodes, n # node
        PROVE  Ahead(n)' <=> Ahead(n)
    BY <1>0, <2>1, <2>4 DEF Ahead
  <2>5. ASSUME NEW n \in Nodes, n = node
        PROVE  ~Ahead(n)'
    BY <1>0, <2>1, <2>5 DEF Ahead
  <2>6. ASSUME NEW n \in Nodes, n # node
        PROVE  InPlace(n)'
    <3>1. pods'[kind][n] = pods[kind][n] /\ svcs'[kind][n] \in {svcs[kind][n], current}
      BY <2>2, <2>3, <2>6
    <3>2. (Ahead(n)' <=> Ahead(n)) /\ stale \subseteq stale'
      BY <2>2, <2>4, <2>6
    <3>3. InPlace(n)
      BY <1>2
    <3> QED
      BY <1>1, <3>1, <3>2, <3>3 DEF InPlace
  <2>7. ASSUME NEW n \in Nodes, n = node
        PROVE  InPlace(n)'
    <3>1. node \in Nodes /\ InPlace(node) /\ svcs'[kind][node] \in {svcs[kind][node], current}
      BY <1>0, <1>2, <2>3
    <3>2. ~inherited => pods'[kind][node].by \in {0, current} \/ node \in stale'
      BY <2>2, <3>1 DEF InPlace
    <3>3. stale' = {} => pods'[kind][node].by # 0 /\ ~pods'[kind][node].terminating
      BY <1>0, <2>2
    <3>4. ~inherited => svcs'[kind][node] \in {0, current}
      BY <3>1 DEF InPlace
    <3>5. ~Ahead(n)'
      BY <2>5, <2>7
    <3> QED
      BY <1>1, <2>7, <3>2, <3>3, <3>4, <3>5 DEF InPlace
  <2>8. \A n \in Nodes : InPlace(n)'
    BY <2>6, <2>7
  <2> QED
    BY <1>1, <1>2, <2>8, DeployedByNode DEF Deployed, InPlace
<1> QED
  BY <1>3, <1>4

\* All steps keep Deployed: a cleanup that failed is noted, a pod that goes was not deployed.
LEMMA StepKeepsDeployed ==
  ASSUME TypeOK, Deployed, Proceeds, Paired, Kept, [Next]_vars
  PROVE  Deployed'
<1>0. kind \in Kinds
  BY ConfigsAreTyped
<1>1. CASE CleanupBefore
  <2>1. PICK failed \in BOOLEAN : Cleanup(failed) /\ inherited' = failed
    BY <1>1 DEF CleanupBefore
  <2>2. /\ pc = "cleanup" /\ pc' = "policy" /\ node' = node /\ stale' = stale
        /\ kind' = kind /\ current' = current
    BY <1>1 DEF CleanupBefore, run, kind, cfg
  <2>3. stale' = {} /\ node' = 1
    BY <2>2 DEF Deployed
  <2>4. ASSUME NEW n \in Nodes
        PROVE  InPlace(n)'
    <3>1. Ahead(n)'
      BY <2>2 DEF Ahead
    <3>2. ~inherited' => svcs'[kind][n] = 0 /\ (pods'[kind][n].by = 0 \/ pods'[kind][n].terminating)
      <4>1. SUFFICES ASSUME ~inherited'
                     PROVE  svcs'[kind][n] = 0 /\ (pods'[kind][n].by = 0 \/ pods'[kind][n].terminating)
        OBVIOUS
      <4>2. Cleanup(FALSE)
        BY <2>1, <4>1
      <4> QED
        BY <1>0, <4>2, CleanupWithoutFailure
    <3> QED
      BY <2>2, <3>1, <3>2 DEF InPlace
  <2> QED
    BY <2>2, <2>3, <2>4 DEF Deployed, InPlace
<1>2. CASE CreateTestPolicy
  <2>1. /\ pc = "policy" /\ kind' = kind
        /\ UNCHANGED <<current, node, pods, svcs, inherited, stale>>
        /\ pc' = "teardown" \/ (pc' = "deploy" /\ policy' = current)
    BY <1>2 DEF CreateTestPolicy, NewPolicy, GiveUp, run, history, kind, cfg
  <2>2. stale = {} /\ node = 1 /\ \A n \in Nodes : InPlace(n)
    BY <2>1, DeployedByNode
  <2>3. \A n \in Nodes : n >= 1
    BY DEF Nodes
  <2>4. ASSUME NEW n \in Nodes, pc' = "deploy"
        PROVE  InPlace(n)'
    <3>1. Ahead(n)' /\ Ahead(n) /\ InPlace(n)
      BY <2>1, <2>2, <2>3, <2>4 DEF Ahead
    <3> QED
      BY <2>1, <3>1 DEF InPlace
  <2> QED
    BY <2>1, <2>4 DEF Deployed, InPlace
<1>3. CASE Deploy
  BY <1>3, DeployStays
<1>4. CASE Begin \/ PodsAreUp \/ PodsAreNotUp \/ Measure \/ MeasureFails
  <2>1. /\ pc' \in {"iterate", "wait", "measure"}
        /\ UNCHANGED <<tests, current, node, pods, svcs, policy, inherited, stale>>
    BY <1>4, IterationKeepsTypes DEF namespace, history
  <2>2. pc \in {"iterate", "wait", "measure"}
    BY <1>4 DEF Begin, PodsAreUp, PodsAreNotUp, Measure, MeasureFails
  <2>3. kind' = kind /\ policy = current /\ \A n \in Nodes : InPlace(n)
    BY <2>1, <2>2, DeployedByNode DEF kind, cfg
  <2>4. ASSUME NEW n \in Nodes
        PROVE  InPlace(n)'
    <3>1. ~Ahead(n) /\ ~Ahead(n)' /\ InPlace(n)
      BY <2>1, <2>2, <2>3 DEF Ahead
    <3> QED
      BY <2>1, <2>3, <3>1 DEF InPlace
  <2> QED
    BY <2>1, <2>3, <2>4 DEF Deployed, InPlace
<1>5. CASE Summarize \/ Teardown
  BY <1>5 DEF Summarize, Teardown, Deployed
<1>6. CASE NextTest
  BY <1>6 DEF NextTest, Deployed
<1>7. ASSUME NEW k \in Kinds, NEW n \in Nodes, PodRuns(k, n) \/ PodGone(k, n)
      PROVE  Deployed'
  <2>1. /\ UNCHANGED <<pc, node, svcs, policy, inherited, stale, current>> /\ kind' = kind
        /\ \A x \in Nodes :
             \/ /\ pods'[kind][x].by = pods[kind][x].by
                /\ pods'[kind][x].terminating = pods[kind][x].terminating
             \/ pods[kind][x].terminating /\ pods'[kind][x].by = 0
    BY <1>0, <1>7, KubeletsMove DEF run, history, kind, cfg
  <2>2. ASSUME NEW x \in Nodes, InPlace(x)
        PROVE  InPlace(x)'
    <3>1. Ahead(x)' <=> Ahead(x)
      BY <2>1 DEF Ahead
    <3> QED
      BY <2>1, <2>2, <3>1 DEF InPlace
  <2> QED
    BY <2>1, <2>2, DeployedByNode DEF Deployed, InPlace
<1>8. CASE UNCHANGED vars
  BY <1>8 DEF Deployed, Ahead, kind, cfg, vars, run, iterating, outcome, namespace, history
<1> QED
  BY <1>1, <1>2, <1>3, <1>4, <1>5, <1>6, <1>7, <1>8, NextByKind DEF Aside

-----------------------------------------------------------------------------
(* What is measured, and between which pods.                               *)

\* Going on to the next mode after position j, or to the end of the iteration.
LEMMA EnterProceeds ==
  ASSUME TypeOK, NEW j \in 0..3, Enter(ModeAfter(j)), UNCHANGED <<tests, current>>,
         \A h \in 1..3 : result'[Order[h]] # NoSample <=> h <= j /\ Order[h] \in cfg.modes
  PROVE  /\ Proceeds'
         /\ pc' \in {"wait", "measure"} => mode' \in 1..3
         /\ pc' = "iterate" => \A m \in Modes : result'[m] # NoSample <=> m \in cfg.modes
<1> DEFINE i == ModeAfter(j)
<1>1. /\ i \in (j + 1)..4
      /\ i = 4 \/ Order[i] \in cfg.modes
      /\ \A h \in (j + 1)..(i - 1) : Order[h] \notin cfg.modes
  BY ModeAfterIsNext
<1>2. i \in 1..4 /\ Enter(i)
  BY <1>1
<1>3. cfg' = cfg
  BY DEF cfg
<1> HIDE DEF i
<1>4. /\ mode' = i
      /\ \/ i = 4 /\ pc' = "iterate"
         \/ i # 4 /\ pc' \in {"wait", "measure"}
  BY <1>2, EnterGoesOn
<1>5. ASSUME NEW h \in 1..3
      PROVE  result'[Order[h]] # NoSample <=> h < i /\ Order[h] \in cfg.modes
  <2>1. h <= j => h < i
    BY <1>1
  <2>2. ~(h <= j) /\ h < i => h \in (j + 1)..(i - 1)
    BY <1>1
  <2> QED
    BY <1>1, <2>1, <2>2
<1>6. CASE i = 4
  <2>1. \A h \in 1..3 : h < 4
    OBVIOUS
  <2>2. \A m \in Modes : result'[m] # NoSample <=> m \in cfg.modes
    BY <1>5, <1>6, <2>1, ThreeModes
  <2> QED
    BY <1>4, <1>6, <2>2 DEF Proceeds
<1>7. CASE i # 4
  <2>1. i \in 1..3 /\ Order[i] \in cfg.modes /\ i # 0 /\ Last - 1 = 3 /\ i < Last
    BY <1>1, <1>2, <1>7, ThreeModes
  <2> QED
    BY <1>3, <1>4, <1>5, <1>7, <2>1 DEF Proceeds
<1> QED
  BY <1>6, <1>7

\* At the beginning of an iteration nothing has been measured.
LEMMA NothingMeasured ==
  ASSUME NEW h \in 1..3
  PROVE  NoResult[Order[h]] = NoSample
BY ThreeModes DEF NoResult

\* In all steps of the iterations, what has been measured grows in the order of the modes.
LEMMA IterationKeepsProceeds ==
  ASSUME TypeOK, Deployed, Proceeds, Paired, Kept,
         Begin \/ PodsAreUp \/ PodsAreNotUp \/ Measure \/ MeasureFails
  PROVE  /\ Proceeds'
         /\ \/ UNCHANGED <<results, succeeded>>
            \/ /\ results' = Append(results, result') /\ succeeded' = succeeded + 1
               /\ \A m \in Modes : result'[m] # NoSample <=> m \in cfg.modes
<1>0. /\ UNCHANGED <<tests, current>> /\ cfg' = cfg /\ kind' = kind
      /\ pc' \in {"iterate", "wait", "measure"}
  BY IterationKeepsTypes DEF cfg, kind
<1>1. ASSUME NEW j \in 0..3, Enter(ModeAfter(j)),
             \A h \in 1..3 : result'[Order[h]] # NoSample <=> h <= j /\ Order[h] \in cfg.modes
      PROVE  /\ Proceeds'
             /\ \/ UNCHANGED <<results, succeeded>>
                \/ /\ results' = Append(results, result') /\ succeeded' = succeeded + 1
                   /\ \A m \in Modes : result'[m] # NoSample <=> m \in cfg.modes
  <2>1. ModeAfter(j) \in 1..4
    BY ModeAfterIsNext
  <2>2. \/ UNCHANGED <<results, succeeded>>
        \/ /\ pc' = "iterate"
           /\ results' = Append(results, result') /\ succeeded' = succeeded + 1
    BY <1>1, <2>1, EnterGoesOn
  <2> QED
    BY <1>0, <1>1, <2>2, EnterProceeds
<1>2. CASE Begin
  <2>1. result' = NoResult /\ \A h \in 1..3 : result'[Order[h]] = NoSample /\ ~(h <= 0) /\ ~(h < 0)
    BY <1>2, BeginGoesOn, NothingMeasured
  <2>2. CASE WaitsFirst /\ pc' = "wait" /\ mode' = 0 /\ UNCHANGED <<results, succeeded>>
    <3>1. WaitsFirst'
      BY <1>0, <2>2 DEF WaitsFirst
    <3>2. 0 < Last /\ Last - 1 = 3
      BY ThreeModes
    <3> QED
      BY <1>0, <2>1, <2>2, <3>1, <3>2 DEF Proceeds
  <2>3. CASE Enter(ModeAfter(0))
    BY <1>1, <2>1, <2>3
  <2> QED
    BY <1>2, <2>2, <2>3, BeginGoesOn
<1>3. CASE PodsAreUp
  <2>1. pc = "wait" /\ result' = result
    BY <1>3, PodsAreUpGoesOn
  <2>2. /\ mode # 0 => Order[mode] \in cfg.modes
        /\ \A h \in 1..3 : result[Order[h]] # NoSample <=> h < mode /\ Order[h] \in cfg.modes
        /\ mode < Last /\ Last - 1 = 3
    BY <2>1, ThreeModes DEF Proceeds
  <2>3. CASE mode # 0 /\ pc' = "measure" /\ UNCHANGED <<mode, results, succeeded>>
    <3>1. mode \in 1..3
      BY <2>2, <2>3, CountersAreNumbers, ThreeModes
    <3> QED
      BY <1>0, <2>1, <2>2, <2>3, <3>1 DEF Proceeds
  <2>4. CASE EndIteration(FALSE, result)
    BY <2>4, FailureGoesOn DEF Proceeds
  <2>5. CASE mode = 0 /\ Enter(ModeAfter(0))
    <3>1. \A h \in 1..3 : ~(h < 0) /\ ~(h <= 0)
      OBVIOUS
    <3> QED
      BY <1>1, <2>1, <2>2, <2>5, <3>1
  <2> QED
    BY <1>3, <2>3, <2>4, <2>5, PodsAreUpGoesOn
<1>4. CASE PodsAreNotUp
  <2>1. pc = "wait" /\ UNCHANGED <<mode, result>>
    BY <1>4 DEF PodsAreNotUp
  <2>2. UNCHANGED <<results, succeeded>> /\ pc' \in {"wait", "iterate"}
    BY <1>4, <2>1, FailureGoesOn DEF PodsAreNotUp
  <2>3. WaitsFirst' = WaitsFirst
    BY <1>0 DEF WaitsFirst
  <2> QED
    BY <1>0, <2>1, <2>2, <2>3 DEF Proceeds
<1>5. CASE Measure
  <2>1. PICK s \in Sample : s # NoSample /\ result' = [result EXCEPT ![Order[mode]] = s]
    BY <1>5, MeasureGoesOn
  <2>2. /\ pc = "measure" /\ mode \in 1..3 /\ Enter(ModeAfter(mode)) /\ Order[mode] \in cfg.modes
        /\ Order[mode] \in Modes /\ result \in [Modes -> Sample]
        /\ \A h \in 1..3 : result[Order[h]] # NoSample <=> h < mode /\ Order[h] \in cfg.modes
    BY <1>5, MeasureGoesOn, ThreeModes DEF Proceeds, TypeOK
  <2>3. ASSUME NEW h \in 1..3
        PROVE  result'[Order[h]] # NoSample <=> h <= mode /\ Order[h] \in cfg.modes
    <3>1. CASE h = mode
      BY <2>1, <2>2, <3>1
    <3>2. CASE h # mode
      <4>1. Order[h] # Order[mode]
        <5>1. \A x \in 1..3 : x = 1 \/ x = 2 \/ x = 3
          OBVIOUS
        <5> QED
          BY <2>2, <3>2, <5>1, ThreeModes
      <4>2. result'[Order[h]] = result[Order[h]]
        BY <2>1, <2>2, <4>1, ThreeModes
      <4>3. h < mode <=> h <= mode
        BY <2>2, <3>2
      <4> QED
        BY <2>2, <4>2, <4>3
    <3> QED
      BY <3>1, <3>2
  <2> QED
    BY <1>1, <2>2, <2>3
<1>6. CASE MeasureFails
  BY <1>6, FailureGoesOn DEF MeasureFails, Proceeds
<1> QED
  BY <1>2, <1>3, <1>4, <1>5, <1>6

\* All steps keep Proceeds.
LEMMA StepKeepsProceeds ==
  ASSUME TypeOK, Deployed, Proceeds, Paired, Kept, [Next]_vars
  PROVE  Proceeds'
<1>1. CASE Begin \/ PodsAreUp \/ PodsAreNotUp \/ Measure \/ MeasureFails
  BY <1>1, IterationKeepsProceeds
<1>2. CASE CleanupBefore \/ Teardown \/ CreateTestPolicy \/ Deploy \/ NextTest \/ Summarize
  <2>1. pc' \notin {"wait", "measure"}
    BY <1>2 DEF CleanupBefore, Teardown, CreateTestPolicy, Deploy, NextTest, Summarize, GiveUp
  <2> QED
    BY <2>1 DEF Proceeds
<1>3. ASSUME NEW k \in Kinds, NEW n \in Nodes, PodRuns(k, n) \/ PodGone(k, n)
      PROVE  UNCHANGED <<tests, current, pc, mode, result>>
  BY <1>3 DEF PodRuns, PodGone, run, iterating
<1>4. CASE UNCHANGED <<tests, current, pc, mode, result>>
  BY <1>4 DEF Proceeds, WaitsFirst, kind, cfg
<1>5. CASE UNCHANGED vars
  BY <1>4, <1>5 DEF vars, run, iterating
<1> QED
  BY <1>1, <1>2, <1>3, <1>4, <1>5, NextByKind DEF Aside

\* The lowest nodes come first, so that with pods on all nodes these are 1 and 2.
LEMMA FoundPodsArePaired ==
  ASSUME TypeOK, Deployed, pc = "wait", Found # {}, ~(Cardinality(Found) < 2)
  PROVE  /\ Len(InOrder(Found)) >= 2
         /\ InOrder(Found)[1][1] # InOrder(Found)[2][1]
         /\ stale = {} => InOrder(Found)[1][1] = 1 /\ InOrder(Found)[2][1] = 2
<1> DEFINE L == InOrder(Found)
<1>1. Found \subseteq Listed /\ Listed \subseteq Nodes
  BY DEF Found, Listed
<1>2. Cardinality(Found) \in Nat
  BY <1>1, ConstantsAreNumbers, FS_Subset, FS_CardinalityType
<1>3. 1 \in 1..Cardinality(Found) /\ 2 \in 1..Cardinality(Found)
  BY <1>2
<1>4. /\ Len(L) = Cardinality(Found)
      /\ \A i \in 1..Cardinality(Found) :
           L[i][1] \in Found /\ Cardinality(Below(Found, L[i][1])) = i - 1
  BY <1>1, InOrderIsSorted
<1> HIDE DEF L
<1>5. /\ L[1][1] \in Found /\ Cardinality(Below(Found, L[1][1])) = 0
      /\ L[2][1] \in Found /\ Cardinality(Below(Found, L[2][1])) = 1
  BY <1>3, <1>4
<1>6. ASSUME stale = {}
      PROVE  L[1][1] = 1 /\ L[2][1] = 2
  <2>1. \A n \in Nodes : pods[kind][n].by # 0
    BY <1>6 DEF Deployed, Ahead
  <2>2. Found = Nodes
    BY <2>1 DEF Found, Listed
  <2>3. ASSUME NEW n \in Nodes
        PROVE  Cardinality(Below(Found, n)) = n - 1
    <3>1. n \in Nat /\ n - 1 \in Nat /\ NumNodes \in Nat
      BY ConstantsAreNumbers
    <3>2. Below(Found, n) = 1..(n - 1)
      BY <2>2, <3>1 DEF Below, Nodes
    <3> QED
      BY <3>1, <3>2, FS_Interval
  <2>4. L[1][1] \in Nat /\ L[2][1] \in Nat /\ L[1][1] \in Nodes /\ L[2][1] \in Nodes
    BY <1>1, <1>5, ConstantsAreNumbers
  <2>5. L[1][1] - 1 = 0 /\ L[2][1] - 1 = 1
    BY <1>5, <2>3, <2>4
  <2> QED
    BY <2>4, <2>5
<1>7. L[1][1] # L[2][1]
  BY <1>5
<1> QED
  BY <1>2, <1>4, <1>6, <1>7 DEF L

\* All steps keep Paired.
LEMMA StepKeepsPaired ==
  ASSUME TypeOK, Deployed, Proceeds, Paired, Kept, [Next]_vars
  PROVE  Paired'
<1>1. CASE /\ UNCHANGED <<tests, current, testpods>> /\ stale \subseteq stale'
           /\ pc' \in {"wait", "measure"} => pc \in {"wait", "measure"} /\ (mode' # 0 => mode # 0)
  BY <1>1 DEF Paired, cfg
<1>2. CASE CleanupBefore \/ Teardown \/ CreateTestPolicy \/ Summarize
  <2>1. /\ UNCHANGED <<tests, current, testpods, stale>>
        /\ pc' \notin {"wait", "measure"}
    BY <1>2 DEF CleanupBefore, Teardown, CreateTestPolicy, Summarize, GiveUp, run, iterating, history
  <2> QED
    BY <1>1, <2>1
<1>3. CASE Deploy
  <2>1. /\ UNCHANGED <<tests, current, testpods>> /\ stale \subseteq stale'
        /\ pc' \notin {"wait", "measure"}
    BY <1>3 DEF Deploy, GetOrCreatePod, GiveUp, run, iterating
  <2> QED
    BY <1>1, <2>1
<1>4. CASE NextTest
  <2>1. testpods' = <<>> /\ pc' = "cleanup" /\ Len(testpods') = 0
    BY <1>4 DEF NextTest
  <2> QED
    BY <2>1 DEF Paired
<1>5. CASE Begin
  <2>1. /\ testpods' = <<>> /\ Len(testpods') = 0 /\ cfg' = cfg
        /\ mode' = 0 \/ ~WaitsFirst
    BY <1>5, BeginGoesOn DEF cfg
  <2>2. mode' = 0 \/ cfg.modes \cap Internal = {}
    BY <2>1 DEF WaitsFirst
  <2> QED
    BY <2>1, <2>2 DEF Paired
<1>6. CASE PodsAreUp
  <2>1. pc = "wait" /\ Found # {} /\ UNCHANGED <<tests, current, stale>> /\ cfg' = cfg
    BY <1>6, PodsAreUpGoesOn DEF history, cfg
  <2>2. CASE testpods' = InOrder(Found) /\ ~(Cardinality(Found) < 2)
    BY <2>1, <2>2, FoundPodsArePaired DEF Paired
  <2>3. CASE UNCHANGED <<mode, testpods>>
    BY <1>1, <2>1, <2>3
  <2> QED
    BY <1>6, <2>2, <2>3, PodsAreUpGoesOn
<1>7. CASE PodsAreNotUp \/ MeasureFails
  <2>1. UNCHANGED <<tests, current, testpods, stale, mode>> /\ pc \in {"wait", "measure"}
    BY <1>7 DEF PodsAreNotUp, MeasureFails, run, iterating, history
  <2> QED
    BY <1>1, <2>1
<1>8. CASE Measure
  <2>1. UNCHANGED <<tests, current, testpods, stale>> /\ pc = "measure" /\ mode # 0
    BY <1>8, MeasureGoesOn DEF history
  <2> QED
    BY <1>1, <2>1
<1>9. ASSUME NEW k \in Kinds, NEW n \in Nodes, PodRuns(k, n) \/ PodGone(k, n)
      PROVE  UNCHANGED <<tests, current, pc, mode, testpods, stale>>
  BY <1>9 DEF PodRuns, PodGone, run, iterating, history
<1>10. CASE UNCHANGED <<tests, current, pc, mode, testpods, stale>>
  BY <1>1, <1>10
<1>11. CASE UNCHANGED vars
  BY <1>10, <1>11 DEF vars, run, iterating, history
<1> QED
  BY <1>2, <1>3, <1>4, <1>5, <1>6, <1>7, <1>8, <1>9, <1>10, <1>11, NextByKind DEF Aside

-----------------------------------------------------------------------------
(* What is reported.                                                       *)

\* While nothing moves that the samples were taken from, they stay what they are.
LEMMA FairStays ==
  ASSUME TypeOK, NEW s \in Sample, Fair(s), UNCHANGED <<tests, current, inherited, stale>>,
         Iterating' /\ stale = {} =>
           Iterating /\ \A n \in Nodes : pods'[kind][n].by = pods[kind][n].by
  PROVE  Fair(s)'
<1>1. Own(s)' <=> Own(s)
  BY DEF Own
<1>2. kind' = kind
  BY DEF kind, cfg
<1>3. ASSUME stale = {}, Iterating'
      PROVE  OfFirstTwo(s)'
  <2>1. OfFirstTwo(s) /\ \A n \in Nodes : pods'[kind][n].by = pods[kind][n].by
    BY <1>3 DEF Fair
  <2>2. s.client \in Place /\ s.client = <<2, pods[kind][2].by>>
    BY <2>1 DEF OfFirstTwo, Sample
  <2>3. 2 \in 0..NumNodes
    BY <2>2 DEF Place
  <2>4. 2 \in Nodes /\ 1 \in Nodes
    BY <2>3, ConstantsAreNumbers DEF Nodes
  <2> QED
    BY <1>2, <2>1, <2>4 DEF OfFirstTwo
<1> QED
  BY <1>1, <1>3 DEF Fair

\* The types of the results and of their samples.
LEMMA ResultsAreTyped ==
  ASSUME TypeOK
  PROVE  /\ result \in [Modes -> Sample] /\ results \in Seq([Modes -> Sample])
         /\ Len(results) \in Nat /\ DOMAIN results = 1..Len(results)
         /\ \A m \in Internal : result[m] \in Sample
         /\ \A i \in DOMAIN results : results[i] \in [Modes -> Sample]
         /\ \A i \in DOMAIN results : \A m \in Internal : results[i][m] \in Sample
<1>1. result \in [Modes -> Sample] /\ results \in Seq([Modes -> Sample])
  BY DEF TypeOK
<1>2. Len(results) \in Nat /\ DOMAIN results = 1..Len(results)
  BY <1>1, LenProperties
<1>3. \A i \in DOMAIN results : results[i] \in [Modes -> Sample]
  BY <1>1, <1>2, ElementOfSeq
<1> QED
  BY <1>1, <1>2, <1>3, ThreeModes

\* What holds of all results and of a further one holds of all when it is appended.
LEMMA OneMoreResult ==
  ASSUME results \in Seq([Modes -> Sample]), NEW r \in [Modes -> Sample],
         NEW rs, rs = Append(results, r)
  PROVE  /\ Len(rs) = Len(results) + 1
         /\ \A i \in DOMAIN rs : rs[i] = r \/ (i \in DOMAIN results /\ rs[i] = results[i])
<1>1. /\ Len(results) \in Nat /\ DOMAIN results = 1..Len(results)
      /\ Len(rs) = Len(results) + 1 /\ DOMAIN rs = 1..Len(results) + 1
      /\ \A i \in 1..Len(results) : rs[i] = results[i]
      /\ rs[Len(results) + 1] = r
  BY LenProperties, AppendProperties
<1>2. ASSUME NEW i \in DOMAIN rs
      PROVE  i \in 1..Len(results) \/ i = Len(results) + 1
  BY <1>1
<1> QED
  BY <1>1, <1>2

\* All steps keep FairSamples: what is appended is fair, and what is kept stays so.
LEMMA StepKeepsFairSamples ==
  ASSUME TypeOK, Deployed, Proceeds, Paired, FairSamples, Kept, [Next]_vars, TypeOK'
  PROVE  FairSamples'
<1>0. /\ result \in [Modes -> Sample] /\ results \in Seq([Modes -> Sample])
      /\ \A m \in Internal : result[m] \in Sample /\ result'[m] \in Sample
      /\ \A i \in DOMAIN results : \A m \in Internal : results[i][m] \in Sample
      /\ result' \in [Modes -> Sample]
  BY ResultsAreTyped, ThreeModes DEF TypeOK
<1>1. CASE Begin \/ PodsAreUp \/ PodsAreNotUp \/ Measure \/ MeasureFails
  <2>1. UNCHANGED <<tests, current, inherited, stale, pods>>
    BY <1>1, IterationKeepsTypes DEF namespace, history
  <2>2. Iterating
    BY <1>1 DEF Begin, PodsAreUp, PodsAreNotUp, Measure, MeasureFails, Iterating
  <2>3. \A s \in Sample : Fair(s) => Fair(s)'
    BY <2>1, <2>2, FairStays
  <2>4. ASSUME NEW m \in Internal, result'[m] # NoSample
        PROVE  Fair(result'[m])
    <3>1. m \in Modes
      BY ThreeModes
    <3>2. CASE Begin
      BY <2>4, <3>1, <3>2, BeginGoesOn DEF NoResult
    <3>3. CASE PodsAreUp \/ PodsAreNotUp \/ MeasureFails
      <4>1. result' = result /\ pc \in {"wait", "measure"}
        BY <3>3, PodsAreUpGoesOn DEF PodsAreNotUp, MeasureFails, iterating
      <4> QED
        BY <2>4, <4>1 DEF FairSamples
    <3>4. CASE Measure
      <4>1. PICK s \in Sample : /\ s # NoSample /\ (Order[mode] \in Internal => Fair(s))
                               /\ result' = [result EXCEPT ![Order[mode]] = s]
        BY <3>4, MeasureGoesOn
      <4>2. result'[m] = IF m = Order[mode] THEN s ELSE result[m]
        BY <1>0, <3>1, <4>1
      <4>3. pc = "measure"
        BY <3>4, MeasureGoesOn
      <4> QED
        BY <2>4, <4>1, <4>2, <4>3 DEF FairSamples
    <3> QED
      BY <1>1, <3>2, <3>3, <3>4
  <2>5. \A i \in DOMAIN results : \A m \in Internal :
          results[i][m] # NoSample => Fair(results[i][m])
    BY DEF FairSamples
  <2> DEFINE rs == results'
             r == result'
  <2>6. ASSUME NEW i \in DOMAIN rs, NEW m \in Internal, rs[i][m] # NoSample
        PROVE  rs[i][m] \in Sample /\ Fair(rs[i][m])
    <3>1. CASE rs = results
      BY <1>0, <2>5, <2>6, <3>1
    <3>2. CASE rs = Append(results, r)
      <4>1. rs[i] = r \/ (i \in DOMAIN results /\ rs[i] = results[i])
        BY <1>0, <3>2, OneMoreResult
      <4> QED
        BY <1>0, <2>4, <2>5, <2>6, <4>1
    <3> QED
      BY <1>1, <3>1, <3>2, IterationKeepsProceeds
  <2>7. \A m \in Internal : result'[m] # NoSample => Fair(result[m])'
    <3>1. TAKE m \in Internal
    <3>2. HAVE result'[m] # NoSample
    <3>3. Fair(r[m]) /\ r[m] \in Sample
      BY <1>0, <2>4, <3>2
    <3>4. PICK s \in Sample : s = r[m]
      BY <3>3
    <3>5. Fair(s)'
      BY <2>3, <3>3, <3>4
    <3> QED
      BY <3>4, <3>5 DEF Fair, Own, OfFirstTwo
  <2>8. \A i \in DOMAIN results' : \A m \in Internal :
          results'[i][m] # NoSample => Fair(results[i][m])'
    <3>1. TAKE i \in DOMAIN results'
    <3>2. TAKE m \in Internal
    <3>3. HAVE results'[i][m] # NoSample
    <3>4. rs[i][m] \in Sample /\ Fair(rs[i][m])
      BY <2>6, <3>3
    <3>5. PICK s \in Sample : s = rs[i][m]
      BY <3>4
    <3>6. Fair(s)'
      BY <2>3, <3>4, <3>5
    <3> QED
      BY <3>5, <3>6 DEF Fair, Own, OfFirstTwo
  <2> QED
    BY <2>7, <2>8 DEF FairSamples
<1>2. CASE CleanupBefore \/ CreateTestPolicy \/ Deploy \/ NextTest
  <2>1. pc' \notin {"wait", "measure"} /\ results' = <<>>
    BY <1>2 DEF CleanupBefore, CreateTestPolicy, Deploy, NextTest, GiveUp, outcome, Kept
  <2> QED
    BY <2>1 DEF FairSamples
<1>3. CASE UNCHANGED <<tests, current, inherited, stale, result, results>>
           /\ (pc' \in {"wait", "measure"} => pc \in {"wait", "measure"})
           /\ \A s \in Sample : Fair(s) => Fair(s)'
  <2>1. ASSUME NEW m \in Internal, pc' \in {"wait", "measure"}, result'[m] # NoSample
        PROVE  Fair(result[m])'
    <3>1. PICK s \in Sample : s = result[m]
      BY <1>0
    <3>2. Fair(s)'
      BY <1>3, <2>1, <3>1 DEF FairSamples
    <3> QED
      BY <1>3, <3>1, <3>2 DEF Fair, Own, OfFirstTwo
  <2>2. ASSUME NEW i \in DOMAIN results, NEW m \in Internal, results'[i][m] # NoSample
        PROVE  Fair(results[i][m])'
    <3>1. PICK s \in Sample : s = results[i][m]
      BY <1>0
    <3>2. Fair(s)'
      BY <1>3, <2>2, <3>1 DEF FairSamples
    <3> QED
      BY <1>3, <3>1, <3>2 DEF Fair, Own, OfFirstTwo
  <2> QED
    BY <1>3, <2>1, <2>2 DEF FairSamples
<1>4. CASE Teardown \/ Summarize
  <2>1. /\ UNCHANGED <<tests, current, inherited, stale, result, results>>
        /\ pc' \in {"teardown", "done"}
    BY <1>4, SummarizeGoesOn DEF Teardown, run, iterating, outcome, history
  <2>2. ~Iterating'
    BY <2>1 DEF Iterating
  <2>3. \A s \in Sample : Fair(s) => Fair(s)'
    BY <2>1, <2>2, FairStays
  <2> QED
    BY <1>3, <2>1, <2>3
<1>5. ASSUME NEW k \in Kinds, NEW n \in Nodes, PodRuns(k, n) \/ PodGone(k, n)
      PROVE  FairSamples'
  <2>1. /\ UNCHANGED <<tests, current, inherited, stale, result, results, pc>>
        /\ \A x \in Nodes :
             pods'[kind][x].by = pods[kind][x].by \/ pods[kind][x].terminating
    BY <1>5, KubeletsMove, ConfigsAreTyped DEF run, iterating, outcome, history
  <2>2. Iterating' /\ stale = {} =>
          Iterating /\ \A x \in Nodes : pods'[kind][x].by = pods[kind][x].by
    BY <2>1 DEF Iterating, Deployed, Ahead
  <2>3. \A s \in Sample : Fair(s) => Fair(s)'
    BY <2>1, <2>2, FairStays
  <2> QED
    BY <1>3, <2>1, <2>3
<1>6. CASE UNCHANGED vars
  BY <1>6 DEF FairSamples, Fair, Own, OfFirstTwo, Iterating, kind, cfg, vars, run, iterating,
    outcome, namespace, history
<1> QED
  BY <1>1, <1>2, <1>4, <1>5, <1>6, NextByKind DEF Aside

\* All steps keep Kept.
LEMMA StepKeepsKept ==
  ASSUME TypeOK, Deployed, Proceeds, Paired, Kept, [Next]_vars, TypeOK'
  PROVE  Kept'
<1>0. /\ results \in Seq([Modes -> Sample]) /\ result' \in [Modes -> Sample]
      /\ iteration \in Nat /\ succeeded \in 0..iteration /\ succeeded \in Nat
  BY CountersAreNumbers DEF TypeOK
<1>1. CASE Begin \/ PodsAreUp \/ PodsAreNotUp \/ Measure \/ MeasureFails
  <2>1. /\ UNCHANGED <<tests, current>> /\ pc' \in {"iterate", "wait", "measure"} /\ cfg' = cfg
    BY <1>1, IterationKeepsTypes DEF cfg
  <2>2. UNCHANGED <<summary, error>> /\ pc \in {"iterate", "wait", "measure"}
    BY <1>1 DEF Begin, PodsAreUp, PodsAreNotUp, Measure, MeasureFails
  <2>3. \/ UNCHANGED <<results, succeeded>>
        \/ /\ results' = Append(results, result') /\ succeeded' = succeeded + 1
           /\ \A m \in Modes : result'[m] # NoSample <=> m \in cfg.modes
    BY <1>1, IterationKeepsProceeds
  <2>4. ~error' /\ summary' = NoSummary
    BY <2>2 DEF Kept, Over
  <2>5. pc' \in {"wait", "measure"} => succeeded' < iteration'
    <3>1. CASE Begin
      <4>1. iteration' = iteration + 1
        BY <3>1, BeginGoesOn
      <4>2. pc' \in {"wait", "measure"} => succeeded' = succeeded
        <5>1. ModeAfter(0) \in 1..4
          BY ModeAfterIsNext
        <5> QED
          BY <3>1, <5>1, BeginGoesOn, EnterGoesOn
      <4> QED
        BY <1>0, <4>1, <4>2
    <3>2. CASE PodsAreUp \/ PodsAreNotUp \/ Measure \/ MeasureFails
      <4>1. iteration' = iteration /\ succeeded < iteration
        BY <3>2 DEF PodsAreUp, PodsAreNotUp, Measure, MeasureFails, iterating, Kept
      <4>2. pc' \in {"wait", "measure"} => succeeded' = succeeded
        <5>1. ModeAfter(0) \in 1..4 /\ (Measure => ModeAfter(mode) \in 1..4)
          BY ModeAfterIsNext, MeasureGoesOn
        <5>2. CASE PodsAreUp
          BY <5>1, <5>2, PodsAreUpGoesOn, EnterGoesOn, FailureGoesOn
        <5>3. CASE PodsAreNotUp
          BY <5>3, FailureGoesOn DEF PodsAreNotUp
        <5>4. CASE Measure
          BY <5>1, <5>4, MeasureGoesOn, EnterGoesOn
        <5>5. CASE MeasureFails
          BY <5>5, FailureGoesOn DEF MeasureFails
        <5> QED
          BY <3>2, <5>2, <5>3, <5>4, <5>5
      <4> QED
        BY <4>1, <4>2
    <3> QED
      BY <1>1, <3>1, <3>2
  <2>6. CASE UNCHANGED <<results, succeeded>>
    BY <2>1, <2>4, <2>5, <2>6 DEF Kept, Over
  <2>7. CASE /\ results' = Append(results, result') /\ succeeded' = succeeded + 1
             /\ \A m \in Modes : result'[m] # NoSample <=> m \in cfg.modes
    <3> DEFINE rs == results'
               r == result'
    <3>1. /\ Len(rs) = Len(results) + 1
          /\ \A i \in DOMAIN rs : rs[i] = r \/ (i \in DOMAIN results /\ rs[i] = results[i])
      BY <1>0, <2>7, OneMoreResult
    <3>2. /\ Len(results) = succeeded
          /\ \A i \in DOMAIN results : \A m \in Modes :
               results[i][m] # NoSample <=> m \in cfg.modes
      BY DEF Kept
    <3>3. \A i \in DOMAIN rs : \A m \in Modes : rs[i][m] # NoSample <=> m \in cfg.modes
      BY <2>7, <3>1, <3>2
    <3> QED
      BY <2>1, <2>4, <2>5, <2>7, <3>1, <3>2, <3>3 DEF Kept
  <2> QED
    BY <2>3, <2>6, <2>7
<1>2. CASE Aside
  <2>1. UNCHANGED <<tests, current, iteration, results, summary, succeeded>> /\ cfg' = cfg
    BY <1>2, AsideKeepsResults DEF iterating, cfg
  <2>2. \/ pc' = pc /\ error' = error
        \/ pc' \in {"teardown", "done"}
        \/ /\ pc \in {"cleanup", "policy", "deploy"} /\ pc' \in {"policy", "deploy", "iterate"}
           /\ error' = error
    BY <1>2 DEF Aside, CleanupBefore, Teardown, CreateTestPolicy, Deploy, PodRuns, PodGone, GiveUp,
      outcome
  <2> QED
    BY <2>1, <2>2 DEF Kept, Over
<1>3. CASE Summarize
  BY <1>3, SummarizeGoesOn DEF Kept, Over, cfg
<1>4. CASE NextTest
  BY <1>4 DEF NextTest, Kept, Over
<1>5. CASE UNCHANGED vars
  BY <1>5 DEF Kept, Over, cfg, vars, run, iterating, outcome
<1> QED
  BY <1>1, <1>2, <1>3, <1>4, <1>5, NextByKind

\* Complete results have complete summaries.
LEMMA SummariesFollow ==
  ASSUME TypeOK, Kept, NEW m \in Modes
  PROVE  Len(Values(m)) = IF m \in cfg.modes THEN succeeded ELSE 0
<1>1. results \in Seq([Modes -> Sample])
  BY DEF TypeOK
<1> QED
  BY <1>1, ValuesAreTheSamples DEF Kept

\* Fair results of the same modes have taken one path.
LEMMA OnePathFollows ==
  ASSUME TypeOK', Kept', FairSamples', ~Over'
  PROVE  OnePath'
<1> SUFFICES ASSUME NEW i \in 1..Len(results'), NEW m \in cfg'.modes \cap Internal
             PROVE  /\ results'[i][m].client[1] # results'[i][m].server[1]
                    /\ stale' = {} => \A j \in 1..Len(results') :
                         /\ results'[i][m].client = results'[j][m].client
                         /\ results'[i][m].server = results'[j][m].server
  BY DEF OnePath
<1>1. DOMAIN results' = 1..Len(results') /\ m \in Modes
  BY ThreeModes, LenProperties DEF TypeOK
<1>2. \A j \in 1..Len(results') : Fair(results[j][m])'
  BY <1>1 DEF Kept, FairSamples
<1>3. Iterating'
  <2>1. results' # <<>>
    BY <1>1
  <2>2. pc' \in {"cleanup", "policy", "deploy", "iterate", "wait", "measure", "teardown", "done"}
    BY DEF TypeOK
  <2> QED
    BY <2>1, <2>2 DEF Kept, Over, Iterating
<1>4. results'[i][m].client[1] # results'[i][m].server[1]
  BY <1>2 DEF Fair
<1>5. ASSUME stale' = {}, NEW j \in 1..Len(results')
      PROVE  /\ results'[i][m].client = results'[j][m].client
             /\ results'[i][m].server = results'[j][m].server
  BY <1>2, <1>3, <1>5 DEF Fair, OfFirstTwo
<1> QED
  BY <1>4, <1>5

\* All steps keep Reported.
LEMMA StepKeepsReported ==
  ASSUME PerfTestInv, [Next]_vars, TypeOK', Kept', FairSamples'
  PROVE  Reported'
<1>0. TypeOK /\ Deployed /\ Proceeds /\ Paired /\ FairSamples /\ Kept /\ Reported
  BY DEF PerfTestInv
<1> DEFINE OwnReported == ~inherited => \A m \in Internal : \A i \in DOMAIN summary[m] :
                            Own(summary[m][i])
<1>1. CASE ~Over'
  <2>1. OnePath'
    BY <1>1, OnePathFollows
  <2>2. summary' = NoSummary
    BY <1>1 DEF Kept
  <2>3. OwnReported'
    BY <2>2, ThreeModes DEF NoSummary
  <2> QED
    BY <1>1, <2>1, <2>3 DEF Reported, SummariesAreComplete
<1>2. CASE UNCHANGED <<tests, current, results, summary, succeeded, inherited, stale>>
           /\ (Over' => (Over /\ error' = error) \/ error')
  <2>1. SummariesAreComplete'
    BY <1>0, <1>2 DEF Reported, SummariesAreComplete, cfg
  <2>2. OnePath'
    BY <1>0, <1>2 DEF Reported, OnePath, cfg
  <2>3. OwnReported'
    BY <1>0, <1>2 DEF Reported, Own
  <2> QED
    BY <2>1, <2>2, <2>3 DEF Reported
<1>3. CASE Summarize
  <2>1. /\ UNCHANGED <<tests, current, results, succeeded, inherited, stale>> /\ cfg' = cfg
        /\ pc = "iterate" /\ pc' = "teardown"
        /\ \/ results = <<>> /\ error' = (cfg.iterations > 0) /\ summary' = summary
           \/ results # <<>> /\ error' = TRUE /\ summary' = NoSummary
           \/ results # <<>> /\ error' = FALSE /\ summary' = [m \in Modes |-> Values(m)]
    BY <1>3, SummarizeGoesOn DEF history, cfg
  <2>2. /\ summary = NoSummary /\ Len(results) = succeeded /\ Len(results) \in Nat
        /\ results \in Seq([Modes -> Sample])
    BY <1>0, <2>1, ResultsAreTyped DEF Kept, Over
  <2>3. OnePath'
    BY <1>0, <2>1 DEF Reported, OnePath
  <2>4. \A m \in Modes : NoSummary[m] = <<>> /\ Len(NoSummary[m]) = 0
    BY DEF NoSummary
  <2>5. SummariesAreComplete'
    <3>1. CASE results = <<>>
      <4>1. succeeded = 0 /\ summary' = NoSummary
        BY <2>1, <2>2, <3>1
      <4>2. ~error' => ~(cfg.iterations > 0)
        BY <2>1, <3>1
      <4> QED
        BY <2>1, <2>4, <4>1, <4>2 DEF SummariesAreComplete
    <3>2. CASE results # <<>>
      <4>1. succeeded > 0
        BY <2>2, <3>2, EmptySeq
      <4>2. \A m \in Modes : Len(Values(m)) = IF m \in cfg.modes THEN succeeded ELSE 0
        BY <1>0, SummariesFollow
      <4>3. error' \/ \A m \in Modes : summary'[m] = Values(m)
        BY <2>1, <3>2
      <4> QED
        BY <2>1, <4>1, <4>2, <4>3 DEF SummariesAreComplete
    <3> QED
      BY <3>1, <3>2
  <2>6. OwnReported'
    <3> SUFFICES ASSUME ~inherited, NEW m \in Internal, NEW j \in DOMAIN summary'[m]
                 PROVE  Own(summary'[m][j])
      BY <2>1 DEF Own
    <3>1. m \in Modes
      BY ThreeModes
    <3>2. summary'[m] = NoSummary[m] \/ summary'[m] = Values(m)
      BY <2>1, <2>2, <3>1
    <3>3. CASE summary'[m] = NoSummary[m]
      BY <2>4, <3>1, <3>3
    <3>4. CASE summary'[m] = Values(m)
      <4>1. PICK i \in DOMAIN results :
              results[i][m] # NoSample /\ Values(m)[j] = results[i][m]
        BY <2>2, <3>1, <3>4, ValuesAreTheSamples
      <4>2. Fair(results[i][m])
        BY <1>0, <4>1 DEF FairSamples
      <4> QED
        BY <3>4, <4>1, <4>2 DEF Fair
    <3> QED
      BY <3>2, <3>3, <3>4
  <2> QED
    BY <2>3, <2>5, <2>6 DEF Reported
<1>4. CASE CreateTestPolicy \/ Deploy
  <2>1. /\ UNCHANGED <<tests, current, results, summary, succeeded, inherited>>
        /\ pc \in {"policy", "deploy"} /\ (Over' => error')
    BY <1>4 DEF CreateTestPolicy, Deploy, GiveUp, Over, run, history
  <2>2. results = <<>> /\ summary = NoSummary
    BY <1>0, <2>1 DEF Kept, Over
  <2>3. OnePath'
    BY <2>1, <2>2 DEF OnePath
  <2>4. OwnReported'
    BY <2>1, <2>2, ThreeModes DEF NoSummary
  <2> QED
    BY <1>1, <2>1, <2>3, <2>4 DEF Reported, SummariesAreComplete
<1>5. CASE CleanupBefore \/ NextTest \/ Begin \/ PodsAreUp \/ PodsAreNotUp \/ Measure \/ MeasureFails
  <2>1. pc' \in {"cleanup", "policy", "iterate", "wait", "measure"}
    BY <1>0, <1>5, IterationKeepsTypes DEF CleanupBefore, NextTest
  <2> QED
    BY <1>1, <2>1 DEF Over
<1>6. CASE Teardown
  BY <1>2, <1>6 DEF Teardown, Over, run, outcome, history
<1>7. ASSUME NEW k \in Kinds, NEW n \in Nodes, PodRuns(k, n) \/ PodGone(k, n)
      PROVE  UNCHANGED <<run, pc, outcome, history>>
  BY <1>7 DEF PodRuns, PodGone
<1>8. CASE UNCHANGED <<run, pc, outcome, history>>
  BY <1>2, <1>8 DEF Over, run, outcome, history
<1>9. CASE UNCHANGED vars
  BY <1>8, <1>9 DEF vars
<1> QED
  BY <1>3, <1>4, <1>5, <1>6, <1>7, <1>8, <1>9, NextByKind DEF Aside

-----------------------------------------------------------------------------
(* The theorems.                                                           *)

\* The invariant holds initially.
LEMMA InitHolds == Init => PerfTestInv
<1> SUFFICES ASSUME Init PROVE PerfTestInv
  OBVIOUS
<1>1. TypeOK
  BY InitHasItsTypes
<1>2. Deployed /\ Proceeds /\ Kept
  <2>1. pc = "cleanup" /\ stale = {} /\ node = 1 /\ results = <<>> /\ Len(results) = 0
        /\ succeeded = 0 /\ ~error /\ summary = NoSummary
    BY DEF Init
  <2> QED
    BY <2>1 DEF Deployed, Proceeds, Kept
<1>3. Paired
  <2>1. pc = "cleanup" /\ Len(testpods) = 0
    BY DEF Init
  <2> QED
    BY <2>1 DEF Paired
<1>4. FairSamples /\ Reported
  <2>1. /\ pc = "cleanup" /\ results = <<>> /\ Len(results) = 0 /\ summary = NoSummary
    BY DEF Init
  <2> QED
    BY <2>1, ThreeModes DEF FairSamples, Reported, SummariesAreComplete, OnePath, Over, NoSummary
<1> QED
  BY <1>1, <1>2, <1>3, <1>4 DEF PerfTestInv

\* The invariant is inductive.
LEMMA StepHolds == PerfTestInv /\ [Next]_vars => PerfTestInv'
<1> SUFFICES ASSUME PerfTestInv, [Next]_vars PROVE PerfTestInv'
  OBVIOUS
<1>1. TypeOK /\ Deployed /\ Proceeds /\ Paired /\ FairSamples /\ Kept /\ Reported
  BY DEF PerfTestInv
<1>2. TypeOK'
  BY <1>1, StepKeepsTypes
<1>3. Deployed' /\ Proceeds' /\ Paired'
  BY <1>1, StepKeepsDeployed, StepKeepsProceeds, StepKeepsPaired
<1>4. FairSamples' /\ Kept'
  BY <1>1, <1>2, StepKeepsFairSamples, StepKeepsKept
<1>5. Reported'
  BY <1>2, <1>4, StepKeepsReported
<1> QED
  BY <1>2, <1>3, <1>4, <1>5 DEF PerfTestInv

\* The invariant holds.
LEMMA PerfTestInvHolds == Spec => []PerfTestInv
BY InitHolds, StepHolds, PTL DEF Spec

\* Every variable keeps its type; in particular no object belongs to a test that has not begun
\* and no more iterations succeed than have begun.
THEOREM PerfTestTypeCorrect == Spec => []TypeOK
<1>1. PerfTestInv => TypeOK
  BY DEF PerfTestInv
<1> QED
  BY <1>1, PerfTestInvHolds, PTL

\* A test that ends without an error reports, for each mode it was asked for, one value per
\* iteration that measured all of them, whatever calls fail and however often pods do not run.
THEOREM SummariesCountWhatSucceeded == Spec => []SummariesAreComplete
<1>1. PerfTestInv => SummariesAreComplete
  BY DEF PerfTestInv, Reported
<1> QED
  BY <1>1, PerfTestInvHolds, PTL

\* After a cleanup in which no call failed, a test measures under its own policy and between
\* its own pods, but for pods that were terminating when the deployment came to their node.
THEOREM OnlyTheTerminatingIsInherited == Spec => []InheritsOnlyWhatTerminates
<1>1. PerfTestInv => InheritsOnlyWhatTerminates
  <2> SUFFICES ASSUME PerfTestInv PROVE InheritsOnlyWhatTerminates
    OBVIOUS
  <2>1. pc \in {"wait", "measure"} => policy = current
    BY DEF PerfTestInv, Deployed
  <2>2. ASSUME ~inherited, NEW m \in Modes \cap Internal, NEW i \in 1..Len(summary[m])
        PROVE  Own(summary[m][i])
    <3>1. summary[m] \in Seq(Sample) /\ DOMAIN summary[m] = 1..Len(summary[m])
      BY LenProperties DEF PerfTestInv, TypeOK
    <3> QED
      BY <2>2, <3>1 DEF PerfTestInv, Reported
  <2> QED
    BY <2>1, <2>2 DEF InheritsOnlyWhatTerminates, Own
<1> QED
  BY <1>1, PerfTestInvHolds, PTL

\* Client and server of a result are on different nodes and, with no stale pod, the same for
\* all results of a test, for any number of nodes, iterations and retries.
THEOREM OnePathIsMeasured == Spec => []OnePath
<1>1. PerfTestInv => OnePath
  BY DEF PerfTestInv, Reported
<1> QED
  BY <1>1, PerfTestInvHolds, PTL

=============================================================================
