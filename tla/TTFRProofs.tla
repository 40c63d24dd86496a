----------------------------- MODULE TTFRProofs -----------------------------
(***************************************************************************)
(* What the goroutines of a TTFR test leave behind and record, for any     *)
(* numbers of nodes, pods, iterations and failed calls.                    *)
(***************************************************************************)
EXTENDS TTFR, FiniteSetTheorems, SequenceTheorems, WellFoundedInduction, TLAPS

Labels == {"unborn", "create", "created", "await", "awaited", "read", "load ttfrs",
           "store ttfrs", "load errors", "store errors", "delete", "release", "done"}

Times == Pods \cup {Sentinel}

-----------------------------------------------------------------------------
(* The loop that copies the results.                                       *)

\* A set of numbers with 0 and the successors of its elements has them all.
LEMMA SuccessorsReachAll ==
  ASSUME NEW T, 0 \in T, \A n \in Nat : n \in T => n + 1 \in T
  PROVE  Nat \subseteq T
<1>1. SUFFICES ASSUME Nat \ T # {} PROVE FALSE
  OBVIOUS
<1>2. \E x \in Nat \ T : \A y \in Nat \ T : ~(<<y, x>> \in OpToRel(<, Nat))
  BY <1>1, WFMin, NatLessThanWellFounded
<1>3. PICK x \in Nat \ T : \A y \in Nat \ T : ~(y < x)
  BY <1>2 DEF OpToRel
<1>4. x # 0 /\ x - 1 \in Nat
  BY <1>3
<1>5. x - 1 \in T
  BY <1>3, <1>4
<1>6. (x - 1) + 1 \in T
  BY <1>4, <1>5
<1> QED
  BY <1>3, <1>6

\* The loop over the errors copies the times without an error, one for each, and no others.
LEMMA CopiedAreTheSuccesses ==
  ASSUME NEW S, NEW es \in Seq(BOOLEAN), NEW ts \in Seq(S),
         \A k \in DOMAIN es : ~es[k] => k \in DOMAIN ts
  PROVE  /\ Copied(es, ts) \in Seq(S)
         /\ \A j \in DOMAIN Copied(es, ts) :
              \E k \in DOMAIN es : ~es[k] /\ Copied(es, ts)[j] = ts[k]
         /\ Len(Copied(es, ts)) = Cardinality({k \in DOMAIN es : ~es[k]})
<1> DEFINE After(f, k) == IF k = 0 THEN <<>>
                          ELSE IF es[k] THEN f[k - 1] ELSE Append(f[k - 1], ts[k])
           T == {n \in Nat : \E f : f = [k \in 0..n |-> After(f, k)]}
           N == Len(es)
           f == CHOOSE g : g = [k \in 0..N |-> After(g, k)]
           Successes(k) == {i \in 1..k : ~es[i]}
           Good(k) ==
             /\ f[k] \in Seq(S)
             /\ \A j \in DOMAIN f[k] : \E i \in Successes(k) : f[k][j] = ts[i]
             /\ IsFiniteSet(Successes(k)) /\ Len(f[k]) = Cardinality(Successes(k))
           G == {k \in Nat : k <= N => Good(k)}
<1>1. N \in Nat /\ DOMAIN es = 1..N /\ \A k \in 1..N : es[k] \in BOOLEAN
  BY LenProperties, ElementOfSeq
<1>2. Copied(es, ts) = f[N]
  BY DEF Copied
<1>3. N \in T
  <2>1. 0 \in T
    <3> DEFINE g == [k \in 0..0 |-> <<>>]
    <3>1. g = [k \in 0..0 |-> After(g, k)]
      OBVIOUS
    <3> QED
      BY <3>1
  <2>2. ASSUME NEW n \in Nat, n \in T
        PROVE  n + 1 \in T
    <3>1. PICK g : g = [k \in 0..n |-> After(g, k)]
      BY <2>2
    <3> DEFINE h == [k \in 0..n + 1 |-> IF k <= n THEN g[k] ELSE After(g, k)]
    <3>2. \A k \in 0..n : h[k] = g[k]
      OBVIOUS
    <3>3. ASSUME NEW k \in 0..n + 1
          PROVE  h[k] = After(h, k)
      <4>1. k = 0 \/ (k - 1 \in 0..n /\ h[k - 1] = g[k - 1])
        BY <3>2
      <4>2. h[k] = After(g, k)
        <5>1. CASE k <= n
          <6>1. k \in 0..n /\ h[k] = g[k]
            BY <5>1
          <6> HIDE DEF After, h
          <6> QED
            BY <6>1, <3>1
        <5>2. CASE k = n + 1
          BY <5>2
        <5> QED
          BY <5>1, <5>2
      <4> QED
        BY <4>1, <4>2
    <3>4. h = [k \in 0..n + 1 |-> After(h, k)]
      <4> HIDE DEF After
      <4> QED
        BY <3>3
    <3>5. \E e : e = [k \in 0..n + 1 |-> After(e, k)]
      <4> HIDE DEF After, h
      <4> QED
        BY <3>4
    <3>6. n + 1 \in Nat
      OBVIOUS
    <3> HIDE DEF After
    <3> QED
      BY <3>5, <3>6, Zenon
  <2>3. Nat \subseteq T
    <3> HIDE DEF T
    <3> QED
      BY <2>1, <2>2, SuccessorsReachAll
  <2> QED
    BY <1>1, <2>3
<1>4. f = [k \in 0..N |-> After(f, k)]
  <2>1. \E g : g = [k \in 0..N |-> After(g, k)]
    BY <1>3
  <2> HIDE DEF After
  <2> QED
    BY <2>1
<1> HIDE DEF f
<1>5. 0 \in G
  <2>1. f[0] = <<>> /\ Successes(0) = {}
    BY <1>1, <1>4
  <2>2. f[0] \in Seq(S) /\ DOMAIN f[0] = {} /\ Len(f[0]) = 0
    BY <2>1, EmptySeq
  <2> QED
    BY <2>1, <2>2, FS_EmptySet
<1>6. ASSUME NEW k \in Nat, k \in G
      PROVE  k + 1 \in G
  <2> SUFFICES ASSUME k + 1 <= N PROVE Good(k + 1)
    OBVIOUS
  <2>1. k + 1 \in 1..N /\ k + 1 \in 0..N /\ (k + 1) - 1 = k /\ k + 1 # 0
    BY <1>1
  <2>2. Good(k)
    BY <1>1, <1>6
  <2>3. f[k + 1] = IF es[k + 1] THEN f[k] ELSE Append(f[k], ts[k + 1])
    BY <1>4, <2>1
  <2>4. CASE es[k + 1]
    <3>1. Successes(k + 1) = Successes(k)
      BY <2>4
    <3> QED
      BY <2>2, <2>3, <2>4, <3>1
  <2>5. CASE ~es[k + 1]
    <3>1. Successes(k + 1) = Successes(k) \cup {k + 1} /\ k + 1 \notin Successes(k)
      BY <2>5
    <3>2. ts[k + 1] \in S
      BY <2>1, <2>5, <1>1, ElementOfSeq
    <3>3. f[k + 1] = Append(f[k], ts[k + 1])
      BY <2>3, <2>5
    <3>4. /\ f[k + 1] \in Seq(S) /\ Len(f[k + 1]) = Len(f[k]) + 1
          /\ DOMAIN f[k + 1] = 1..Len(f[k]) + 1 /\ DOMAIN f[k] = 1..Len(f[k]) /\ Len(f[k]) \in Nat
          /\ \A j \in 1..Len(f[k]) : f[k + 1][j] = f[k][j]
          /\ f[k + 1][Len(f[k]) + 1] = ts[k + 1]
      <4> HIDE DEF Successes
      <4> QED
        BY <2>2, <3>2, <3>3, AppendProperties, LenProperties
    <3>5. \A j \in DOMAIN f[k + 1] : \E i \in Successes(k + 1) : f[k + 1][j] = ts[i]
      <4> HIDE DEF Successes
      <4>1. TAKE j \in DOMAIN f[k + 1]
      <4>2. CASE j \in DOMAIN f[k]
        BY <2>2, <3>1, <3>4, <4>2
      <4>3. CASE j = Len(f[k]) + 1
        BY <3>1, <3>4, <4>3
      <4> QED
        BY <3>4, <4>1, <4>2, <4>3
    <3>6. IsFiniteSet(Successes(k + 1)) /\ Cardinality(Successes(k + 1)) = Cardinality(Successes(k)) + 1
      <4> HIDE DEF Successes
      <4> QED
        BY <2>2, <3>1, FS_AddElement
    <3> QED
      BY <2>2, <3>4, <3>5, <3>6
  <2> QED
    BY <2>4, <2>5
<1>7. Good(N)
  <2>1. Nat \subseteq G
    <3> HIDE DEF G
    <3> QED
      BY <1>5, <1>6, SuccessorsReachAll
  <2> QED
    BY <1>1, <2>1
<1> QED
  BY <1>1, <1>2, <1>7

-----------------------------------------------------------------------------
(* The types.                                                              *)

LEMMA ConstantsAreNumbers ==
  /\ MaxNodes \in Nat \ {0} /\ PodsPerNode \in Nat \ {0} /\ MaxPods \in Nat \ {0}
  /\ MaxRounds \in Nat /\ MaxRounds <= MaxPods /\ MaxFaults \in Nat
  /\ Pods \subseteq Nat \ {0} /\ Sentinel \notin Pods
BY TTFRAssumption DEF Pods, Sentinel

\* The bounds of the counters as inequalities.
LEMMA NumbersAreBounded ==
  TypeOK =>
    /\ nodes \in 1..MaxNodes /\ round \in 0..MaxRounds /\ started \in 0..MaxPods
    /\ sem \in 0..numThreads /\ faults \in 0..MaxFaults
BY DEF TypeOK

\* The types of the counters.
LEMMA CountersAreNumbers ==
  TypeOK => nodes \in Nat \ {0} /\ {round, started, faults} \subseteq Nat
BY NumbersAreBounded, ConstantsAreNumbers

\* The permits and their bound are numbers.
LEMMA PermitsAreNumbers == TypeOK => numThreads \in Nat \ {0} /\ sem \in Nat
<1> SUFFICES ASSUME TypeOK PROVE numThreads \in Nat \ {0} /\ sem \in Nat
  OBVIOUS
<1>1. nodes \in Nat \ {0} /\ PodsPerNode \in Nat \ {0}
  BY CountersAreNumbers, ConstantsAreNumbers
<1>2. \A m, n \in Nat \ {0} : m * n \in Nat \ {0}
  OBVIOUS
<1>3. numThreads \in Nat \ {0}
  BY <1>1, <1>2 DEF numThreads
<1> QED
  BY <1>3, NumbersAreBounded

\* A fault keeps the count within its bound.
LEMMA FaultsAreCounted ==
  ASSUME TypeOK, Fault \/ UNCHANGED faults
  PROVE  faults' \in 0..MaxFaults
BY ConstantsAreNumbers, CountersAreNumbers, NumbersAreBounded DEF Fault

\* The initial states are typed.
LEMMA InitHasItsTypes == Init => TypeOK
<1> SUFFICES ASSUME Init PROVE TypeOK
  OBVIOUS
<1>1. numThreads \in Nat
  <2>1. nodes \in Nat /\ PodsPerNode \in Nat
    BY ConstantsAreNumbers DEF Init
  <2> QED
    BY <2>1 DEF numThreads
<1>2. /\ ttfrs \in Seq(Times) /\ errors \in Seq(BOOLEAN) /\ results \in Seq(Times)
      /\ oldTTFRs \in [Pods -> Seq(Times)] /\ oldErrors \in [Pods -> Seq(BOOLEAN)]
  BY EmptySeq DEF Init
<1>3. /\ at \in [Pods -> Labels] /\ time \in [Pods -> Times]
      /\ own \in [Pods -> {"shared", "nil", "error"}] /\ newError \in [Pods -> BOOLEAN]
      /\ pods \in [Pods -> {"absent", "up", "terminating"}]
  BY DEF Init, Labels, Times
<1>4. /\ round \in 0..MaxRounds /\ started \in 0..MaxPods /\ sem \in 0..numThreads
      /\ faults \in 0..MaxFaults
  BY <1>1, ConstantsAreNumbers DEF Init
<1> QED
  BY <1>2, <1>3, <1>4 DEF Init, TypeOK, Labels, Times

\* The caller's next step.
LEMMA StartPodIsOneMore ==
  ASSUME TypeOK, Launched, StartPod
  PROVE  /\ pc = "loop" /\ pc' \in {"loop", "wait"} /\ round > 0
         /\ started' = started + 1 /\ started' \in Pods
         /\ sem' = sem + 1 /\ sem' \in 0..numThreads
         /\ at' = [at EXCEPT ![started'] = "create"] /\ at[started'] = "unborn"
         /\ UNCHANGED <<nodes, round, results, time, own, old, shared, measured, pods, faults,
                        undeleted>>
<1>1. pc = "loop" /\ round > 0 /\ \A p \in Pods : at[p] = "unborn" <=> p > started
  BY DEF StartPod, Launched
<1>2. started + 1 \in Pods
  <2>1. started < MaxPods + 1 - round
    BY DEF StartPod, MostPods
  <2> QED
    BY <1>1, <2>1, ConstantsAreNumbers, CountersAreNumbers DEF Pods
<1>3. at[started + 1] = "unborn"
  <2>1. started \in Nat
    BY CountersAreNumbers
  <2> QED
    BY <1>1, <1>2, <2>1
<1>4. sem + 1 \in 0..numThreads
  BY PermitsAreNumbers DEF StartPod
<1> QED
  BY <1>1, <1>2, <1>3, <1>4 DEF StartPod

\* The steps of a goroutine move it by one label and leave the caller alone.
LEMMA WorkerMoves ==
  ASSUME TypeOK, NEW p \in Pods, Worker(p)
  PROVE  /\ UNCHANGED <<nodes, pc, round, started, results>>
         /\ at[p] \notin {"unborn", "done"}
         /\ at' \in [Pods -> Labels]
         /\ \A q \in Pods \ {p} : at'[q] = at[q]
         /\ at'[p] \notin {"unborn", "create"}
         /\ at'[p] = "done" <=> Release(p)
         /\ ~Release(p) => UNCHANGED sem
<1>1. UNCHANGED <<nodes, pc, round, started, results>>
  BY DEF Worker, CreatePod, WaitForTestPods, CheckErr, GetPodTTFR, LoadTTFRs, StoreTTFRs,
         LoadErrors, StoreErrors, DeletePod, Release, caller
<1>2. at \in [Pods -> Labels]
  BY DEF TypeOK, Labels
<1>3. \E l \in Labels \ {"unborn", "create"} : at' = [at EXCEPT ![p] = l]
  BY DEF Worker, CreatePod, WaitForTestPods, CheckErr, GetPodTTFR, LoadTTFRs, StoreTTFRs,
         LoadErrors, StoreErrors, DeletePod, Release, Goto, Labels
<1>4. at[p] \notin {"unborn", "done"} /\ (~Release(p) => UNCHANGED sem)
  BY DEF Worker, CreatePod, WaitForTestPods, CheckErr, GetPodTTFR, LoadTTFRs, StoreTTFRs,
         LoadErrors, StoreErrors, DeletePod, Release
<1>5. at'[p] = "done" <=> Release(p)
  <2>1. Release(p) => at'[p] = "done"
    BY <1>2 DEF Release, Goto
  <2>2. ~Release(p) => at'[p] # "done"
    BY <1>2 DEF Worker, CreatePod, WaitForTestPods, CheckErr, GetPodTTFR, LoadTTFRs, StoreTTFRs,
       LoadErrors, StoreErrors, DeletePod, Goto
  <2> QED
    BY <2>1, <2>2
<1> QED
  BY <1>1, <1>2, <1>3, <1>4, <1>5


\* The goroutines at work can be counted.
LEMMA WorkingIsFinite == IsFiniteSet(Working) /\ Cardinality(Working) \in Nat
<1>1. Working \subseteq 1..MaxPods
  BY DEF Working, Pods
<1>2. IsFiniteSet(1..MaxPods)
  BY FS_Interval, ConstantsAreNumbers
<1>3. IsFiniteSet(Working)
  BY <1>1, <1>2, FS_Subset
<1> QED
  BY <1>3, FS_CardinalityType

\* A goroutine at work holds a permit.
LEMMA PermitToGiveBack ==
  ASSUME TypeOK, Launched, NEW p \in Pods, at[p] \notin {"unborn", "done"}
  PROVE  sem > 0
<1>1. p \in Working
  BY DEF Working
<1>2. Cardinality(Working) # 0
  BY <1>1, WorkingIsFinite, FS_EmptySet
<1> QED
  BY <1>2, WorkingIsFinite DEF Launched

\* The faults of a goroutine stay within the bound.
LEMMA WorkerFaultsAreCounted ==
  ASSUME TypeOK, NEW p \in Pods, Worker(p) \/ PodGone(p)
  PROVE  faults' \in 0..MaxFaults
<1>1. Fault \/ UNCHANGED faults
  BY DEF Worker, CreatePod, WaitForTestPods, CheckErr, GetPodTTFR, LoadTTFRs, StoreTTFRs,
         LoadErrors, StoreErrors, DeletePod, Release, PodGone
<1> QED
  BY <1>1, FaultsAreCounted

\* What the steps of a goroutine do to its variables and to the shared ones.
LEMMA WorkerKeepsItsTypes ==
  ASSUME TypeOK, NEW p \in Pods, Worker(p)
  PROVE  /\ time' \in [Pods -> Times] /\ own' \in [Pods -> {"shared", "nil", "error"}]
         /\ oldTTFRs' \in [Pods -> Seq(Times)] /\ oldErrors' \in [Pods -> Seq(BOOLEAN)]
         /\ newError' \in [Pods -> BOOLEAN] /\ err' \in BOOLEAN
         /\ ttfrs' \in Seq(Times) /\ errors' \in Seq(BOOLEAN)
         /\ measured' \subseteq Pods /\ undeleted' \subseteq Pods
         /\ pods' \in [Pods -> {"absent", "up", "terminating"}]
<1>1. /\ time \in [Pods -> Times] /\ own \in [Pods -> {"shared", "nil", "error"}]
      /\ oldTTFRs \in [Pods -> Seq(Times)] /\ oldErrors \in [Pods -> Seq(BOOLEAN)]
      /\ newError \in [Pods -> BOOLEAN] /\ err \in BOOLEAN
      /\ ttfrs \in Seq(Times) /\ errors \in Seq(BOOLEAN)
      /\ measured \subseteq Pods /\ undeleted \subseteq Pods
      /\ pods \in [Pods -> {"absent", "up", "terminating"}]
  BY DEF TypeOK, Times
<1>2. p \in Times /\ Sentinel \in Times
  BY DEF Times
<1>3. Deleted(p) \in [Pods -> {"absent", "up", "terminating"}]
  BY <1>1 DEF Deleted
<1> HIDE DEF Times, Sentinel
<1>4. CASE CreatePod(p)
  BY <1>1, <1>4 DEF CreatePod, old
<1>5. CASE WaitForTestPods(p)
  BY <1>1, <1>5 DEF WaitForTestPods, old
<1>6. CASE CheckErr(p)
  BY <1>1, <1>6 DEF CheckErr, old, shared
<1>7. CASE GetPodTTFR(p)
  <2>1. pods' \in [Pods -> {"absent", "up", "terminating"}]
    BY <1>1, <1>3, <1>7 DEF GetPodTTFR
  <2>2. /\ time' = [time EXCEPT ![p] = p] \/ time' = time
        /\ measured' = measured \cup {p} \/ measured' = measured
    BY <1>7, Zenon DEF GetPodTTFR
  <2>3. time' \in [Pods -> Times] /\ measured' \subseteq Pods
    BY <1>1, <1>2, <2>2
  <2>4. own' \in [Pods -> {"shared", "nil", "error"}]
    BY <1>1, <1>7 DEF GetPodTTFR
  <2> QED
    BY <1>1, <1>7, <2>1, <2>3, <2>4 DEF GetPodTTFR, old, shared
<1>8. CASE LoadTTFRs(p)
  BY <1>1, <1>8 DEF LoadTTFRs, shared
<1>9. CASE StoreTTFRs(p)
  <2>1. Append(oldTTFRs[p], time[p]) \in Seq(Times) /\ <<>> \in Seq(Times)
    BY <1>1, AppendProperties, EmptySeq
  <2> QED
    BY <1>1, <1>2, <1>9, <2>1 DEF StoreTTFRs
<1>10. CASE LoadErrors(p)
  <2>1. (IF own[p] = "shared" THEN err ELSE own[p] = "error") \in BOOLEAN
    BY <1>1
  <2> QED
    BY <1>1, <1>10, <2>1 DEF LoadErrors, shared
<1>11. CASE StoreErrors(p)
  <2>1. Append(oldErrors[p], newError[p]) \in Seq(BOOLEAN) /\ <<>> \in Seq(BOOLEAN)
    BY <1>1, AppendProperties, EmptySeq
  <2> QED
    BY <1>1, <1>11, <2>1 DEF StoreErrors
<1>12. CASE DeletePod(p)
  BY <1>1, <1>3, <1>12 DEF DeletePod, old, shared
<1>13. CASE Release(p)
  BY <1>1, <1>13 DEF Release, old, shared
<1> QED
  BY <1>4, <1>5, <1>6, <1>7, <1>8, <1>9, <1>10, <1>11, <1>12, <1>13 DEF Worker

\* All steps keep the types.
LEMMA StepKeepsTypes ==
  ASSUME TypeOK, Launched, [Next]_vars
  PROVE  TypeOK'
<1>0. nodes' = nodes => numThreads' = numThreads
  BY DEF numThreads
<1>1. CASE BeginRound
  <2>1. round + 1 \in 0..MaxRounds
    BY <1>1, ConstantsAreNumbers, CountersAreNumbers DEF BeginRound
  <2>2. 0 \in 0..MaxPods /\ 0 \in 0..numThreads
    BY ConstantsAreNumbers, PermitsAreNumbers
  <2> QED
    BY <1>0, <1>1, <2>1, <2>2, EmptySeq DEF BeginRound, TypeOK, goroutine, old, shared
<1>2. CASE FailEarly
  <2>1. round + 1 \in 0..MaxRounds /\ faults' \in 0..MaxFaults
    BY <1>2, ConstantsAreNumbers, CountersAreNumbers, FaultsAreCounted DEF FailEarly
  <2> QED
    BY <1>0, <1>2, <2>1, EmptySeq DEF FailEarly, TypeOK, goroutine, old, shared
<1>3. CASE StartPod
  <2>1. started' \in 0..MaxPods
    BY <1>3, StartPodIsOneMore, ConstantsAreNumbers DEF Pods
  <2>2. at' \in [Pods -> Labels]
    BY <1>3, StartPodIsOneMore DEF TypeOK, Labels
  <2> QED
    BY <1>0, <1>3, <2>1, <2>2, StartPodIsOneMore DEF TypeOK, Labels, old, shared
<1>4. CASE Collect
  <2>1. results' \in Seq(Times)
    <3>1. errors \in Seq(BOOLEAN) /\ ttfrs \in Seq(Times) /\ results \in Seq(Times)
      BY DEF TypeOK, Times
    <3> QED
      BY <1>4, <3>1, CopiedAreTheSuccesses DEF Collect
  <2>2. pc' \in {"idle", "panic"}
    BY <1>4 DEF Collect
  <2>3. /\ ttfrs' \in Seq(Times) /\ errors' \in Seq(BOOLEAN)
        /\ oldTTFRs' \in [Pods -> Seq(Times)] /\ oldErrors' \in [Pods -> Seq(BOOLEAN)]
    BY <1>4, EmptySeq DEF Collect, Fresh
  <2>4. /\ at' \in [Pods -> Labels] /\ time' \in [Pods -> Times]
        /\ own' \in [Pods -> {"shared", "nil", "error"}] /\ newError' \in [Pods -> BOOLEAN]
        /\ err' \in BOOLEAN
    BY <1>4 DEF Collect, Fresh, Labels, Times
  <2> QED
    BY <1>0, <1>4, <2>1, <2>2, <2>3, <2>4 DEF Collect, TypeOK, Labels, Times
<1>5. ASSUME NEW p \in Pods, Worker(p)
      PROVE  TypeOK'
  <2>1. sem' \in 0..numThreads
    <3>1. CASE Release(p)
      BY <3>1, PermitToGiveBack, PermitsAreNumbers, NumbersAreBounded DEF Release
    <3>2. CASE ~Release(p)
      BY <1>5, <3>2, WorkerMoves, NumbersAreBounded
    <3> QED
      BY <3>1, <3>2
  <2>2. faults' \in 0..MaxFaults
    BY <1>5, WorkerFaultsAreCounted
  <2> QED
    BY <1>0, <1>5, <2>1, <2>2, WorkerMoves, WorkerKeepsItsTypes DEF TypeOK, Labels, Times
<1>6. ASSUME NEW p \in Pods, PodGone(p)
      PROVE  TypeOK'
  BY <1>0, <1>6 DEF PodGone, TypeOK, caller, goroutine, old, shared
<1>7. CASE UNCHANGED vars
  BY <1>0, <1>7 DEF vars, TypeOK, caller, goroutine, old, shared
<1> QED
  BY <1>1, <1>2, <1>3, <1>4, <1>5, <1>6, <1>7 DEF Next, Rest

-----------------------------------------------------------------------------
(* The goroutines, their permits and their pods.                           *)

\* A goroutine that may still create, or is going to delete, its pod.
Minding == {"created", "await", "awaited", "read", "load ttfrs", "store ttfrs", "load errors",
            "store errors", "delete"}

\* Only its own goroutine and the kubelet touch a pod, and only its goroutine gives it up.
LEMMA WorkerMindsItsPod ==
  ASSUME TypeOK, BoundToDelete, NEW p \in Pods, Worker(p)
  PROVE  BoundToDelete'
<1>1. \A q \in Pods \ {p} : pods'[q] = pods[q] /\ (q \in undeleted' <=> q \in undeleted)
  BY DEF Worker, CreatePod, WaitForTestPods, CheckErr, GetPodTTFR, LoadTTFRs, StoreTTFRs,
         LoadErrors, StoreErrors, DeletePod, Release, Deleted, TypeOK
<1>2. \A q \in Up \ undeleted : at[q] \in Minding
  BY DEF BoundToDelete, Minding
<1>3. ASSUME NEW q \in Up' \ undeleted', q # p
      PROVE  at'[q] \in Minding
  <2>1. q \in Up \ undeleted
    BY <1>1, <1>3 DEF Up
  <2> QED
    BY <1>2, <1>3, <2>1, WorkerMoves DEF Up
<1>4. ASSUME p \in Up' \ undeleted'
      PROVE  at'[p] \in Minding
  <2>1. ~DeletePod(p)
    BY <1>4 DEF DeletePod, Deleted, Up, TypeOK
  <2>2. ~Release(p)
    <3>1. SUFFICES ASSUME Release(p) PROVE FALSE
      OBVIOUS
    <3>2. p \in Up \ undeleted /\ at[p] = "release"
      BY <1>4, <3>1 DEF Release, Up
    <3> QED
      BY <1>2, <3>2 DEF Minding
  <2> QED
    BY <2>1, <2>2 DEF Worker, CreatePod, WaitForTestPods, CheckErr, GetPodTTFR, LoadTTFRs,
       StoreTTFRs, LoadErrors, StoreErrors, Goto, Minding, TypeOK
<1> QED
  BY <1>3, <1>4 DEF BoundToDelete, Minding, Up

\* A goroutine returns its permit when it is done, and not before.
LEMMA WorkerHoldsItsPermit ==
  ASSUME TypeOK, Launched, NEW p \in Pods, Worker(p)
  PROVE  Launched'
<1>1. /\ UNCHANGED <<pc, round, started>> /\ at[p] \notin {"unborn", "done"}
      /\ \A q \in Pods : at'[q] = "unborn" <=> at[q] = "unborn"
  BY WorkerMoves
<1>2. sem' = Cardinality(Working')
  <2>1. CASE Release(p)
    <3>1. Working' = Working \ {p} /\ p \in Working
      BY <1>1, <2>1, WorkerMoves DEF Working
    <3>2. Cardinality(Working \ {p}) = Cardinality(Working) - 1
      BY <3>1, WorkingIsFinite, FS_RemoveElement
    <3> QED
      BY <2>1, <3>1, <3>2 DEF Release, Launched
  <2>2. CASE ~Release(p)
    <3>1. Working' = Working
      BY <1>1, <2>2, WorkerMoves DEF Working
    <3> QED
      BY <2>2, <3>1, WorkerMoves DEF Launched
  <2> QED
    BY <2>1, <2>2
<1> QED
  BY <1>1, <1>2 DEF Launched

\* All steps keep Launched.
LEMMA StepKeepsLaunched ==
  ASSUME TypeOK, Launched, [Next]_vars
  PROVE  Launched'
<1>1. CASE BeginRound
  <2>1. \A q \in Pods : at[q] = "unborn"
    BY <1>1 DEF BeginRound, Launched
  <2>2. Working' = {}
    BY <1>1, <2>1 DEF BeginRound, Working, goroutine
  <2>3. round' > 0 /\ started' = 0 /\ sem' = 0 /\ pc' = "loop" /\ at' = at
    BY <1>1, CountersAreNumbers DEF BeginRound, goroutine
  <2>4. \A q \in Pods : q > 0
    BY ConstantsAreNumbers
  <2> QED
    BY <2>1, <2>2, <2>3, <2>4, FS_EmptySet DEF Launched
<1>2. CASE FailEarly
  BY <1>2 DEF FailEarly, Launched, Working, goroutine
<1>3. CASE StartPod
  <2>1. Working' = Working \cup {started'} /\ started' \notin Working
    BY <1>3, StartPodIsOneMore DEF Working, TypeOK
  <2>2. Cardinality(Working') = Cardinality(Working) + 1
    BY <2>1, WorkingIsFinite, FS_AddElement
  <2>3. \A q \in Pods : at[q] = "unborn" <=> q > started
    BY <1>3, StartPodIsOneMore DEF Launched
  <2>4. \A q \in Pods : q > started' <=> (q > started /\ q # started')
    BY <1>3, StartPodIsOneMore, ConstantsAreNumbers, CountersAreNumbers
  <2>5. \A q \in Pods : at'[q] = "unborn" <=> q > started'
    BY <1>3, <2>3, <2>4, StartPodIsOneMore DEF TypeOK
  <2> QED
    BY <1>3, <2>2, <2>5, StartPodIsOneMore DEF Launched
<1>4. CASE Collect
  <2>1. Working = {}
    BY <1>4 DEF Collect, Working
  <2>2. Working' = {} /\ \A q \in Pods : at'[q] = "unborn"
    BY <1>4 DEF Collect, Fresh, Working
  <2>3. pc' \in {"idle", "panic"} /\ sem' = sem
    BY <1>4 DEF Collect
  <2> QED
    BY <2>1, <2>2, <2>3 DEF Launched
<1>5. ASSUME NEW p \in Pods, Worker(p)
      PROVE  Launched'
  BY <1>5, WorkerHoldsItsPermit
<1>6. ASSUME NEW p \in Pods, PodGone(p)
      PROVE  Launched'
  BY <1>6 DEF PodGone, Launched, Working, caller, goroutine
<1>7. CASE UNCHANGED vars
  BY <1>7 DEF vars, Launched, Working, caller, goroutine
<1> QED
  BY <1>1, <1>2, <1>3, <1>4, <1>5, <1>6, <1>7 DEF Next, Rest

\* All steps keep BoundToDelete.
LEMMA StepKeepsBoundToDelete ==
  ASSUME TypeOK, Launched, BoundToDelete, [Next]_vars
  PROVE  BoundToDelete'
<1>1. CASE BeginRound
  BY <1>1 DEF BeginRound, BoundToDelete, Up, goroutine
<1>2. CASE FailEarly
  BY <1>2 DEF FailEarly, BoundToDelete, Up, goroutine
<1>3. CASE StartPod
  <2>1. \A q \in Up \ undeleted : q # started'
    BY <1>3, StartPodIsOneMore DEF BoundToDelete
  <2>2. Up' = Up /\ undeleted' = undeleted
    BY <1>3, StartPodIsOneMore DEF Up
  <2>3. \A q \in Pods : q # started' => at'[q] = at[q]
    BY <1>3, StartPodIsOneMore DEF TypeOK
  <2> QED
    BY <2>1, <2>2, <2>3 DEF BoundToDelete, Up
<1>4. CASE Collect
  <2>1. Up \ undeleted = {}
    BY <1>4 DEF Collect, BoundToDelete, Up
  <2>2. Up' = Up /\ undeleted' = undeleted
    BY <1>4 DEF Collect, Up
  <2> QED
    BY <2>1, <2>2 DEF BoundToDelete
<1>5. ASSUME NEW p \in Pods, Worker(p)
      PROVE  BoundToDelete'
  BY <1>5, WorkerMindsItsPod
<1>6. ASSUME NEW p \in Pods, PodGone(p)
      PROVE  BoundToDelete'
  <2>1. Up' \subseteq Up /\ UNCHANGED <<at, undeleted>>
    BY <1>6 DEF PodGone, Up, TypeOK, goroutine
  <2> QED
    BY <2>1 DEF BoundToDelete
<1>7. CASE UNCHANGED vars
  BY <1>7 DEF vars, BoundToDelete, Up, goroutine
<1> QED
  BY <1>1, <1>2, <1>3, <1>4, <1>5, <1>6, <1>7 DEF Next, Rest

-----------------------------------------------------------------------------
(* One permit: the goroutines follow each other.                           *)

LEMMA BegunInItsRound ==
  ASSUME Launched, TypeOK, NEW p \in Pods, at[p] # "unborn"
  PROVE  pc \in {"loop", "wait"} /\ p <= started
<1>1. pc \in {"loop", "wait"}
  BY DEF Launched, TypeOK
<1>2. ~(p > started)
  BY <1>1 DEF Launched
<1> QED
  BY <1>1, <1>2, ConstantsAreNumbers, CountersAreNumbers

\* At a goroutine's step the others are over or unborn, the former the first ones.
LEMMA OneAtWork ==
  ASSUME TypeOK, Launched, Serial, NEW p \in Pods, at[p] \notin {"unborn", "done"}
  PROVE  /\ pc \in {"loop", "wait"} /\ p = started
         /\ \A q \in Pods : IF q < p THEN at[q] = "done" ELSE q # p => at[q] = "unborn"
         /\ \A q \in Pods : Worked(q)
         /\ Matching
<1>1. pc \in {"loop", "wait"}
  BY BegunInItsRound
<1>2. /\ p = started /\ \A q \in Pods : at[q] \in {"unborn", "done"} \/ q = p
      /\ \A q \in Pods : Worked(q)
      /\ Matching
  BY <1>1 DEF Serial
<1>3. \A q \in Pods : at[q] = "unborn" <=> q > p
  BY <1>1, <1>2 DEF Launched
<1>4. \A q \in Pods : IF q < p THEN at[q] = "done" ELSE q # p => at[q] = "unborn"
  <2> SUFFICES ASSUME NEW q \in Pods
               PROVE  IF q < p THEN at[q] = "done" ELSE q # p => at[q] = "unborn"
    OBVIOUS
  <2>1. q \in Nat /\ p \in Nat
    BY ConstantsAreNumbers
  <2>2. CASE q < p
    BY <1>2, <1>3, <2>1, <2>2
  <2>3. CASE ~(q < p)
    <3>1. q # p => q > p
      BY <2>1, <2>3
    <3> QED
      BY <1>3, <2>3, <3>1
  <2> QED
    BY <2>2, <2>3
<1> QED
  BY <1>1, <1>2, <1>4

\* The others do not notice.
LEMMA OthersRest ==
  ASSUME TypeOK, Launched, Serial, NEW p \in Pods, Worker(p),
         NEW q \in Pods, q # p
  PROVE  /\ at'[q] = at[q] /\ at[q] \in {"unborn", "done"}
         /\ (q \in measured' <=> q \in measured) /\ Worked(q)'
<1>1. at'[q] = at[q] /\ at[p] \notin {"unborn", "done"}
  BY WorkerMoves
<1>2. at[q] \in {"unborn", "done"} /\ Worked(q)
  BY <1>1, OneAtWork
<1>3. time'[q] = time[q] /\ own'[q] = own[q] /\ (q \in measured' <=> q \in measured)
  BY DEF Worker, CreatePod, WaitForTestPods, CheckErr, GetPodTTFR, LoadTTFRs, StoreTTFRs,
         LoadErrors, StoreErrors, DeletePod, Release, old, shared, TypeOK
<1> QED
  BY <1>1, <1>2, <1>3 DEF Worked

\* Steps that append nothing leave the slices matching.
LEMMA StillMatching ==
  ASSUME Matching, UNCHANGED <<ttfrs, errors>>, Timed' = Timed, Answered' = Answered,
         \A q \in Timed : q \in measured' <=> q \in measured
  PROVE  Matching'
<1>1. Answered \subseteq Timed
  BY DEF Answered, Timed
<1> QED
  BY <1>1 DEF Matching, TimeOf

\* The steps of a goroutine keep Matching.
LEMMA WorkerKeepsMatching ==
  ASSUME TypeOK, Launched, Serial, NEW p \in Pods, Worker(p)
  PROVE  Matching'
<1>1. at[p] \notin {"unborn", "done"}
  BY WorkerMoves
<1>2. /\ p = started /\ Worked(p) /\ Matching
      /\ \A q \in Pods : IF q < p THEN at[q] = "done" ELSE q # p => at[q] = "unborn"
  BY <1>1, OneAtWork
<1>3. /\ \A q \in Pods \ {p} : at'[q] = at[q] /\ at[q] \in {"unborn", "done"}
      /\ \A q \in Pods \ {p} : q \in measured' <=> q \in measured
  BY OthersRest
<1>4. p \in Nat \ {0} /\ 1..p - 1 \subseteq Pods /\ 1..p \subseteq Pods /\ (p - 1) + 1 = p
      /\ 1..p = (1..p - 1) \cup {p}
  BY ConstantsAreNumbers DEF Pods
<1>5. {q \in Pods : at[q] = "done"} = 1..p - 1
  <2>1. \A q \in Pods : at[q] = "done" <=> q < p
    BY <1>1, <1>2
  <2>2. \A q \in Pods : q < p <=> q \in 1..p - 1
    BY <1>4, ConstantsAreNumbers
  <2> QED
    BY <1>4, <2>1, <2>2, Zenon
<1>6. CASE StoreTTFRs(p)
  <2>1. at[p] = "store ttfrs" /\ at'[p] = "load errors"
    BY <1>6 DEF StoreTTFRs, Goto, TypeOK
  <2>2. Timed = 1..p - 1 /\ Answered' = Answered
    BY <1>3, <1>5, <2>1 DEF Timed, Answered
  <2>3. Timed' = Timed \cup {p} /\ p \notin Timed
    BY <1>3, <2>1 DEF Timed
  <2>4. ttfrs' = Append(ttfrs, TimeOf(p)) /\ UNCHANGED <<errors, measured>>
    BY <1>2, <1>6, <2>1 DEF StoreTTFRs, Worked
  <2>5. ttfrs \in Seq(Times) /\ TimeOf(p) \in Times /\ DOMAIN ttfrs = 1..p - 1
    BY <1>2, <2>2 DEF TypeOK, Times, TimeOf, Matching
  <2>6. Len(ttfrs) = p - 1
    BY <2>5, <1>4, LenProperties
  <2>7. /\ DOMAIN ttfrs' = 1..p /\ ttfrs'[p] = TimeOf(p)
        /\ \A q \in 1..p - 1 : ttfrs'[q] = ttfrs[q]
    BY <1>4, <2>4, <2>5, <2>6, AppendProperties, LenProperties
  <2>8. \A q \in Timed' : ttfrs'[q] = TimeOf(q)'
    BY <1>2, <2>2, <2>3, <2>4, <2>7 DEF Matching, TimeOf
  <2>9. DOMAIN ttfrs' = Timed'
    BY <1>4, <2>2, <2>3, <2>7
  <2> QED
    BY <1>2, <2>2, <2>4, <2>8, <2>9 DEF Matching
<1>7. CASE StoreErrors(p)
  <2>1. at[p] = "store errors" /\ at'[p] = "delete"
    BY <1>7 DEF StoreErrors, Goto, TypeOK
  <2>2. Answered = 1..p - 1 /\ Timed' = Timed
    BY <1>3, <1>5, <2>1 DEF Timed, Answered
  <2>3. Answered' = Answered \cup {p} /\ p \notin Answered
    BY <1>3, <2>1 DEF Answered
  <2>4. /\ errors' = Append(errors, newError[p]) /\ UNCHANGED <<ttfrs, measured>>
        /\ newError[p] <=> p \notin measured
    BY <1>2, <1>7, <2>1 DEF StoreErrors, Worked
  <2>5. errors \in Seq(BOOLEAN) /\ newError[p] \in BOOLEAN /\ DOMAIN errors = 1..p - 1
    BY <1>2, <2>2 DEF TypeOK, Matching
  <2>6. Len(errors) = p - 1
    BY <2>5, <1>4, LenProperties
  <2>7. /\ DOMAIN errors' = 1..p /\ errors'[p] = newError[p]
        /\ \A q \in 1..p - 1 : errors'[q] = errors[q]
    BY <1>4, <2>4, <2>5, <2>6, AppendProperties, LenProperties
  <2>8. \A q \in Answered' : errors'[q] <=> q \notin measured'
    BY <1>2, <2>2, <2>3, <2>4, <2>7 DEF Matching
  <2>9. DOMAIN errors' = Answered'
    BY <1>4, <2>2, <2>3, <2>7
  <2> QED
    BY <1>2, <2>2, <2>4, <2>8, <2>9 DEF Matching, TimeOf
<1>8. CASE ~StoreTTFRs(p) /\ ~StoreErrors(p)
  <2>1. UNCHANGED <<ttfrs, errors>>
    BY <1>8 DEF Worker, CreatePod, WaitForTestPods, CheckErr, GetPodTTFR, LoadTTFRs,
       LoadErrors, DeletePod, Release, shared
  <2>2. p \in Timed' <=> p \in Timed
    BY <1>8 DEF Worker, CreatePod, WaitForTestPods, CheckErr, GetPodTTFR, LoadTTFRs,
       LoadErrors, DeletePod, Release, Goto, Timed, TypeOK
  <2>3. p \in Answered' <=> p \in Answered
    BY <1>8 DEF Worker, CreatePod, WaitForTestPods, CheckErr, GetPodTTFR, LoadTTFRs,
       LoadErrors, DeletePod, Release, Goto, Answered, TypeOK
  <2>4. p \in Timed => UNCHANGED measured
    BY <1>8 DEF Worker, CreatePod, WaitForTestPods, CheckErr, GetPodTTFR, LoadTTFRs,
       LoadErrors, DeletePod, Release, Timed, shared
  <2>5. Timed' = Timed /\ Answered' = Answered
    BY <1>3, <2>2, <2>3 DEF Timed, Answered
  <2>6. \A q \in Timed : q \in measured' <=> q \in measured
    BY <1>3, <2>4 DEF Timed
  <2> QED
    BY <1>2, <2>1, <2>5, <2>6, StillMatching
<1> QED
  BY <1>6, <1>7, <1>8

\* What the goroutine's own step leaves it with.
LEMMA WorkerKeepsWorked ==
  ASSUME TypeOK, NEW p \in Pods, Worked(p), Worker(p)
  PROVE  Worked(p)'
<1>1. CASE CreatePod(p)
  <2>1. at[p] = "create" /\ at'[p] = "created" /\ UNCHANGED <<time, own, measured>>
    BY <1>1 DEF CreatePod, Goto, TypeOK
  <2> QED
    BY <2>1 DEF Worked
<1>2. CASE WaitForTestPods(p)
  <2>1. at[p] = "await" /\ at'[p] = "awaited" /\ UNCHANGED <<time, own, measured>>
    BY <1>2 DEF WaitForTestPods, Goto, TypeOK
  <2> QED
    BY <2>1 DEF Worked
<1>3. CASE CheckErr(p)
  <2>1. /\ at[p] \in {"created", "awaited"} /\ UNCHANGED <<time, own, measured, err>>
        /\ at'[p] = IF err THEN "load ttfrs" ELSE IF at[p] = "created" THEN "await" ELSE "read"
    BY <1>3 DEF CheckErr, Goto, TypeOK, shared
  <2>2. time[p] = Sentinel /\ own[p] = "shared" /\ p \notin measured
    BY <2>1 DEF Worked
  <2>3. CASE err
    BY <2>1, <2>2, <2>3 DEF Worked, TimeOf, Failed
  <2>4. CASE ~err
    BY <2>1, <2>2, <2>4 DEF Worked
  <2> QED
    BY <2>3, <2>4
<1>4. CASE GetPodTTFR(p)
  <2>1. at[p] = "read" /\ at'[p] = "load ttfrs"
    BY <1>4 DEF GetPodTTFR, Goto, TypeOK
  <2>2. time[p] = Sentinel /\ p \notin measured
    BY <2>1 DEF Worked
  <2>3. \/ time'[p] = p /\ own'[p] = "nil" /\ p \in measured'
        \/ time'[p] = time[p] /\ own'[p] = "error" /\ measured' = measured
    BY <1>4 DEF GetPodTTFR, TypeOK
  <2>4. time'[p] = TimeOf(p)' /\ (Failed(p)' <=> p \notin measured')
    BY <2>2, <2>3 DEF TimeOf, Failed
  <2> QED
    BY <2>1, <2>4 DEF Worked
<1>5. CASE LoadTTFRs(p)
  <2>1. /\ at[p] = "load ttfrs" /\ at'[p] = "store ttfrs" /\ oldTTFRs'[p] = ttfrs
        /\ UNCHANGED <<time, own, measured, err, ttfrs>>
    BY <1>5 DEF LoadTTFRs, Goto, TypeOK, shared
  <2> QED
    BY <2>1 DEF Worked, TimeOf, Failed
<1>6. CASE StoreTTFRs(p)
  <2>1. /\ at[p] = "store ttfrs" /\ at'[p] = "load errors"
        /\ UNCHANGED <<own, measured, err>>
    BY <1>6 DEF StoreTTFRs, Goto, TypeOK
  <2> QED
    BY <2>1 DEF Worked, Failed
<1>7. CASE LoadErrors(p)
  <2>1. /\ at[p] = "load errors" /\ at'[p] = "store errors" /\ oldErrors'[p] = errors
        /\ newError'[p] = Failed(p) /\ UNCHANGED <<measured, errors>>
    BY <1>7 DEF LoadErrors, Goto, TypeOK, shared, Failed
  <2> QED
    BY <2>1 DEF Worked
<1>8. CASE StoreErrors(p)
  <2>1. at'[p] = "delete"
    BY <1>8 DEF StoreErrors, Goto, TypeOK
  <2> QED
    BY <2>1 DEF Worked
<1>9. CASE DeletePod(p)
  <2>1. at'[p] = "release"
    BY <1>9 DEF DeletePod, Goto, TypeOK
  <2> QED
    BY <2>1 DEF Worked
<1>10. CASE Release(p)
  <2>1. at'[p] = "done"
    BY <1>10 DEF Release, Goto, TypeOK
  <2> QED
    BY <2>1 DEF Worked
<1> QED
  BY <1>1, <1>2, <1>3, <1>4, <1>5, <1>6, <1>7, <1>8, <1>9, <1>10 DEF Worker

\* wg.Wait() has returned: the slices are those of all the pods of the round.
LEMMA SettledSlices ==
  ASSUME TypeOK, Launched, Serial, pc = "wait",
         \A p \in Pods : at[p] \in {"unborn", "done"}
  PROVE  /\ DOMAIN ttfrs = 1..started /\ DOMAIN errors = 1..started
         /\ \A k \in 1..started : k \in Pods /\ ttfrs[k] = TimeOf(k)
         /\ \A k \in 1..started : errors[k] <=> k \notin measured
         /\ measured \subseteq 1..started
<1>1. Matching /\ \A p \in Pods : Worked(p)
  BY DEF Serial
<1>2. \A p \in Pods : at[p] = "unborn" <=> p > started
  BY DEF Launched
<1>3. \A p \in Pods : p \in 1..started <=> ~(p > started)
  BY ConstantsAreNumbers, CountersAreNumbers
<1>4. 1..started \subseteq Pods
  BY NumbersAreBounded, ConstantsAreNumbers DEF Pods
<1>5. {p \in Pods : at[p] = "done"} = 1..started
  <2>1. \A p \in Pods : at[p] = "done" <=> p \in 1..started
    BY <1>2, <1>3
  <2> QED
    BY <1>4, <2>1, Zenon
<1>6. Timed = 1..started /\ Answered = 1..started
  <2>1. Timed = {p \in Pods : at[p] = "done"} /\ Answered = {p \in Pods : at[p] = "done"}
    BY DEF Timed, Answered
  <2> QED
    BY <1>5, <2>1
<1>7. measured \subseteq 1..started
  <2>1. \A p \in measured : at[p] # "unborn"
    BY <1>1 DEF Worked, TypeOK
  <2> QED
    BY <1>2, <1>3, <2>1 DEF TypeOK
<1> QED
  BY <1>1, <1>4, <1>6, <1>7 DEF Matching

\* With one permit, what is collected are the times measured.
LEMMA CollectIsExact ==
  ASSUME TypeOK, Launched, Serial, Collect
  PROVE  pc' = "idle" /\ ResultsAreMeasured'
<1>1. pc = "wait" /\ \A p \in Pods : at[p] \in {"unborn", "done"}
  BY DEF Collect
<1>2. /\ DOMAIN ttfrs = 1..started /\ DOMAIN errors = 1..started
      /\ \A k \in 1..started : k \in Pods /\ ttfrs[k] = TimeOf(k)
      /\ \A k \in 1..started : errors[k] <=> k \notin measured
      /\ measured \subseteq 1..started
  BY <1>1, SettledSlices
<1>3. \A k \in DOMAIN errors : ~errors[k] => k \in DOMAIN ttfrs
  BY <1>2
<1>4. pc' = "idle" /\ results' = Copied(errors, ttfrs) /\ measured' = measured
  BY <1>3 DEF Collect
<1>5. {k \in DOMAIN errors : ~errors[k]} = measured
  BY <1>2
<1>6. errors \in Seq(BOOLEAN) /\ ttfrs \in Seq(Times)
  BY DEF TypeOK, Times
<1>7. /\ \A j \in DOMAIN results' : \E k \in DOMAIN errors : ~errors[k] /\ results'[j] = ttfrs[k]
      /\ Len(results') = Cardinality({k \in DOMAIN errors : ~errors[k]})
  BY <1>3, <1>4, <1>6, CopiedAreTheSuccesses
<1>8. \A j \in DOMAIN results' : results'[j] \in measured
  <2>1. TAKE j \in DOMAIN results'
  <2>2. PICK k \in DOMAIN errors : ~errors[k] /\ results'[j] = ttfrs[k]
    BY <1>7, <2>1
  <2>3. k \in measured /\ ttfrs[k] = k
    BY <1>2, <2>2 DEF TimeOf
  <2> QED
    BY <2>2, <2>3
<1> QED
  BY <1>4, <1>5, <1>7, <1>8 DEF ResultsAreMeasured

\* All steps keep Serial.
LEMMA StepKeepsSerial ==
  ASSUME TypeOK, Launched, Serial, numThreads = 1, [Next]_vars
  PROVE  Serial'
<1>1. CASE BeginRound
  <2>1. \A p \in Pods : at[p] = "unborn"
    BY <1>1 DEF BeginRound, Launched
  <2>2. /\ ttfrs = <<>> /\ errors = <<>>
        /\ \A p \in Pods : time[p] = Sentinel /\ own[p] = "shared"
    BY <1>1 DEF BeginRound, Serial
  <2>3. pc' = "loop" /\ measured' = {} /\ UNCHANGED <<at, time, own, ttfrs, errors>>
    BY <1>1 DEF BeginRound, goroutine, shared
  <2>4. \A p \in Pods : Worked(p)'
    BY <2>1, <2>2, <2>3 DEF Worked
  <2>5. Timed' = {} /\ Answered' = {}
    BY <2>1, <2>3 DEF Timed, Answered
  <2>6. DOMAIN ttfrs' = {} /\ DOMAIN errors' = {}
    BY <2>2, <2>3, EmptySeq
  <2>7. Matching'
    BY <2>5, <2>6 DEF Matching
  <2> QED
    BY <2>1, <2>3, <2>4, <2>7 DEF Serial
<1>2. CASE FailEarly
  <2>1. pc = "idle" /\ results' = <<>> /\ measured' = {} /\ UNCHANGED <<pc, time, own, ttfrs, errors>>
    BY <1>2 DEF FailEarly, goroutine, shared
  <2>2. ResultsAreMeasured'
    BY <2>1, EmptySeq, FS_EmptySet DEF ResultsAreMeasured
  <2> QED
    BY <2>1, <2>2 DEF Serial
<1>3. CASE StartPod
  <2>1. sem = 0
    BY <1>3, PermitsAreNumbers DEF StartPod
  <2>2. Working = {}
    BY <2>1, WorkingIsFinite, FS_EmptySet DEF Launched
  <2>3. \A p \in Pods : at[p] \in {"unborn", "done"}
    BY <2>2 DEF Working
  <2>4. Matching /\ \A p \in Pods : Worked(p)
    BY <1>3 DEF StartPod, Serial
  <2>5. /\ pc' \in {"loop", "wait"} /\ started' \in Pods /\ at[started'] = "unborn"
        /\ \A p \in Pods : at'[p] = IF p = started' THEN "create" ELSE at[p]
        /\ UNCHANGED <<time, own, measured, ttfrs, errors>>
    BY <1>3, StartPodIsOneMore DEF TypeOK, shared
  <2>6. \A p \in Pods : Worked(p)'
    BY <2>3, <2>4, <2>5 DEF Worked
  <2>7. Timed' = Timed /\ Answered' = Answered
    BY <2>5 DEF Timed, Answered
  <2>8. Matching'
    BY <2>4, <2>5, <2>7, StillMatching
  <2> QED
    BY <2>3, <2>5, <2>6, <2>8 DEF Serial
<1>4. CASE Collect
  <2>1. pc' = "idle" /\ ResultsAreMeasured'
    BY <1>4, CollectIsExact
  <2>2. /\ ttfrs' = <<>> /\ errors' = <<>>
        /\ \A p \in Pods : time'[p] = Sentinel /\ own'[p] = "shared"
    BY <1>4 DEF Collect, Fresh
  <2> QED
    BY <2>1, <2>2 DEF Serial
<1>5. ASSUME NEW p \in Pods, Worker(p)
      PROVE  Serial'
  <2>1. at[p] \notin {"unborn", "done"} /\ UNCHANGED <<pc, started>>
    BY <1>5, WorkerMoves
  <2>2. pc \in {"loop", "wait"} /\ p = started /\ Worked(p)
    BY <2>1, OneAtWork
  <2>3. Worked(p)'
    BY <1>5, <2>2, WorkerKeepsWorked
  <2>4. \A q \in Pods : q # p => at'[q] \in {"unborn", "done"} /\ Worked(q)'
    BY <1>5, OthersRest
  <2>5. Matching'
    BY <1>5, WorkerKeepsMatching
  <2> QED
    BY <2>1, <2>2, <2>3, <2>4, <2>5 DEF Serial
<1>6. ASSUME NEW p \in Pods, PodGone(p)
      PROVE  Serial'
  BY <1>6 DEF PodGone, Serial, Worked, Matching, ResultsAreMeasured, Timed, Answered, Failed,
     TimeOf, caller, goroutine, old, shared
<1>7. CASE UNCHANGED vars
  BY <1>7 DEF vars, Serial, Worked, Matching, ResultsAreMeasured, Timed, Answered, Failed,
     TimeOf, caller, goroutine, old, shared
<1> QED
  BY <1>1, <1>2, <1>3, <1>4, <1>5, <1>6, <1>7 DEF Next, Rest

-----------------------------------------------------------------------------
(* The invariant and what follows from it.                                 *)

LEMMA InitHolds == Init => TTFRInv
<1> SUFFICES ASSUME Init PROVE TTFRInv
  OBVIOUS
<1>1. TypeOK
  BY InitHasItsTypes
<1>2. Launched
  <2>1. Working = {}
    BY DEF Init, Working
  <2> QED
    BY <2>1, FS_EmptySet DEF Init, Launched
<1>3. BoundToDelete
  BY DEF Init, BoundToDelete, Up
<1>4. Serial
  BY DEF Init, Serial
<1> QED
  BY <1>1, <1>2, <1>3, <1>4 DEF TTFRInv

\* The invariant is inductive.
LEMMA StepHolds == TTFRInv /\ [Next]_vars => TTFRInv'
<1> SUFFICES ASSUME TTFRInv, [Next]_vars PROVE TTFRInv'
  OBVIOUS
<1>1. TypeOK /\ Launched /\ BoundToDelete
  BY DEF TTFRInv
<1>2. nodes' = nodes
  BY DEF Next, Rest, vars, caller, BeginRound, FailEarly, StartPod, Collect, PodGone, Worker,
     CreatePod, WaitForTestPods, CheckErr, GetPodTTFR, LoadTTFRs, StoreTTFRs, LoadErrors,
     StoreErrors, DeletePod, Release
<1>3. TypeOK' /\ Launched' /\ BoundToDelete'
  BY <1>1, StepKeepsTypes, StepKeepsLaunched, StepKeepsBoundToDelete
<1>4. (numThreads = 1)' => Serial'
  BY <1>1, <1>2, StepKeepsSerial DEF TTFRInv, numThreads
<1> QED
  BY <1>3, <1>4 DEF TTFRInv

\* The invariant holds.
LEMMA TTFRInvHolds == Spec => []TTFRInv
BY InitHolds, StepHolds, PTL DEF Spec

\* Every variable keeps its type, whatever the goroutines' races do to the shared slices; no
\* more permits are taken than there are, and none is given back twice.
THEOREM TTFRTypeCorrect == Spec => []TypeOK
<1>1. TTFRInv => TypeOK
  BY DEF TTFRInv
<1> QED
  BY <1>1, TTFRInvHolds, PTL

\* No return of a goroutine forgets the pod, whatever err says about its creation: when a
\* round is over, a pod that is still up is one whose last delete failed.
THEOREM NoPodIsForgotten == Spec => []PodsAreDeleted
<1>1. TTFRInv => PodsAreDeleted
  BY DEF TTFRInv, PodsAreDeleted, Launched, BoundToDelete, Up
<1> QED
  BY <1>1, TTFRInvHolds, PTL

\* The channel bounds the pods that are up and not yet to be deleted, in every round.
THEOREM PermitsBoundThePods == Spec => []UpWithinPermits
<1>1. TTFRInv => UpWithinPermits
  <2> SUFFICES ASSUME TTFRInv PROVE UpWithinPermits
    OBVIOUS
  <2>1. TypeOK /\ Launched /\ BoundToDelete
    BY DEF TTFRInv
  <2>2. Up \ undeleted \subseteq Working
    BY <2>1 DEF BoundToDelete, Up, Working
  <2>3. Cardinality(Up \ undeleted) <= Cardinality(Working) /\ Cardinality(Up \ undeleted) \in Nat
    BY <2>2, WorkingIsFinite, FS_Subset, FS_CardinalityType
  <2>4. Cardinality(Working) = sem /\ sem <= numThreads
    BY <2>1, NumbersAreBounded, PermitsAreNumbers DEF Launched
  <2> QED
    BY <2>1, <2>3, <2>4, PermitsAreNumbers DEF UpWithinPermits
<1> QED
  BY <1>1, TTFRInvHolds, PTL

\* With a single permit the two slices match and the results are the times measured, for
\* any number of pods, iterations and failed calls.
THEOREM SerialResultsAreExact == Spec => []ResultsAreMeasurements
<1>1. TTFRInv => ResultsAreMeasurements
  <2> SUFFICES ASSUME TTFRInv, numThreads = 1
               PROVE  SlicesMatch /\ (pc = "idle" /\ round > 0 => ResultsAreMeasured)
    BY DEF ResultsAreMeasurements
  <2>1. TypeOK /\ Launched /\ Serial
    BY DEF TTFRInv
  <2>2. SlicesMatch
    <3> SUFFICES ASSUME Settled
                 PROVE  /\ Len(ttfrs) = started /\ Len(errors) = started
                        /\ \A k \in 1..started : errors[k] <=> ttfrs[k] = Sentinel
      BY DEF SlicesMatch
    <3>1. /\ DOMAIN ttfrs = 1..started /\ DOMAIN errors = 1..started
          /\ \A k \in 1..started : k \in Pods /\ ttfrs[k] = TimeOf(k)
          /\ \A k \in 1..started : errors[k] <=> k \notin measured
      BY <2>1, SettledSlices DEF Settled
    <3>2. ttfrs \in Seq(Times) /\ errors \in Seq(BOOLEAN) /\ started \in Nat
      BY <2>1, CountersAreNumbers DEF TypeOK, Times
    <3>3. Len(ttfrs) = started /\ Len(errors) = started
      BY <3>1, <3>2, LenProperties
    <3>4. \A k \in 1..started : errors[k] <=> ttfrs[k] = Sentinel
      BY <3>1, ConstantsAreNumbers DEF TimeOf
    <3> QED
      BY <3>3, <3>4
  <2> QED
    BY <2>1, <2>2 DEF Serial
<1> QED
  BY <1>1, TTFRInvHolds, PTL

=============================================================================
