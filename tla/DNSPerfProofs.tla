--------------------------- MODULE DNSPerfProofs ----------------------------
(***************************************************************************)
(* That a DNS performance test neither loses nor invents a result and      *)
(* reads every capture, for any number of pods and results, any capacity   *)
(* of the channel and any number of attempts; that what it reads from a    *)
(* capture is right, for any traffic, and what it makes of the results,    *)
(* for any measurements.                                                   *)
(***************************************************************************)
EXTENDS DNSPerf, Capture, Statistics, FiniteSetTheorems, SequenceTheorems,
        WellFoundedInduction, TLAPS

Locations == {"unborn", "curl", "check", "send", "ended"}

-----------------------------------------------------------------------------
(* Facts about the operators of the model.                                 *)

LEMMA ConstantsAreNumbers ==
  /\ IsFiniteSet(Pods) /\ Pods # {} /\ Cardinality(Pods) \in Nat
  /\ Capacity \in Nat \ {0} /\ MaxCurls \in Nat \ {0} /\ MaxTries \in Nat \ {0}
BY DNSPerfAssumption, FS_CardinalityType

\* The workers that run can be counted.
LEMMA RunningIsFinite ==
  /\ IsFiniteSet(Running) /\ Cardinality(Running) \in Nat
  /\ Cardinality(Running) <= Cardinality(Pods)
<1>1. Running \subseteq Pods
  BY DEF Running
<1> QED
  BY <1>1, ConstantsAreNumbers, FS_Subset, FS_CardinalityType

\* Every result is either a success or a failure.
LEMMA EveryResultIsCounted ==
  ASSUME NEW raw \in Seq(Result)
  PROVE  /\ ProcessResults(raw) \in [successful : Nat, failed : Nat]
         /\ ProcessResults(raw).successful + ProcessResults(raw).failed = Len(raw)
<1> DEFINE D == DOMAIN raw
           failures == {k \in D : raw[k].outcome \in {"failed", "cut off"}}
<1>1. D = 1..Len(raw) /\ Len(raw) \in Nat
  BY LenProperties
<1>2. IsFiniteSet(D) /\ Cardinality(D) = Len(raw)
  BY <1>1, FS_Interval
<1>3. failures \subseteq D /\ D \cap failures = failures
  OBVIOUS
<1>4. ProcessResults(raw) = [successful |-> Cardinality(D \ failures),
                             failed |-> Cardinality(failures)]
  BY DEF ProcessResults
<1> HIDE DEF failures, D
<1>5. IsFiniteSet(failures) /\ IsFiniteSet(D \ failures)
  BY <1>2, <1>3, FS_Subset, FS_Difference
<1>6. Cardinality(D \ failures) = Cardinality(D) - Cardinality(failures)
  <2>1. Cardinality(D \ failures) = Cardinality(D) - Cardinality(D \cap failures)
    BY <1>2, FS_Difference, Zenon
  <2> QED
    BY <2>1, <1>3, Zenon
<1>7. Cardinality(failures) \in Nat /\ Cardinality(D \ failures) \in Nat
  BY <1>5, FS_CardinalityType
<1> QED
  BY <1>1, <1>2, <1>4, <1>6, <1>7

\* While a capture is missing there is a next one.
LEMMA NextCaptureIsMissing ==
  ASSUME counted \subseteq Pods, counted # Pods
  PROVE  NextCapture \in Pods \ counted
BY DEF NextCapture

-----------------------------------------------------------------------------
(* What the steps of the parts leave alone.                                *)

LEMMA WorkerLeavesAlone ==
  ASSUME NEW p \in Pods, Worker(p)
  PROVE  UNCHANGED <<pc, mode, expired, closed, received, stressing, capturing, counting>>
BY DEF Worker, Curl, CheckContext, Send, worker_unchanged

\* What the background steps leave unchanged.
LEMMA BackgroundLeavesAlone ==
  ASSUME ScaleDeploymentLoop \/ \E p \in Pods : RunTCPDump(p)
  PROVE  UNCHANGED <<pc, mode, expired, workers, channel, closed, received, counting>>
BY DEF ScaleDeploymentLoop, ScalerCheck, Scale, Sleep, RunTCPDump, StartTCPDump, EndTCPDump,
       background_unchanged

\* The background steps only add captures.
LEMMA BackgroundKeepsCaptures ==
  ASSUME TypeOK, ScaleDeploymentLoop \/ \E p \in Pods : RunTCPDump(p)
  PROVE  captures \subseteq captures' /\ captures' \subseteq Pods
BY DEF ScaleDeploymentLoop, ScalerCheck, Scale, Sleep, RunTCPDump, StartTCPDump, EndTCPDump,
       capturing, TypeOK

\* A worker moves along its loop.
LEMMA WorkerMoves ==
  ASSUME TypeOK, NEW p \in Pods, Worker(p)
  PROVE  /\ at' \in [Pods -> Locations]
         /\ \A q \in Pods \ {p} : at'[q] = at[q] /\ outcome'[q] = outcome[q]
         /\ at[p] \notin {"unborn", "ended"} /\ at'[p] # "unborn"
         /\ IF at'[p] = "ended" THEN wg' = wg - 1 ELSE wg' = wg
         /\ outcome' \in [Pods -> Outcomes]
<1>1. at \in [Pods -> Locations] /\ outcome \in [Pods -> Outcomes]
  BY DEF TypeOK, Locations
<1>2. CASE Curl(p)
  BY <1>1, <1>2 DEF Curl, Locations, Outcomes
<1>3. CASE CheckContext(p)
  BY <1>1, <1>3 DEF CheckContext, Locations, Outcomes
<1>4. CASE Send(p)
  BY <1>1, <1>4 DEF Send, Locations, Outcomes
<1> QED
  BY <1>2, <1>3, <1>4 DEF Worker

-----------------------------------------------------------------------------
(* The types.                                                              *)

LEMMA InitHasItsTypes == Init => TypeOK
<1> SUFFICES ASSUME Init PROVE TypeOK
  OBVIOUS
<1>1. channel \in Seq(Result) /\ rawresults \in Seq(Result) /\ sent \in Seq(Result)
  BY EmptySeq DEF Init
<1>2. Len(channel) <= Capacity /\ 0 \in 0..Cardinality(Pods) /\ 0 \in 0..MaxTries
  BY ConstantsAreNumbers, EmptySeq DEF Init
<1>3. captures \subseteq Pods
  <2>1. CASE mode.dnsPolicy
    BY <2>1 DEF Init
  <2>2. CASE ~mode.dnsPolicy
    BY <2>2 DEF Init
  <2> QED
    BY <2>1, <2>2
<1>4. replicas \in {"none", "many"}
  <2>1. CASE mode.stress
    BY <2>1 DEF Init
  <2>2. CASE ~mode.stress
    BY <2>2 DEF Init
  <2> QED
    BY <2>1, <2>2
<1> QED
  BY <1>1, <1>2, <1>3, <1>4 DEF Init, TypeOK, Outcomes

\* A pod's worker is launched once, and counts from then on.
LEMMA LaunchCounts ==
  ASSUME TypeOK, Joined, NEW p \in Pods, Launch(p)
  PROVE  /\ Running' = Running \cup {p} /\ p \notin Running
         /\ wg' = Cardinality(Running') /\ wg' \in 0..Cardinality(Pods)
         /\ at' \in [Pods -> Locations] /\ at'[p] = "curl"
         /\ \A q \in Pods \ {p} : at'[q] = at[q]
<1>1. /\ at' \in [Pods -> Locations] /\ at'[p] = "curl" /\ at[p] = "unborn"
      /\ \A q \in Pods \ {p} : at'[q] = at[q]
  BY DEF Launch, TypeOK, Locations
<1>2. Running' = Running \cup {p} /\ p \notin Running
  BY <1>1 DEF Running
<1>3. Cardinality(Running') = Cardinality(Running) + 1
  BY <1>2, RunningIsFinite, FS_AddElement
<1>4. Running' \subseteq Pods
  BY DEF Running
<1>5. Cardinality(Running') <= Cardinality(Pods) /\ Cardinality(Running') \in Nat
  BY <1>4, ConstantsAreNumbers, FS_Subset, FS_CardinalityType
<1> QED
  BY <1>1, <1>2, <1>3, <1>5, ConstantsAreNumbers DEF Launch, Joined

\* The WaitGroup follows the workers that run.
LEMMA WorkerCounts ==
  ASSUME TypeOK, Joined, NEW p \in Pods, Worker(p)
  PROVE  wg' = Cardinality(Running') /\ wg' \in 0..Cardinality(Pods)
<1>1. p \in Running /\ wg = Cardinality(Running)
  BY WorkerMoves DEF Running, Joined
<1>2. CASE at'[p] = "ended"
  <2>1. Running' = Running \ {p}
    BY <1>1, <1>2, WorkerMoves DEF Running
  <2>2. Cardinality(Running') = Cardinality(Running) - 1
    BY <1>1, <2>1, RunningIsFinite, FS_RemoveElement
  <2>3. Cardinality(Running) # 0
    BY <1>1, RunningIsFinite, FS_EmptySet
  <2>4. wg' = wg - 1
    BY <1>2, WorkerMoves
  <2> QED
    BY <1>1, <2>2, <2>3, <2>4, RunningIsFinite, ConstantsAreNumbers
<1>3. CASE at'[p] # "ended"
  <2>1. Running' = Running
    BY <1>1, <1>3, WorkerMoves DEF Running
  <2>2. wg' = wg
    BY <1>3, WorkerMoves
  <2> QED
    BY <1>1, <2>1, <2>2, RunningIsFinite, ConstantsAreNumbers
<1> QED
  BY <1>2, <1>3

\* The channel has room for what is sent, and the sender's result is the last one.
LEMMA WorkerSends ==
  ASSUME TypeOK, NEW p \in Pods, Worker(p)
  PROVE  /\ channel' \in Seq(Result) /\ Len(channel') <= Capacity /\ sent' \in Seq(Result)
         /\ \/ UNCHANGED <<channel, sent>>
            \/ /\ Send(p) /\ at[p] = "send"
               /\ \E r \in Result : /\ r.outcome = outcome[p]
                                    /\ channel' = Append(channel, r) /\ sent' = Append(sent, r)
<1>1. CASE ~Send(p)
  BY <1>1 DEF Worker, Curl, CheckContext, TypeOK
<1>2. CASE Send(p)
  <2> DEFINE r == [pod |-> p, outcome |-> outcome[p]]
  <2>1. r \in Result /\ r.outcome = outcome[p]
    BY DEF TypeOK, Result
  <2>2. channel' = Append(channel, r) /\ sent' = Append(sent, r) /\ at[p] = "send"
    BY <1>2 DEF Send
  <2>3. channel \in Seq(Result) /\ sent \in Seq(Result) /\ Len(channel) < Capacity
    BY <1>2 DEF Send, TypeOK
  <2> HIDE DEF r
  <2>4. /\ channel' \in Seq(Result) /\ sent' \in Seq(Result)
        /\ Len(channel') = Len(channel) + 1
    BY <2>1, <2>2, <2>3, AppendProperties
  <2>5. Len(channel') <= Capacity
    BY <2>3, <2>4, ConstantsAreNumbers, LenProperties
  <2> QED
    BY <1>2, <2>1, <2>2, <2>4, <2>5
<1> QED
  BY <1>1, <1>2

\* All steps keep the types.
LEMMA StepKeepsTypes ==
  ASSUME TypeOK, Joined, Read, [Next]_vars
  PROVE  TypeOK'
<1>1. CASE Prepare
  BY <1>1 DEF Prepare, TypeOK, workers, received, stressing, capturing, counting
<1>2. CASE StartBackground
  BY <1>2 DEF StartBackground, TypeOK, workers, received, capturing, counting
<1>3. ASSUME NEW p \in Pods, Launch(p)
      PROVE  TypeOK'
  <2>1. at' \in [Pods -> Locations] /\ wg' \in 0..Cardinality(Pods)
    BY <1>3, LaunchCounts
  <2> QED
    BY <1>3, <2>1 DEF Launch, TypeOK, Locations, received, stressing, capturing, counting
<1>4. CASE StartCloser
  BY <1>4 DEF StartCloser, TypeOK, workers, received, stressing, capturing, counting
<1>5. CASE Receive
  <2>1. channel \in Seq(Result) /\ rawresults \in Seq(Result) /\ channel # <<>>
        /\ Len(channel) <= Capacity
    BY <1>5 DEF Receive, TypeOK
  <2>2. /\ Head(channel) \in Result /\ Tail(channel) \in Seq(Result)
        /\ Len(Tail(channel)) = Len(channel) - 1 /\ Len(channel) \in Nat
    BY <2>1, HeadTailProperties, LenProperties
  <2>3. Append(rawresults, Head(channel)) \in Seq(Result)
    BY <2>1, <2>2, AppendProperties
  <2>4. /\ channel' \in Seq(Result) /\ rawresults' \in Seq(Result) /\ Len(channel') <= Capacity
    BY <1>5, <2>1, <2>2, <2>3, ConstantsAreNumbers DEF Receive
  <2> QED
    BY <1>5, <2>4 DEF Receive, TypeOK, workers, stressing, capturing, counting
<1>6. CASE EndOfResults
  <2>1. results' \in [successful : Nat, failed : Nat]
    BY <1>6, EveryResultIsCounted DEF EndOfResults, TypeOK
  <2>2. pc' \in {"count", "done"}
    BY <1>6 DEF EndOfResults
  <2> QED
    BY <1>6, <2>1, <2>2 DEF EndOfResults, TypeOK, workers, stressing, capturing, counting
<1>7. CASE CountDuplicateSYN
  <2>1. counted \subseteq Pods /\ counted # Pods /\ tries \in 0..MaxTries /\ tries < MaxTries
    BY <1>7 DEF CountDuplicateSYN, TypeOK, Read
  <2>2. NextCapture \in Pods
    BY <2>1, NextCaptureIsMissing
  <2>3. pc' \in {"count", "done", "failed"} /\ counted' \subseteq Pods
    BY <1>7, <2>1, <2>2 DEF CountDuplicateSYN, counting
  <2>4. tries' \in {0, tries, tries + 1}
    BY <1>7 DEF CountDuplicateSYN, counting
  <2>5. tries' \in 0..MaxTries
    BY <2>1, <2>4, ConstantsAreNumbers
  <2> QED
    BY <1>7, <2>3, <2>5 DEF CountDuplicateSYN, TypeOK, workers, received, stressing, capturing
<1>8. ASSUME NEW p \in Pods, Worker(p)
      PROVE  TypeOK'
  <2>1. UNCHANGED <<pc, mode, expired, closed, received, stressing, capturing, counting>>
    BY <1>8, WorkerLeavesAlone
  <2>2. at' \in [Pods -> Locations] /\ outcome' \in [Pods -> Outcomes]
    BY <1>8, WorkerMoves
  <2>3. wg' \in 0..Cardinality(Pods)
    BY <1>8, WorkerCounts
  <2>4. channel' \in Seq(Result) /\ Len(channel') <= Capacity /\ sent' \in Seq(Result)
    BY <1>8, WorkerSends
  <2> QED
    BY <2>1, <2>2, <2>3, <2>4 DEF TypeOK, Locations, received, stressing, capturing, counting
<1>9. ASSUME NEW p \in Pods, RunTCPDump(p)
      PROVE  TypeOK'
  <2>1. captures' \subseteq Pods
    BY <1>9, BackgroundKeepsCaptures
  <2>2. tcpdump' \in [Pods -> {"unborn", "prepare", "run", "ended"}] /\ UNCHANGED stressing
    BY <1>9 DEF RunTCPDump, StartTCPDump, EndTCPDump, TypeOK
  <2> QED
    BY <1>9, <2>1, <2>2, BackgroundLeavesAlone
       DEF TypeOK, workers, received, stressing, counting
<1>10. CASE ScaleDeploymentLoop
  <2>1. /\ scaler' \in {"unborn", "check", "scale up", "sleep up", "scale down", "sleep down",
                        "ended"}
        /\ replicas' \in {"none", "many"} /\ UNCHANGED capturing
    BY <1>10 DEF ScaleDeploymentLoop, ScalerCheck, Scale, Sleep, TypeOK
  <2> QED
    BY <1>10, <2>1, BackgroundLeavesAlone DEF TypeOK, workers, received, capturing, counting
<1>11. CASE Close
  BY <1>11 DEF Close, TypeOK, workers, received, stressing, capturing, counting
<1>12. CASE Expire
  BY <1>12 DEF Expire, TypeOK, workers, received, stressing, capturing, counting
<1>13. CASE UNCHANGED vars
  BY <1>13 DEF vars, TypeOK, workers, received, stressing, capturing, counting
<1> QED
  BY <1>1, <1>2, <1>3, <1>4, <1>5, <1>6, <1>7, <1>8, <1>9, <1>10, <1>11, <1>12, <1>13
     DEF Next, Main, Rest

-----------------------------------------------------------------------------
(* The channel is closed when nobody is left to send on it.                *)

LEMMA StepKeepsJoined ==
  ASSUME TypeOK, Joined, [Next]_vars
  PROVE  Joined'
<1>1. CASE Prepare
  BY <1>1 DEF Prepare, Joined, Running, workers
<1>2. CASE StartBackground
  BY <1>2 DEF StartBackground, Joined, Running, workers
<1>3. ASSUME NEW p \in Pods, Launch(p)
      PROVE  Joined'
  <2>1. pc = "launch" /\ UNCHANGED <<pc, closed, channel>> /\ ~closed
    BY <1>3 DEF Launch, Joined
  <2>2. wg' = Cardinality(Running')
    BY <1>3, LaunchCounts
  <2> QED
    BY <2>1, <2>2 DEF Joined
<1>4. CASE StartCloser
  BY <1>4 DEF StartCloser, Joined, Running, workers
<1>5. CASE Receive
  BY <1>5 DEF Receive, Joined, Running, workers
<1>6. CASE EndOfResults
  BY <1>6 DEF EndOfResults, Joined, Running, workers
<1>7. CASE CountDuplicateSYN
  <2>1. pc = "count" /\ pc' \in {"count", "done", "failed"} /\ UNCHANGED <<workers, closed, channel>>
    BY <1>7 DEF CountDuplicateSYN
  <2> QED
    BY <2>1 DEF Joined, Running, workers
<1>8. ASSUME NEW p \in Pods, Worker(p)
      PROVE  Joined'
  <2>1. /\ at[p] \notin {"unborn", "ended"} /\ at'[p] # "unborn"
        /\ \A q \in Pods \ {p} : at'[q] = at[q]
        /\ wg' = Cardinality(Running') /\ UNCHANGED <<pc, closed>>
    BY <1>8, WorkerMoves, WorkerCounts, WorkerLeavesAlone
  <2>2. ~closed /\ pc \notin {"prepare", "background", "count", "done"}
    BY <2>1 DEF Joined
  <2> QED
    BY <2>1, <2>2 DEF Joined
<1>9. ASSUME ScaleDeploymentLoop \/ \E p \in Pods : RunTCPDump(p)
      PROVE  Joined'
  <2>1. UNCHANGED <<pc, at, wg, closed, channel>>
    BY <1>9, BackgroundLeavesAlone DEF workers
  <2> QED
    BY <2>1 DEF Joined, Running
<1>10. CASE Close
  <2>1. Running = {}
    BY <1>10, RunningIsFinite, FS_EmptySet DEF Close, Joined
  <2>2. \A p \in Pods : at[p] = "ended"
    BY <1>10, <2>1 DEF Close, Joined, Running
  <2> QED
    BY <1>10, <2>2 DEF Close, Joined, Running, workers
<1>11. CASE Expire
  BY <1>11 DEF Expire, Joined, Running, workers
<1>12. CASE UNCHANGED vars
  BY <1>12 DEF vars, Joined, Running, workers
<1> QED
  BY <1>1, <1>2, <1>3, <1>4, <1>5, <1>6, <1>7, <1>8, <1>9, <1>10, <1>11, <1>12
     DEF Next, Main, Rest

-----------------------------------------------------------------------------
(* The results.                                                            *)

LEMMA WorkerDropsCutOffs ==
  ASSUME TypeOK, NotCutOff, NEW p \in Pods, Worker(p)
  PROVE  NotCutOff'
<1>1. \A q \in Pods \ {p} : at'[q] = at[q] /\ outcome'[q] = outcome[q]
  BY WorkerMoves
<1>2. outcome'[p] = "cut off" => at'[p] = "check" /\ expired'
  <2>1. CASE Curl(p)
    BY <2>1 DEF Curl, TypeOK, worker_unchanged
  <2>2. CASE CheckContext(p)
    BY <2>2 DEF CheckContext, TypeOK, NotCutOff
  <2>3. CASE Send(p)
    BY <2>3 DEF Send, TypeOK
  <2> QED
    BY <2>1, <2>2, <2>3 DEF Worker
<1>3. \A q \in Pods : outcome'[q] = "cut off" => at'[q] = "check" /\ expired'
  <2>1. expired' = expired
    BY WorkerLeavesAlone
  <2> QED
    BY <1>1, <1>2, <2>1 DEF NotCutOff
<1>4. \A k \in DOMAIN sent' : sent'[k].outcome # "cut off"
  <2>1. CASE UNCHANGED sent
    BY <2>1 DEF NotCutOff
  <2>2. ASSUME at[p] = "send", NEW r \in Result, r.outcome = outcome[p], sent' = Append(sent, r)
        PROVE  \A k \in DOMAIN sent' : sent'[k].outcome # "cut off"
    <3>1. r.outcome # "cut off"
      BY <2>2 DEF NotCutOff
    <3>2. /\ DOMAIN sent' = 1..Len(sent) + 1 /\ Len(sent) \in Nat /\ DOMAIN sent = 1..Len(sent)
          /\ \A k \in 1..Len(sent) : sent'[k] = sent[k]
          /\ sent'[Len(sent) + 1] = r
      <4>1. sent \in Seq(Result)
        BY DEF TypeOK
      <4> QED
        BY <2>2, <4>1, AppendProperties, LenProperties
    <3>3. \A k \in 1..Len(sent) : sent[k].outcome # "cut off"
      BY <3>2 DEF NotCutOff
    <3>4. ASSUME NEW k \in DOMAIN sent'
          PROVE  sent'[k].outcome # "cut off"
      <4>1. CASE k \in 1..Len(sent)
        BY <3>2, <3>3, <4>1
      <4>2. CASE k = Len(sent) + 1
        BY <3>1, <3>2, <4>2
      <4>3. k \in 1..Len(sent) + 1
        BY <3>2
      <4>4. k \in 1..Len(sent) \/ k = Len(sent) + 1
        BY <3>2, <4>3
      <4> QED
        BY <4>1, <4>2, <4>4
    <3> QED
      BY <3>4
  <2> QED
    BY <2>1, <2>2, WorkerSends
<1> QED
  BY <1>3, <1>4 DEF NotCutOff

\* All steps keep NotCutOff.
LEMMA StepKeepsNotCutOff ==
  ASSUME TypeOK, NotCutOff, [Next]_vars
  PROVE  NotCutOff'
<1>1. ASSUME NEW p \in Pods, Launch(p)
      PROVE  NotCutOff'
  <2>1. \A q \in Pods : q # p => at'[q] = at[q]
    BY <1>1 DEF Launch, TypeOK
  <2>2. at[p] = "unborn" /\ UNCHANGED <<outcome, expired, sent>>
    BY <1>1 DEF Launch
  <2> QED
    BY <2>1, <2>2 DEF NotCutOff
<1>2. CASE UNCHANGED <<at, outcome, expired, sent>>
  BY <1>2 DEF NotCutOff
<1>3. CASE Main /\ ~(\E p \in Pods : Launch(p))
  <2>1. UNCHANGED <<at, outcome, expired, sent>>
    BY <1>3 DEF Main, Prepare, StartBackground, StartCloser, Receive, EndOfResults,
       CountDuplicateSYN, workers
  <2> QED
    BY <1>2, <2>1
<1>4. ASSUME NEW p \in Pods, Worker(p)
      PROVE  NotCutOff'
  BY <1>4, WorkerDropsCutOffs
<1>5. ASSUME ScaleDeploymentLoop \/ \E p \in Pods : RunTCPDump(p)
      PROVE  NotCutOff'
  <2>1. UNCHANGED <<at, outcome, expired, sent>>
    BY <1>5, BackgroundLeavesAlone DEF workers
  <2> QED
    BY <1>2, <2>1
<1>6. CASE Close \/ UNCHANGED vars
  <2>1. UNCHANGED <<at, outcome, expired, sent>>
    BY <1>6 DEF Close, vars, workers
  <2> QED
    BY <1>2, <2>1
<1>7. CASE Expire
  <2>1. UNCHANGED <<at, outcome, sent>> /\ expired'
    BY <1>7 DEF Expire, workers
  <2>2. \A k \in DOMAIN sent' : sent'[k].outcome # "cut off"
    BY <2>1 DEF NotCutOff
  <2> QED
    BY <2>1, <2>2 DEF NotCutOff
<1> QED
  BY <1>1, <1>3, <1>4, <1>5, <1>6, <1>7 DEF Next, Rest

\* All steps keep InOrder.
LEMMA StepKeepsInOrder ==
  ASSUME TypeOK, Joined, InOrder, [Next]_vars
  PROVE  InOrder'
<1>1. CASE Receive
  <2>1. /\ channel \in Seq(Result) /\ channel # <<>> /\ rawresults \in Seq(Result)
        /\ rawresults' = Append(rawresults, Head(channel)) /\ channel' = Tail(channel)
        /\ UNCHANGED <<pc, sent>> /\ pc = "receive"
    BY <1>1 DEF Receive, TypeOK, workers
  <2>2. Append(rawresults, Head(channel)) \o Tail(channel) = rawresults \o channel
    BY <2>1
  <2> QED
    BY <2>1, <2>2 DEF InOrder
<1>2. CASE EndOfResults
  <2>1. /\ results' = ProcessResults(rawresults) /\ channel = <<>> /\ rawresults \in Seq(Result)
        /\ UNCHANGED <<rawresults, channel, sent>>
    BY <1>2 DEF EndOfResults, TypeOK, workers
  <2>2. rawresults = sent
    BY <2>1, ConcatEmptySeq DEF InOrder
  <2> QED
    BY <2>1, <2>2, EveryResultIsCounted DEF InOrder
<1>3. ASSUME NEW p \in Pods, Worker(p)
      PROVE  InOrder'
  <2>1. /\ UNCHANGED <<pc, rawresults, results>> /\ pc \notin {"count", "done"}
    BY <1>3, WorkerMoves, WorkerLeavesAlone DEF Joined, received
  <2>2. rawresults \o channel' = sent'
    <3>1. CASE UNCHANGED <<channel, sent>>
      BY <3>1 DEF InOrder
    <3>2. ASSUME NEW r \in Result, channel' = Append(channel, r), sent' = Append(sent, r)
          PROVE  rawresults \o channel' = sent'
      <4>1. rawresults \in Seq(Result) /\ channel \in Seq(Result)
        BY DEF TypeOK
      <4>2. rawresults \o Append(channel, r) = Append(rawresults \o channel, r)
        BY <4>1
      <4> QED
        BY <3>2, <4>2 DEF InOrder
    <3> QED
      BY <1>3, <3>1, <3>2, WorkerSends
  <2> QED
    BY <2>1, <2>2 DEF InOrder
<1>4. ASSUME NEW p \in Pods, Launch(p)
      PROVE  InOrder'
  BY <1>4 DEF Launch, InOrder, received
<1>5. CASE Prepare \/ StartBackground \/ StartCloser
  BY <1>5 DEF Prepare, StartBackground, StartCloser, InOrder, workers, received
<1>6. CASE CountDuplicateSYN
  <2>1. pc = "count" /\ UNCHANGED <<sent, channel, rawresults, results>>
    BY <1>6 DEF CountDuplicateSYN, workers, received
  <2> QED
    BY <2>1 DEF InOrder
<1>7. ASSUME ScaleDeploymentLoop \/ \E p \in Pods : RunTCPDump(p)
      PROVE  InOrder'
  BY <1>7, BackgroundLeavesAlone DEF InOrder, workers, received
<1>8. CASE Close \/ Expire \/ UNCHANGED vars
  BY <1>8 DEF Close, Expire, vars, InOrder, workers, received
<1> QED
  BY <1>1, <1>2, <1>3, <1>4, <1>5, <1>6, <1>7, <1>8 DEF Next, Main, Rest

-----------------------------------------------------------------------------
(* The captures.                                                           *)

LEMMA StepKeepsRead ==
  ASSUME TypeOK, Read, [Next]_vars
  PROVE  Read'
<1>1. CASE CountDuplicateSYN
  <2>0. tries \in 0..MaxTries /\ pc = "count" /\ UNCHANGED <<captures, mode>>
    BY <1>1 DEF CountDuplicateSYN, TypeOK, capturing
  <2>1. /\ tries \in Nat /\ tries < MaxTries /\ counted # Pods /\ counted \subseteq captures
        /\ UNCHANGED <<captures, mode>>
    BY <2>0, ConstantsAreNumbers DEF Read
  <2>2. \/ /\ NextCapture \in captures /\ counted' = counted \cup {NextCapture} /\ tries' = 0
           /\ pc' = IF counted' = Pods THEN "done" ELSE "count"
        \/ pc' = "failed" /\ UNCHANGED <<counted, tries>>
        \/ /\ tries' = tries + 1 /\ counted' = counted
           /\ pc' = IF tries' = MaxTries THEN "failed" ELSE "count"
    BY <1>1 DEF CountDuplicateSYN, counting
  <2>3. counted' \subseteq captures'
    BY <2>1, <2>2
  <2>4. pc' = "count" => counted' # Pods /\ tries' < MaxTries
    BY <2>1, <2>2, ConstantsAreNumbers
  <2>5. pc' = "done" => counted' = Pods
    BY <2>2
  <2>6. pc' \in {"count", "done", "failed"}
    BY <2>2
  <2> QED
    BY <2>3, <2>4, <2>5, <2>6 DEF Read
<1>2. CASE EndOfResults
  <2>1. /\ counted = {} /\ tries = 0 /\ UNCHANGED <<counted, tries, captures, mode>>
        /\ pc' = IF mode.dnsPolicy THEN "count" ELSE "done"
    BY <1>2 DEF EndOfResults, Read, counting, capturing
  <2>2. counted' # Pods /\ tries' < MaxTries
    BY <2>1, ConstantsAreNumbers
  <2> QED
    BY <2>1, <2>2 DEF Read
<1>3. CASE Prepare \/ StartBackground \/ StartCloser \/ Receive
  <2>1. /\ pc \in {"prepare", "background", "launch", "receive"}
        /\ pc' \in {"background", "launch", "receive", "failed"}
        /\ UNCHANGED <<counted, tries, captures, mode>>
    BY <1>3 DEF Prepare, StartBackground, StartCloser, Receive, counting, capturing
  <2> QED
    BY <2>1 DEF Read
<1>4. ASSUME NEW p \in Pods, Launch(p)
      PROVE  Read'
  BY <1>4 DEF Launch, Read, capturing, counting
<1>5. ASSUME NEW p \in Pods, Worker(p)
      PROVE  Read'
  BY <1>5, WorkerLeavesAlone DEF Read, capturing, counting
<1>6. ASSUME ScaleDeploymentLoop \/ \E p \in Pods : RunTCPDump(p)
      PROVE  Read'
  BY <1>6, BackgroundLeavesAlone, BackgroundKeepsCaptures DEF Read, counting
<1>7. CASE Close \/ Expire \/ UNCHANGED vars
  BY <1>7 DEF Close, Expire, vars, Read, capturing, counting
<1> QED
  BY <1>1, <1>2, <1>3, <1>4, <1>5, <1>6, <1>7 DEF Next, Main, Rest

-----------------------------------------------------------------------------
(* The invariant and what follows from it.                                 *)

LEMMA InitHolds == Init => DNSPerfInv
<1> SUFFICES ASSUME Init PROVE DNSPerfInv
  OBVIOUS
<1>1. Joined
  <2>1. Running = {}
    BY DEF Init, Running
  <2> QED
    BY <2>1, FS_EmptySet DEF Init, Joined
<1>2. NotCutOff /\ InOrder
  <2>1. DOMAIN <<>> = {} /\ <<>> \o <<>> = <<>>
    OBVIOUS
  <2> QED
    BY <2>1 DEF Init, NotCutOff, InOrder
<1>3. Read
  BY DEF Init, Read
<1> QED
  BY <1>1, <1>2, <1>3, InitHasItsTypes DEF DNSPerfInv

\* The invariant is inductive.
LEMMA StepHolds == DNSPerfInv /\ [Next]_vars => DNSPerfInv'
BY StepKeepsTypes, StepKeepsJoined, StepKeepsNotCutOff, StepKeepsInOrder, StepKeepsRead
   DEF DNSPerfInv

\* The invariant holds.
LEMMA DNSPerfInvHolds == Spec => []DNSPerfInv
BY InitHolds, StepHolds, PTL DEF Spec

\* Every variable keeps its type: the WaitGroup never counts below zero or beyond the pods,
\* the channel holds no more than its capacity, and a capture is read with bounded attempts.
THEOREM DNSPerfTypeCorrect == Spec => []TypeOK
<1>1. DNSPerfInv => TypeOK
  BY DEF DNSPerfInv
<1> QED
  BY <1>1, DNSPerfInvHolds, PTL

\* No worker is left to send on the closed channel, every result sent is on its way or
\* received, once and in order, the summary counts them all, and none was cut off.
THEOREM NoResultIsLost == Spec => []EveryResultArrives
<1>1. DNSPerfInv => EveryResultArrives
  <2> SUFFICES ASSUME DNSPerfInv PROVE EveryResultArrives
    OBVIOUS
  <2>1. TypeOK /\ Joined /\ NotCutOff /\ InOrder
    BY DEF DNSPerfInv
  <2>2. \A k \in DOMAIN rawresults : k \in DOMAIN sent /\ sent[k] = rawresults[k]
    <3>1. rawresults \in Seq(Result) /\ channel \in Seq(Result) /\ sent = rawresults \o channel
      BY <2>1 DEF TypeOK, InOrder
    <3>2. /\ Len(sent) = Len(rawresults) + Len(channel) /\ sent \in Seq(Result)
          /\ \A k \in 1..Len(rawresults) : sent[k] = rawresults[k]
      BY <3>1, ConcatProperties, LenProperties
    <3> QED
      BY <3>1, <3>2, LenProperties
  <2>3. \A k \in DOMAIN rawresults : rawresults[k].outcome # "cut off"
    BY <2>1, <2>2 DEF NotCutOff
  <2> QED
    BY <2>1, <2>3 DEF EveryResultArrives, Joined, InOrder
<1> QED
  BY <1>1, DNSPerfInvHolds, PTL

\* A test of DNS policy succeeds only with a capture read from every node.
THEOREM EveryCaptureIsRead == Spec => []CapturesAreComplete
<1>1. DNSPerfInv => CapturesAreComplete
  BY DEF DNSPerfInv, TypeOK, Read, CapturesAreComplete
<1> QED
  BY <1>1, DNSPerfInvHolds, PTL

-----------------------------------------------------------------------------
(* The capture: what a line adds to what is known of the lines before.     *)

\* A line that follows does not change what the earlier ones are.
LEMMA EarlierLinesStay ==
  ASSUME NEW ls \in Seq(Lines), NEW line \in Lines
  PROVE  /\ Append(ls, line) \in Seq(Lines) /\ Len(Append(ls, line)) = Len(ls) + 1
         /\ \A i \in 1..Len(ls) : Append(ls, line)[i] = ls[i]
         /\ Append(ls, line)[Len(ls) + 1] = line
         /\ Len(ls) \in Nat
BY AppendProperties, LenProperties

\* Nor which of them are segments of a connection.
LEMMA EarlierSegmentsStay ==
  ASSUME NEW ls \in Seq(Lines), NEW line \in Lines, NEW n \in 0..Len(ls), NEW flags, NEW c
  PROVE  /\ SentBefore(Append(ls, line), n, flags, c) = SentBefore(ls, n, flags, c)
         /\ SentBefore(ls, n, flags, c) \subseteq 1..n
<1>1. \A j \in 1..n : j \in 1..Len(ls) /\ Append(ls, line)[j] = ls[j]
  BY EarlierLinesStay
<1> QED
  BY <1>1 DEF SentBefore

\* The line is the last segment of its connection with its flags, and of no other.
LEMMA LineIsTheLastSegment ==
  ASSUME NEW ls \in Seq(Lines), NEW line \in Lines, NEW flags, NEW c
  PROVE  /\ line.flags = flags /\ line.connection = c =>
              SentBefore(Append(ls, line), Len(ls) + 1, flags, c) =
                SentBefore(ls, Len(ls), flags, c) \cup {Len(ls) + 1}
         /\ ~(line.flags = flags /\ line.connection = c) =>
              SentBefore(Append(ls, line), Len(ls) + 1, flags, c) =
                SentBefore(ls, Len(ls), flags, c)
<1> DEFINE ext == Append(ls, line)
           n == Len(ls)
<1>1. n \in Nat /\ ext[n + 1] = line
  BY EarlierLinesStay
<1>2. SentBefore(ext, n, flags, c) = SentBefore(ls, n, flags, c)
  BY <1>1, EarlierSegmentsStay
<1> HIDE DEF ext, n
<1>3. 1..(n + 1) = (1..n) \cup {n + 1}
  BY <1>1
<1>4. SentBefore(ext, n + 1, flags, c) =
        SentBefore(ext, n, flags, c)
          \cup {j \in {n + 1} : ext[j].flags = flags /\ ext[j].connection = c}
  BY <1>3 DEF SentBefore
<1>5. {j \in {n + 1} : ext[j].flags = flags /\ ext[j].connection = c} =
        IF line.flags = flags /\ line.connection = c THEN {n + 1} ELSE {}
  BY <1>1
<1> QED
  BY <1>2, <1>4, <1>5 DEF ext, n

\* A sequence number that was sent last is one, and there is only one that was.
LEMMA LastSeqIsOne ==
  ASSUME NEW ls \in Seq(Lines), NEW n \in 0..Len(ls), NEW flags, NEW c, NEW s, NEW t,
         LastHasSeq(ls, SentBefore(ls, n, flags, c), s)
  PROVE  /\ s \in Seqs
         /\ LastHasSeq(ls, SentBefore(ls, n, flags, c), t) <=> s = t
<1> DEFINE segments == SentBefore(ls, n, flags, c)
<1>1. segments \subseteq 1..Len(ls) /\ segments \subseteq Int
  BY LenProperties DEF SentBefore
<1> HIDE DEF segments
<1>2. \A i, j \in segments : (\A h \in segments : h <= i) /\ (\A h \in segments : h <= j) => i = j
  BY <1>1
<1>3. PICK j \in segments : ls[j].seq = s /\ \A h \in segments : h <= j
  BY DEF LastHasSeq, segments
<1>4. ls[j] \in Lines
  BY <1>1, <1>3, ElementOfSeq
<1>5. s \in Seqs
  BY <1>3, <1>4 DEF Lines
<1>6. LastHasSeq(ls, segments, t) <=> s = t
  BY <1>2, <1>3 DEF LastHasSeq
<1> QED
  BY <1>5, <1>6 DEF segments

\* A segment repeats the one before it exactly if the map has its sequence number.
LEMMA MapTellsRepetitions ==
  ASSUME NEW ls \in Seq(Lines), NEW line \in Lines, NEW map, Remembers(ls, map, line.flags)
  PROVE  LastHasSeq(ls, SentBefore(ls, Len(ls), line.flags, line.connection), line.seq)
           <=> Again(map, line) = 1
<1> DEFINE c == line.connection
           segments == SentBefore(ls, Len(ls), line.flags, c)
<1>1. c \in Connections /\ line.seq \in Seqs /\ line.seq # None
  BY CaptureAssumption DEF Lines, None
<1>2. Again(map, line) = 1 <=> map[c] = line.seq
  BY DEF Again, connectionKey
<1>3. IF segments = {} THEN map[c] = None ELSE LastHasSeq(ls, segments, map[c])
  BY <1>1 DEF Remembers
<1>4. Len(ls) \in 0..Len(ls)
  BY LenProperties
<1>5. CASE segments = {}
  BY <1>1, <1>2, <1>3, <1>5 DEF LastHasSeq
<1>6. CASE segments # {}
  <2>1. LastHasSeq(ls, segments, map[c])
    BY <1>3, <1>6
  <2>2. LastHasSeq(ls, segments, line.seq) <=> map[c] = line.seq
    BY <2>1, <1>4, LastSeqIsOne
  <2> QED
    BY <2>2, <1>2
<1> QED
  BY <1>5, <1>6

\* The repetitions with the line's flags grow by the line if the map has its sequence number,
\* those with others do not grow.
LEMMA LineRepeatsAtMostOne ==
  ASSUME NEW ls \in Seq(Lines), NEW line \in Lines, NEW map, NEW flags,
         Remembers(ls, map, flags)
  PROVE  Repetitions(Append(ls, line), flags) =
           IF line.flags = flags /\ Again(map, line) = 1
           THEN Repetitions(ls, flags) \cup {Len(ls) + 1}
           ELSE Repetitions(ls, flags)
<1> DEFINE ext == Append(ls, line)
           n == Len(ls)
           Repeats(l, i) ==
             /\ l[i].flags = flags
             /\ LastHasSeq(l, SentBefore(l, i - 1, flags, l[i].connection), l[i].seq)
<1>1. n \in Nat /\ Len(ext) = n + 1 /\ ext[n + 1] = line
  BY EarlierLinesStay
<1>2. ASSUME NEW m \in 0..n, NEW c, NEW s
      PROVE  LastHasSeq(ext, SentBefore(ext, m, flags, c), s)
               <=> LastHasSeq(ls, SentBefore(ls, m, flags, c), s)
  <2>1. SentBefore(ext, m, flags, c) = SentBefore(ls, m, flags, c)
    BY EarlierSegmentsStay
  <2>2. SentBefore(ls, m, flags, c) \subseteq 1..n
    BY <1>1, EarlierSegmentsStay
  <2>3. \A j \in SentBefore(ls, m, flags, c) : ext[j] = ls[j]
    BY <2>2, EarlierLinesStay
  <2> QED
    BY <2>1, <2>3 DEF LastHasSeq
<1>3. ASSUME NEW i \in 1..n
      PROVE  Repeats(ext, i) <=> Repeats(ls, i)
  <2>1. i - 1 \in 0..n
    BY <1>1
  <2>2. ext[i] = ls[i]
    BY EarlierLinesStay
  <2> QED
    BY <1>2, <2>1, <2>2
<1>4. Repeats(ext, n + 1) <=> line.flags = flags /\ Again(map, line) = 1
  <2>1. CASE line.flags # flags
    BY <1>1, <2>1
  <2>2. CASE line.flags = flags
    <3>1. (n + 1) - 1 = n /\ n \in 0..n
      BY <1>1
    <3>2. LastHasSeq(ls, SentBefore(ls, n, flags, line.connection), line.seq)
            <=> Again(map, line) = 1
      BY <2>2, MapTellsRepetitions
    <3> QED
      BY <1>1, <1>2, <2>2, <3>1, <3>2
  <2> QED
    BY <2>1, <2>2
<1>5. Repetitions(ext, flags) = {i \in 1..(n + 1) : Repeats(ext, i)}
  BY <1>1 DEF Repetitions
<1>6. Repetitions(ls, flags) = {i \in 1..n : Repeats(ls, i)}
  BY DEF Repetitions
<1> HIDE DEF Repeats, ext, n
<1>7. 1..(n + 1) = (1..n) \cup {n + 1}
  BY <1>1
<1> QED
  BY <1>3, <1>4, <1>5, <1>6, <1>7 DEF ext, n

\* Repetitions can be counted, and none of them lies ahead.
LEMMA RepetitionsAreLines ==
  ASSUME NEW ls \in Seq(Lines), NEW flags
  PROVE  /\ IsFiniteSet(Repetitions(ls, flags)) /\ Cardinality(Repetitions(ls, flags)) \in Nat
         /\ Len(ls) + 1 \notin Repetitions(ls, flags)
<1>1. Len(ls) \in Nat
  BY LenProperties
<1>2. Repetitions(ls, flags) \subseteq 1..Len(ls)
  BY DEF Repetitions
<1>3. IsFiniteSet(1..Len(ls))
  BY <1>1, FS_Interval
<1>4. IsFiniteSet(Repetitions(ls, flags))
  BY <1>2, <1>3, FS_Subset
<1>5. Len(ls) + 1 \notin 1..Len(ls)
  BY <1>1
<1> QED
  BY <1>2, <1>4, <1>5, FS_CardinalityType

\* The counter of the line's flags moves with the repetitions, and its map with the lines.
LEMMA SegmentIsCounted ==
  ASSUME NEW ls \in Seq(Lines), NEW line \in Lines, NEW map, Remembers(ls, map, line.flags)
  PROVE  /\ Cardinality(Repetitions(Append(ls, line), line.flags)) =
              Cardinality(Repetitions(ls, line.flags)) + Again(map, line)
         /\ Remembers(Append(ls, line), [map EXCEPT ![connectionKey(line)] = line.seq],
                      line.flags)
<1> DEFINE flags == line.flags
           c == line.connection
           ext == Append(ls, line)
           n == Len(ls)
           new == [map EXCEPT ![c] = line.seq]
<1>1. /\ n \in Nat /\ Len(ext) = n + 1 /\ ext[n + 1] = line
      /\ \A i \in 1..n : ext[i] = ls[i]
  BY EarlierLinesStay
<1>2. c \in Connections /\ line.seq \in Seqs /\ connectionKey(line) = c
  BY DEF Lines, connectionKey
<1>3. map \in [Connections -> Seqs \cup {None}]
  BY DEF Remembers
<1>4. Cardinality(Repetitions(ext, flags)) = Cardinality(Repetitions(ls, flags)) + Again(map, line)
  <2>1. /\ IsFiniteSet(Repetitions(ls, flags)) /\ Cardinality(Repetitions(ls, flags)) \in Nat
        /\ n + 1 \notin Repetitions(ls, flags)
    BY RepetitionsAreLines
  <2>2. CASE Again(map, line) = 1
    BY <2>1, <2>2, LineRepeatsAtMostOne, FS_AddElement
  <2>3. CASE Again(map, line) = 0
    BY <2>1, <2>3, LineRepeatsAtMostOne
  <2> QED
    BY <2>2, <2>3 DEF Again
<1>5. new \in [Connections -> Seqs \cup {None}]
  BY <1>2, <1>3
<1>6. ASSUME NEW d \in Connections
      PROVE  LET segments == SentBefore(ext, n + 1, flags, d)
             IN IF segments = {} THEN new[d] = None ELSE LastHasSeq(ext, segments, new[d])
  <2> DEFINE before == SentBefore(ls, n, flags, d)
             segments == SentBefore(ext, n + 1, flags, d)
  <2>1. before \subseteq 1..n
    BY DEF SentBefore
  <2>2. CASE d = c
    <3>1. new[d] = line.seq
      BY <1>3, <2>2
    <3>2. segments = before \cup {n + 1}
      <4>1. line.flags = flags /\ line.connection = d
        BY <2>2
      <4> HIDE DEF flags, c
      <4> QED
        BY <4>1, LineIsTheLastSegment
    <3>3. \A h \in before \cup {n + 1} : h <= n + 1
      BY <1>1, <2>1
    <3> HIDE DEF segments, before, new, ext, n
    <3>4. LastHasSeq(ext, segments, new[d])
      BY <1>1, <3>2, <3>3, <3>1 DEF LastHasSeq
    <3> QED
      BY <3>2, <3>4 DEF segments, ext, n, new
  <2>3. CASE d # c
    <3>1. segments = before /\ new[d] = map[d]
      BY <1>3, <2>3, LineIsTheLastSegment
    <3>2. IF before = {} THEN map[d] = None ELSE LastHasSeq(ls, before, map[d])
      BY DEF Remembers
    <3>3. \A j \in before : ext[j] = ls[j]
      BY <1>1, <2>1
    <3> HIDE DEF segments, before, new, ext, n
    <3>4. LastHasSeq(ext, before, map[d]) <=> LastHasSeq(ls, before, map[d])
      BY <3>3 DEF LastHasSeq
    <3> QED
      BY <3>1, <3>2, <3>4 DEF segments, ext, n, new
  <2> QED
    BY <2>2, <2>3
<1> QED
  BY <1>1, <1>2, <1>4, <1>5, <1>6 DEF Remembers

\* What is known of segments with some flags stays true of a line with others.
LEMMA OtherLineIsNotCounted ==
  ASSUME NEW ls \in Seq(Lines), NEW line \in Lines, NEW map, NEW flags,
         line.flags # flags, Remembers(ls, map, flags)
  PROVE  /\ Repetitions(Append(ls, line), flags) = Repetitions(ls, flags)
         /\ Remembers(Append(ls, line), map, flags)
<1> DEFINE ext == Append(ls, line)
           n == Len(ls)
<1>1. /\ n \in Nat /\ Len(ext) = n + 1
      /\ \A i \in 1..n : ext[i] = ls[i]
  BY EarlierLinesStay
<1>2. Repetitions(ext, flags) = Repetitions(ls, flags)
  BY LineRepeatsAtMostOne
<1>3. ASSUME NEW d \in Connections
      PROVE  LET segments == SentBefore(ext, n + 1, flags, d)
             IN IF segments = {} THEN map[d] = None ELSE LastHasSeq(ext, segments, map[d])
  <2> DEFINE before == SentBefore(ls, n, flags, d)
  <2>1. SentBefore(ext, n + 1, flags, d) = before
    BY LineIsTheLastSegment
  <2>2. \A j \in before : ext[j] = ls[j]
    BY <1>1 DEF SentBefore
  <2>3. IF before = {} THEN map[d] = None ELSE LastHasSeq(ls, before, map[d])
    BY DEF Remembers
  <2> HIDE DEF before, ext, n
  <2>4. LastHasSeq(ext, before, map[d]) <=> LastHasSeq(ls, before, map[d])
    BY <2>2 DEF LastHasSeq
  <2> QED
    BY <2>1, <2>3, <2>4
<1> QED
  BY <1>1, <1>2, <1>3 DEF Remembers

LEMMA CaptureStarts == CaptureInit => CaptureInv
<1> SUFFICES ASSUME CaptureInit PROVE CaptureInv
  OBVIOUS
<1>1. lines \in Seq(Lines) /\ Len(lines) = 0 /\ 1..0 = {}
  BY EmptySeq DEF CaptureInit
<1>2. ASSUME NEW flags PROVE Repetitions(lines, flags) = {}
  BY <1>1 DEF Repetitions
<1>3. ASSUME NEW flags, NEW map, map = [c \in Connections |-> None]
      PROVE  Remembers(lines, map, flags)
  <2>1. \A c \in Connections : SentBefore(lines, Len(lines), flags, c) = {}
    BY <1>1 DEF SentBefore
  <2> QED
    BY <1>3, <2>1 DEF Remembers
<1>4. RetransmissionsAreCounted
  BY <1>2, FS_EmptySet DEF RetransmissionsAreCounted, CaptureInit
<1> QED
  BY <1>1, <1>3, <1>4 DEF CaptureInv, CaptureInit

LEMMA ScanKeepsCaptureInv == CaptureInv /\ [Scan]_capture => CaptureInv'
<1> SUFFICES ASSUME CaptureInv, [Scan]_capture PROVE CaptureInv'
  OBVIOUS
<1> USE DEF CaptureInv, RetransmissionsAreCounted
<1>1. CASE Scan
  <2>1. PICK line \in Lines : /\ SYN(line) \/ SYNACK(line) \/ Skip(line)
                              /\ lines' = Append(lines, line)
    BY <1>1 DEF Scan
  <2>2. lines' \in Seq(Lines)
    BY <2>1, EarlierLinesStay
  <2>3. CASE SYN(line)
    <3>1. /\ Remembers(lines', synSeqMap', "SYN")
          /\ duplicateSYN' = Cardinality(Repetitions(lines', "SYN"))
      BY <2>1, <2>3, SegmentIsCounted DEF SYN
    <3>2. /\ Remembers(lines', synackSeqMap', "SYN-ACK")
          /\ duplicateSYNACK' = Cardinality(Repetitions(lines', "SYN-ACK"))
      BY <2>1, <2>3, OtherLineIsNotCounted DEF SYN
    <3> QED
      BY <2>2, <3>1, <3>2
  <2>4. CASE SYNACK(line)
    <3>1. /\ Remembers(lines', synackSeqMap', "SYN-ACK")
          /\ duplicateSYNACK' = Cardinality(Repetitions(lines', "SYN-ACK"))
      BY <2>1, <2>4, SegmentIsCounted DEF SYNACK
    <3>2. /\ Remembers(lines', synSeqMap', "SYN")
          /\ duplicateSYN' = Cardinality(Repetitions(lines', "SYN"))
      BY <2>1, <2>4, OtherLineIsNotCounted DEF SYNACK
    <3> QED
      BY <2>2, <3>1, <3>2
  <2>5. CASE Skip(line)
    <3>1. line.flags # "SYN" /\ line.flags # "SYN-ACK"
      BY <2>5 DEF Skip
    <3>2. /\ Remembers(lines', synSeqMap', "SYN")
          /\ duplicateSYN' = Cardinality(Repetitions(lines', "SYN"))
      BY <2>1, <2>5, <3>1, OtherLineIsNotCounted DEF Skip
    <3>3. /\ Remembers(lines', synackSeqMap', "SYN-ACK")
          /\ duplicateSYNACK' = Cardinality(Repetitions(lines', "SYN-ACK"))
      BY <2>1, <2>5, <3>1, OtherLineIsNotCounted DEF Skip
    <3> QED
      BY <2>2, <3>2, <3>3
  <2> QED
    BY <2>1, <2>3, <2>4, <2>5
<1>2. CASE UNCHANGED capture
  BY <1>2 DEF capture
<1> QED
  BY <1>1, <1>2

\* Whatever traffic is captured: each repetition of a connection's last SYN or SYN-ACK is
\* counted once, and nothing else is (processTCPDumpOutput).
THEOREM EveryRetransmissionIsCounted == CaptureSpec => []RetransmissionsAreCounted
<1>1. CaptureInv => RetransmissionsAreCounted
  BY DEF CaptureInv
<1> QED
  BY <1>1, CaptureStarts, ScanKeepsCaptureInv, PTL DEF CaptureSpec

-----------------------------------------------------------------------------
(* The percentiles.                                                        *)

\* A nonempty set of natural numbers has a least element.
LEMMA LeastNumber ==
  ASSUME NEW S, S \subseteq Nat, S # {}
  PROVE  \E x \in S : \A y \in S : x <= y
<1>1. PICK x \in S : \A y \in S : ~(<<y, x>> \in OpToRel(<, Nat))
  BY WFMin, NatLessThanWellFounded
<1>2. \A y \in S : ~(y < x)
  BY <1>1 DEF OpToRel
<1> QED
  BY <1>2

LEMMA NumbersUpTo ==
  ASSUME NEW n \in Nat
  PROVE  IsFiniteSet(1..n) /\ Cardinality(1..n) = n
BY FS_Interval

\* The counts of a slice are numbers, grow with the value, and all of the slice is counted.
LEMMA CountsOfASlice ==
  ASSUME NEW r \in Seq(Int)
  PROVE  /\ Len(r) \in Nat /\ Range(r) = {r[j] : j \in 1..Len(r)} /\ Range(r) \subseteq Int
         /\ \A v \in Int : Below(r, v) \in Nat /\ UpTo(r, v) \in 0..Len(r)
         /\ \A v, w \in Int : v <= w => UpTo(r, v) <= UpTo(r, w)
         /\ \A v, w \in Int : v < w => UpTo(r, v) <= Below(r, w)
         /\ \A v \in Int, w \in Range(r) : v < w => UpTo(r, v) < UpTo(r, w)
<1> DEFINE D == 1..Len(r)
           B(v) == {j \in D : r[j] < v}
           U(v) == {j \in D : r[j] <= v}
<1>1. Len(r) \in Nat /\ DOMAIN r = D /\ \A j \in D : r[j] \in Int
  BY LenProperties, ElementOfSeq
<1>2. Range(r) = {r[j] : j \in D} /\ Range(r) \subseteq Int
  BY <1>1 DEF Range
<1>3. \A v : Below(r, v) = Cardinality(B(v)) /\ UpTo(r, v) = Cardinality(U(v))
  BY DEF Below, UpTo
<1>4. IsFiniteSet(D) /\ Cardinality(D) = Len(r)
  BY <1>1, NumbersUpTo
<1>5. \A v : B(v) \subseteq D /\ U(v) \subseteq D
  OBVIOUS
<1>6. \A v, w \in Int : v <= w => U(v) \subseteq U(w)
  BY <1>1
<1>7. \A v, w \in Int : v < w => U(v) \subseteq B(w)
  BY <1>1
<1>8. \A v \in Int, w \in Range(r) : v < w => U(v) # U(w)
  BY <1>1, <1>2
<1> HIDE DEF D, B, U
<1>9. \A v : /\ IsFiniteSet(B(v)) /\ Cardinality(B(v)) \in Nat
             /\ IsFiniteSet(U(v)) /\ Cardinality(U(v)) \in Nat
             /\ Cardinality(U(v)) <= Cardinality(D)
  BY <1>4, <1>5, FS_Subset, FS_CardinalityType
<1>10. \A v \in Int : Below(r, v) \in Nat /\ UpTo(r, v) \in 0..Len(r)
  BY <1>1, <1>3, <1>4, <1>9
<1>11. ASSUME NEW v \in Int, NEW w \in Int, v <= w
       PROVE  UpTo(r, v) <= UpTo(r, w)
  <2>1. U(v) \subseteq U(w)
    BY <1>6, <1>11
  <2> QED
    BY <2>1, <1>3, <1>9, FS_Subset
<1>12. ASSUME NEW v \in Int, NEW w \in Int, v < w
       PROVE  UpTo(r, v) <= Below(r, w)
  <2>1. U(v) \subseteq B(w)
    BY <1>7, <1>12
  <2> QED
    BY <2>1, <1>3, <1>9, FS_Subset
<1>13. ASSUME NEW v \in Int, NEW w \in Range(r), v < w
       PROVE  UpTo(r, v) < UpTo(r, w)
  <2>1. w \in Int
    BY <1>2
  <2>2. U(v) \subseteq U(w)
    BY <2>1, <1>6, <1>13
  <2>3. U(v) # U(w)
    BY <1>8, <1>13
  <2>4. Cardinality(U(v)) <= Cardinality(U(w)) /\ Cardinality(U(v)) # Cardinality(U(w))
    BY <2>2, <2>3, <1>9, FS_Subset
  <2> QED
    BY <2>4, <1>3, <1>9
<1> QED
  BY <1>1, <1>2, <1>10, <1>11, <1>12, <1>13 DEF D

\* Among the numbers of a slice that satisfy a condition there is a least and a greatest.
LEMMA ExtremesOfASlice ==
  ASSUME NEW r \in Seq(Int), NEW W, W \subseteq Range(r), W # {}
  PROVE  /\ \E v \in W : \A w \in W : v <= w
         /\ \E v \in W : \A w \in W : w <= v
<1>1. /\ Range(r) \subseteq Int /\ Len(r) \in Nat
      /\ \A v \in Int : UpTo(r, v) \in 0..Len(r)
      /\ \A v \in Int, w \in Range(r) : v < w => UpTo(r, v) < UpTo(r, w)
  BY CountsOfASlice
<1> DEFINE Counts == {UpTo(r, v) : v \in W}
           Rests == {Len(r) - UpTo(r, v) : v \in W}
<1>2. \A v \in W : UpTo(r, v) \in Nat /\ Len(r) - UpTo(r, v) \in Nat
  <2> TAKE v \in W
  <2>1. UpTo(r, v) \in 0..Len(r)
    BY <1>1
  <2>2. Len(r) \in Nat
    BY <1>1
  <2> QED
    BY <2>1, <2>2
<1>3. \E v \in W : \A w \in W : v <= w
  <2>1. PICK x \in Counts : \A y \in Counts : x <= y
    <3>1. Counts \subseteq Nat /\ Counts # {}
      BY <1>2
    <3> QED
      BY <3>1, LeastNumber
  <2>2. PICK v \in W : x = UpTo(r, v)
    BY <2>1
  <2>3. \A w \in W : ~(w < v)
    <3> TAKE w \in W
    <3>1. UpTo(r, v) <= UpTo(r, w)
      BY <2>1, <2>2
    <3>2. UpTo(r, v) \in Nat /\ UpTo(r, w) \in Nat
      BY <1>2
    <3>3. ~(UpTo(r, w) < UpTo(r, v))
      BY <3>1, <3>2
    <3> QED
      BY <1>1, <3>3
  <2>4. \A w \in W : v <= w
    BY <1>1, <2>3
  <2> QED
    BY <2>4
<1>4. \E v \in W : \A w \in W : w <= v
  <2>1. PICK x \in Rests : \A y \in Rests : x <= y
    <3>1. Rests \subseteq Nat /\ Rests # {}
      BY <1>2
    <3> QED
      BY <3>1, LeastNumber
  <2>2. PICK v \in W : x = Len(r) - UpTo(r, v)
    BY <2>1
  <2>3. \A w \in W : ~(v < w)
    <3> TAKE w \in W
    <3>1. Len(r) - UpTo(r, v) <= Len(r) - UpTo(r, w)
      BY <2>1, <2>2
    <3>2. UpTo(r, v) \in Int /\ UpTo(r, w) \in Int
      BY <1>1
    <3>3. ~(UpTo(r, v) < UpTo(r, w))
      BY <1>1, <3>1, <3>2
    <3> QED
      BY <1>1, <3>3
  <2>4. \A w \in W : w <= v
    BY <1>1, <2>3
  <2> QED
    BY <2>4
<1> QED
  BY <1>3, <1>4

\* The numbers of a slice that at least i do not exceed.
Candidates(r, i) == {v \in Range(r) : UpTo(r, v) >= i}

\* The least of them is what Min says.
LEMMA LeastCandidate ==
  ASSUME NEW r \in Seq(Int), NEW i \in 1..Len(r)
  PROVE  /\ Min(Candidates(r, i)) \in Candidates(r, i)
         /\ \A v \in Candidates(r, i) : Min(Candidates(r, i)) <= v
<1> DEFINE W == Candidates(r, i)
<1>1. /\ Len(r) \in Nat /\ Range(r) = {r[j] : j \in 1..Len(r)} /\ Range(r) \subseteq Int
  BY CountsOfASlice
<1>2. Range(r) # {}
  BY <1>1
<1>3. PICK top \in Range(r) : \A w \in Range(r) : w <= top
  BY <1>2, ExtremesOfASlice
<1>4. {j \in 1..Len(r) : r[j] <= top} = 1..Len(r)
  BY <1>1, <1>3
<1>5. UpTo(r, top) = Len(r)
  BY <1>1, <1>4, NumbersUpTo DEF UpTo
<1>6. top \in W
  BY <1>1, <1>3, <1>5 DEF Candidates
<1>7. \E v \in W : \A w \in W : v <= w
  BY <1>6, ExtremesOfASlice DEF Candidates
<1> HIDE DEF W
<1> QED
  BY <1>7 DEF Min, W

\* The number at position i of the sorted slice is the least that at least i do not exceed.
LEMMA NumberAtAPosition ==
  ASSUME NEW r \in Seq(Int), NEW i \in 1..Len(r)
  PROVE  SortedSlice(r)[i] = Min(Candidates(r, i))
<1> DEFINE m == Min(Candidates(r, i))
           Fits(v) == Below(r, v) < i /\ UpTo(r, v) >= i
<1>1. m \in Candidates(r, i) /\ \A v \in Candidates(r, i) : m <= v
  BY LeastCandidate
<1>2. /\ Len(r) \in Nat
      /\ Range(r) = {r[j] : j \in 1..Len(r)} /\ Range(r) \subseteq Int
      /\ \A v \in Int : Below(r, v) \in Nat /\ UpTo(r, v) \in 0..Len(r)
      /\ \A v, w \in Int : v < w => UpTo(r, v) <= Below(r, w)
  BY CountsOfASlice
<1> HIDE DEF m
<1>8. i \in Int
  BY <1>2
<1>3. m \in Range(r) /\ m \in Int /\ UpTo(r, m) >= i
  BY <1>1, <1>2 DEF Candidates
<1>4. Below(r, m) < i
  <2> SUFFICES ASSUME ~(Below(r, m) < i) PROVE FALSE
    OBVIOUS
  <2> DEFINE J == {j \in 1..Len(r) : r[j] < m}
             W == {v \in Range(r) : v < m}
  <2>1. Below(r, m) = Cardinality(J) /\ Cardinality(J) # 0
    BY <1>2, <1>3 DEF Below
  <2>2. J # {}
    BY <2>1, FS_EmptySet
  <2>3. W # {}
    BY <2>2, <1>2
  <2>4. PICK u \in W : \A w \in W : w <= u
    BY <2>3, ExtremesOfASlice
  <2>5. u \in Range(r) /\ u \in Int /\ u < m
    BY <1>2, <2>4
  <2>6. J = {j \in 1..Len(r) : r[j] <= u}
    <3>1. \A j \in 1..Len(r) : r[j] \in Range(r) /\ r[j] \in Int
      BY <1>2
    <3>2. \A j \in 1..Len(r) : r[j] < m => r[j] <= u
      BY <3>1, <2>4
    <3>3. \A j \in 1..Len(r) : r[j] <= u => r[j] < m
      BY <3>1, <2>5, <1>3
    <3> QED
      BY <3>2, <3>3
  <2>7. UpTo(r, u) >= i
    <3>1. UpTo(r, u) = Below(r, m)
      BY <2>1, <2>6 DEF UpTo
    <3>2. Below(r, m) \in Nat
      BY <1>2, <1>3
    <3> QED
      BY <3>1, <3>2, <1>8
  <2>8. u \in Candidates(r, i)
    BY <2>5, <2>7 DEF Candidates
  <2> QED
    BY <2>5, <2>8, <1>1, <1>3
<1>5. \A v \in Range(r) : Fits(v) => v = m
  <2> SUFFICES ASSUME NEW v \in Range(r), Fits(v) PROVE v = m
    OBVIOUS
  <2>1. v \in Int /\ m <= v
    BY <1>1, <1>2 DEF Candidates
  <2>2. ~(m < v)
    <3> SUFFICES ASSUME m < v PROVE FALSE
      OBVIOUS
    <3>1. UpTo(r, m) <= Below(r, v) /\ Below(r, v) < i
      BY <2>1, <1>2, <1>3
    <3>2. UpTo(r, m) \in Nat /\ Below(r, v) \in Nat
      BY <2>1, <1>2, <1>3
    <3> QED
      BY <3>1, <3>2, <1>3, <1>8
  <2> QED
    BY <2>1, <2>2, <1>3
<1>6. Fits(m)
  BY <1>3, <1>4
<1>7. SortedSlice(r)[i] = CHOOSE v \in Range(r) : Fits(v)
  BY DEF SortedSlice
<1> HIDE DEF Fits
<1> QED
  BY <1>3, <1>5, <1>6, <1>7 DEF m

\* The slice is sorted: as many of its numbers as of the measurements do not exceed a value,
\* and they are the first ones.
THEOREM SortedSliceIsSorted ==
  ASSUME NEW r \in Seq(Int), NEW v \in Range(r)
  PROVE  {i \in 1..Len(r) : SortedSlice(r)[i] <= v} = 1..UpTo(r, v)
<1>1. /\ Range(r) \subseteq Int /\ Len(r) \in Nat
      /\ \A w \in Int : UpTo(r, w) \in 0..Len(r)
      /\ \A u, w \in Int : u <= w => UpTo(r, u) <= UpTo(r, w)
  BY CountsOfASlice
<1>2. ASSUME NEW i \in 1..Len(r)
      PROVE  SortedSlice(r)[i] <= v <=> UpTo(r, v) >= i
  <2> DEFINE m == Min(Candidates(r, i))
  <2>1. m \in Candidates(r, i) /\ (\A w \in Candidates(r, i) : m <= w)
        /\ SortedSlice(r)[i] = m
    BY LeastCandidate, NumberAtAPosition
  <2> HIDE DEF m
  <2>2. m \in Int /\ UpTo(r, m) >= i /\ v \in Int
    BY <2>1, <1>1 DEF Candidates
  <2>3. UpTo(r, m) \in Int /\ UpTo(r, v) \in Int
    BY <2>2, <1>1
  <2>4. m <= v => UpTo(r, v) >= i
    BY <2>2, <2>3, <1>1
  <2>5. UpTo(r, v) >= i => m <= v
    BY <2>1 DEF Candidates
  <2> QED
    BY <2>1, <2>4, <2>5
<1>3. UpTo(r, v) \in 0..Len(r)
  BY <1>1
<1>4. 1..UpTo(r, v) = {i \in 1..Len(r) : UpTo(r, v) >= i}
  <2> DEFINE n == Len(r)
             k == UpTo(r, v)
  <2>1. n \in Nat /\ k \in 0..n
    BY <1>1, <1>3
  <2> HIDE DEF n, k
  <2>2. 1..k = {i \in 1..n : k >= i}
    BY <2>1
  <2> QED
    BY <2>2 DEF n, k
<1> QED
  BY <1>2, <1>4

\* A hundredth part of a whole number, rounded up, is reached where the number itself is.
LEMMA RoundedUp ==
  ASSUME NEW x \in Nat, NEW c \in Int
  PROVE  /\ (x + 99) \div 100 \in Nat
         /\ c >= (x + 99) \div 100 <=> 100 * c >= x
OBVIOUS

Percents == {50, 75, 90, 99}

\* The position of a percentile is one of the slice.
LEMMA PositionIsInTheSlice ==
  ASSUME NEW n \in Nat \ {0}, NEW percent \in Percents
  PROVE  /\ Position(n, percent) \in 1..n
         /\ \A c \in Int : c >= Position(n, percent) <=> 100 * c >= percent * n
<1>1. percent * n \in Nat /\ percent * n = n * percent
  BY DEF Percents
<1>2. 100 * n >= percent * n /\ percent * n > 0
  BY DEF Percents
<1>3. \A c \in Int : c >= Position(n, percent) <=> 100 * c >= percent * n
  BY <1>1, RoundedUp DEF Position
<1>4. Position(n, percent) \in Nat
  BY <1>1, RoundedUp DEF Position
<1>5. n >= Position(n, percent) /\ ~(0 >= Position(n, percent))
  <2>1. n >= Position(n, percent) <=> 100 * n >= percent * n
    BY <1>3
  <2>2. 0 >= Position(n, percent) <=> 100 * 0 >= percent * n
    BY <1>3
  <2> QED
    BY <1>1, <1>2, <2>1, <2>2
<1> QED
  BY <1>3, <1>4, <1>5

\* A percentile is that of the nearest rank method.
LEMMA PercentileIsNearestRank ==
  ASSUME NEW r \in Seq(Int), r # <<>>, NEW percent \in Percents
  PROVE  getPercentile(SortedSlice(r), percent) = NearestRank(r, percent)
<1> DEFINE n == Len(r)
           pos == Position(n, percent)
<1>1. n \in Nat \ {0}
  BY LenProperties, EmptySeq
<1> HIDE DEF n
<1>2. /\ pos \in 1..n
      /\ \A c \in Int : c >= pos <=> 100 * c >= percent * n
  BY <1>1, PositionIsInTheSlice
<1>3. Len(SortedSlice(r)) = n
  BY <1>1, LenProperties DEF SortedSlice, n
<1> HIDE DEF pos, n
<1>4. getPercentile(SortedSlice(r), percent) = SortedSlice(r)[pos]
  BY <1>1, <1>2, <1>3 DEF getPercentile, pos
<1>5. SortedSlice(r)[pos] = Min(Candidates(r, pos))
  BY <1>2, NumberAtAPosition DEF n
<1>6. \A v \in Range(r) : UpTo(r, v) \in Int
  BY CountsOfASlice
<1>7. Candidates(r, pos) = {v \in Range(r) : 100 * UpTo(r, v) >= percent * n}
  BY <1>2, <1>6 DEF Candidates
<1> QED
  BY <1>4, <1>5, <1>7 DEF NearestRank, n

\* However many measurements there are, and in whichever order.
THEOREM PercentilesAreRight == StatisticsSpec => []PercentilesAreNearestRanks
<1> DEFINE Inv == measurements \in Seq(Int)
<1>1. StatisticsInit => Inv
  BY EmptySeq DEF StatisticsInit
<1>2. Inv /\ [Record]_measurements => Inv'
  <2> SUFFICES ASSUME Inv, [Record]_measurements PROVE Inv'
    OBVIOUS
  <2>1. ASSUME NEW x \in Numbers, measurements' = Append(measurements, x) PROVE Inv'
    BY <2>1, StatisticsAssumption, AppendProperties
  <2> QED
    BY <2>1, StatisticsAssumption DEF Record
<1>3. Inv => PercentilesAreNearestRanks
  BY PercentileIsNearestRank DEF PercentilesAreNearestRanks, Summary, Percents
<1> QED
  BY <1>1, <1>2, <1>3, PTL DEF StatisticsSpec
=============================================================================
