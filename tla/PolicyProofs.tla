---------------------------- MODULE PolicyProofs ----------------------------
(***************************************************************************)
(* First, the worker pool is correct for every length of the list, every   *)
(* capacity of the channel and every set of errors.  Then, a deployment of *)
(* policies, which extends it, and reports success, leaves the number      *)
(* asked for, for any number of policies, threads and prefixes, and        *)
(* whatever earlier failures and lost answers have left behind.            *)
(***************************************************************************)
EXTENDS Policies, FiniteSetTheorems, WellFoundedInduction, TLAPS

-----------------------------------------------------------------------------
(* The worker pool.  Facts about its operators.                            *)

\* A set of naturals that is not empty has a least element.
LEMMA LeastElement ==
  ASSUME NEW S \in SUBSET Nat, S # {}
  PROVE  \E x \in S : \A y \in S : x <= y
<1> DEFINE Less == {p \in Nat \X Nat : p[1] < p[2]}
<1>1. IsWellFoundedOn(Less, Nat)
  BY NatLessThanWellFounded DEF OpToRel
<1>2. PICK x \in S : \A y \in S : ~(<<y, x>> \in Less)
  <2> HIDE DEF Less
  <2> QED
    BY <1>1, WFMin
<1>3. \A y \in S : ~(y < x)
  BY <1>2
<1> QED
  BY <1>3

\* The scan of the slice: nil when all entries are nil, else the lowest failed entry.
LEMMA FirstErrorScans ==
  ASSUME NEW n \in 0..MaxTasks, NEW errs \in [Tasks -> Answers]
  PROVE  /\ FirstError(errs, n) = NoError <=> \A t \in Tasks : t < n => errs[t] = NoError
         /\ FirstError(errs, n) # NoError =>
              \E t \in Tasks : /\ t < n
                               /\ errs[t] = FirstError(errs, n)
                               /\ \A u \in Tasks : u < t => errs[u] = NoError
         /\ FirstError(errs, n) \in Answers
<1> DEFINE failed == {t \in 0..n - 1 : errs[t] # NoError}
<1>1. /\ failed \in SUBSET Nat
      /\ failed \in SUBSET Tasks
      /\ \A t \in Tasks : t < n => t \in 0..n - 1
      /\ \A t \in failed : t < n
  BY PoolAssumption DEF Tasks
<1>2. CASE failed = {}
  BY <1>1, <1>2 DEF FirstError, Answers
<1>3. CASE failed # {}
  <2> DEFINE least == CHOOSE t \in failed : \A u \in failed : t <= u
  <2>1. least \in failed /\ \A u \in failed : least <= u
    BY <1>1, <1>3, LeastElement
  <2>2. FirstError(errs, n) = errs[least]
    BY <1>3 DEF FirstError
  <2>3. errs[least] # NoError /\ least \in Tasks /\ least < n
    BY <2>1, <1>1
  <2>4. \A u \in Tasks : u < least => errs[u] = NoError
    BY <2>1, <2>3, <1>1 DEF Tasks
  <2> QED
    BY <2>2, <2>3, <2>4
<1> QED
  BY <1>2, <1>3

\* There are MaxTasks indexes.
LEMMA TasksAreFinite ==
  /\ IsFiniteSet(Tasks)
  /\ Cardinality(Tasks) = MaxTasks
<1>1. MaxTasks - 1 \in Int /\ (MaxTasks = 0 => 0 > MaxTasks - 1)
  BY PoolAssumption
<1> QED
  BY <1>1, FS_Interval, PoolAssumption DEF Tasks

\* Any subset of the indexes is finite and no larger than their number.
LEMMA SubsetsAreFinite ==
  ASSUME NEW S \in SUBSET Tasks
  PROVE  /\ IsFiniteSet(S)
         /\ Cardinality(S) \in 0..MaxTasks
<1>1. IsFiniteSet(S) /\ Cardinality(S) <= MaxTasks
  BY TasksAreFinite, FS_Subset
<1> QED
  BY <1>1, FS_CardinalityType, PoolAssumption

-----------------------------------------------------------------------------
(* The invariant is inductive.                                             *)

USE PoolAssumption

\* Before the first call no goroutine exists and both counters are zero.
LEMMA InitEstablishesPoolInv == PoolInit => PoolInv
<1> SUFFICES ASSUME PoolInit PROVE PoolInv
  OBVIOUS
<1>1. PoolTypeOK
  BY DEF PoolInit, PoolTypeOK, WorkerStates, Answers
<1>2. InFlight = {} /\ Unfinished = {}
  BY DEF PoolInit, InFlight, Unfinished
<1>3. sem = Cardinality(InFlight) /\ wg = Cardinality(Unfinished)
  BY <1>2, FS_EmptySet DEF PoolInit
<1>4. result = FirstError(errors, num)
  <2>1. \A t \in Tasks : t < num => errors[t] = NoError
    BY DEF PoolInit
  <2> QED
    BY <1>1, <2>1, FirstErrorScans DEF PoolTypeOK, PoolInit
<1> QED
  BY <1>1, <1>3, <1>4 DEF PoolInit, PoolInv, Tasks

\* Entering the function from any state makes everything but the last result fresh.
LEMMA BeginPreservesPoolInv ==
  ASSUME PoolInv, NEW n \in 0..MaxTasks, Begin(n)
  PROVE  PoolInv'
<1>1. PoolTypeOK'
  BY DEF Begin, PoolInv, PoolTypeOK, WorkerStates, Answers
<1>2. InFlight' = {} /\ Unfinished' = {}
  BY DEF Begin, InFlight, Unfinished
<1>3. sem' = Cardinality(InFlight') /\ wg' = Cardinality(Unfinished')
  BY <1>2, FS_EmptySet DEF Begin
<1> QED
  BY <1>1, <1>3 DEF Begin, PoolInv, Tasks

\* A round of the loop adds one goroutine and one to each counter.
LEMMA DispatchPreservesPoolInv == PoolInv /\ Dispatch => PoolInv'
<1> SUFFICES ASSUME PoolInv, Dispatch PROVE PoolInv'
  OBVIOUS
<1>1. next \in Tasks /\ worker[next] = "unborn" /\ worker \in [Tasks -> WorkerStates]
  BY DEF PoolInv, PoolTypeOK, Dispatch, Tasks
<1>2. InFlight' = InFlight \cup {next} /\ next \notin InFlight
  BY <1>1 DEF Dispatch, InFlight
<1>3. Unfinished' = Unfinished \cup {next} /\ next \notin Unfinished
  BY <1>1 DEF Dispatch, Unfinished
<1>4. InFlight \in SUBSET Tasks /\ Unfinished \in SUBSET Tasks
  BY DEF InFlight, Unfinished
<1>5. sem' = Cardinality(InFlight') /\ wg' = Cardinality(Unfinished')
  BY <1>2, <1>3, <1>4, SubsetsAreFinite, FS_AddElement DEF PoolInv, Dispatch
<1>6. wg' \in 0..MaxTasks
  <2>1. Unfinished' \in SUBSET Tasks
    BY DEF Unfinished
  <2> QED
    BY <1>5, <2>1, SubsetsAreFinite
<1>7. PoolTypeOK'
  BY <1>1, <1>6 DEF PoolInv, PoolTypeOK, Dispatch, WorkerStates
<1>8. \A t \in Tasks : worker'[t] = "unborn" <=> t >= next'
  BY <1>1 DEF PoolInv, PoolTypeOK, Dispatch, Tasks
<1>9. \A t \in Tasks : worker'[t] \in {"unborn", "calling"} => errors'[t] = NoError
  BY <1>1 DEF PoolInv, Dispatch
<1> QED
  BY <1>5, <1>7, <1>8, <1>9 DEF PoolInv, Dispatch

\* After the loop every index below num has its goroutine.
LEMMA LoopExitPreservesPoolInv == PoolInv /\ LoopExit => PoolInv'
  BY DEF PoolInv, PoolTypeOK, LoopExit, InFlight, Unfinished

\* The function returns at a zero WaitGroup, with the first error of the slice.
LEMMA JoinPreservesPoolInv == PoolInv /\ Join => PoolInv'
<1> SUFFICES ASSUME PoolInv, Join PROVE PoolInv'
  OBVIOUS
<1>1. FirstError(errors, num) \in Answers
  BY FirstErrorScans DEF PoolInv, PoolTypeOK
<1>2. PoolTypeOK'
  BY <1>1 DEF PoolInv, PoolTypeOK, Join
<1> QED
  BY <1>2 DEF PoolInv, Join, InFlight, Unfinished, FirstError

\* An answer writes one slot, and only while the function is still running.
LEMMA AnswerPreservesPoolInv ==
  ASSUME PoolInv, NEW t \in Tasks, NEW a \in Answers, Answer(t, a)
  PROVE  PoolInv'
<1>1. worker \in [Tasks -> WorkerStates] /\ errors \in [Tasks -> Answers]
  BY DEF PoolInv, PoolTypeOK
<1>2. InFlight' = InFlight /\ Unfinished' = Unfinished
  BY <1>1 DEF Answer, InFlight, Unfinished
<1>3. PoolTypeOK'
  BY <1>1 DEF PoolInv, PoolTypeOK, Answer, WorkerStates
<1>4. t < next
  BY DEF PoolInv, PoolTypeOK, Answer, Tasks
<1>5. main # "idle"
  <2> SUFFICES ASSUME main = "idle" PROVE FALSE
    OBVIOUS
  <2>1. Unfinished \in SUBSET Tasks /\ Cardinality(Unfinished) = 0
    BY DEF PoolInv, Unfinished
  <2>2. Unfinished = {}
    BY <2>1, SubsetsAreFinite, FS_EmptySet
  <2> QED
    BY <2>2 DEF Answer, Unfinished
<1>6. \A u \in Tasks : worker'[u] = "unborn" <=> u >= next'
  BY <1>1 DEF PoolInv, Answer
<1>7. \A u \in Tasks : worker'[u] \in {"unborn", "calling"} => errors'[u] = NoError
  BY <1>1 DEF PoolInv, Answer
<1> QED
  BY <1>2, <1>3, <1>5, <1>6, <1>7 DEF PoolInv, Answer

\* A receive from `sem` takes one goroutine out of flight.
LEMMA ReleasePreservesPoolInv ==
  ASSUME PoolInv, NEW t \in Tasks, Release(t)
  PROVE  PoolInv'
<1>1. worker \in [Tasks -> WorkerStates]
  BY DEF PoolInv, PoolTypeOK
<1>2. InFlight' = InFlight \ {t} /\ t \in InFlight
  BY <1>1 DEF Release, InFlight
<1>3. Unfinished' = Unfinished
  BY <1>1 DEF Release, Unfinished
<1>4. InFlight \in SUBSET Tasks
  BY DEF InFlight
<1>5. sem' = Cardinality(InFlight')
  BY <1>2, <1>4, SubsetsAreFinite, FS_RemoveElement DEF PoolInv, Release
<1>6. PoolTypeOK'
  BY <1>1 DEF PoolInv, PoolTypeOK, Release, WorkerStates
<1>7. \A u \in Tasks : /\ worker'[u] = "unborn" <=> u >= next'
                       /\ worker'[u] \in {"unborn", "calling"} => errors'[u] = NoError
  BY <1>1 DEF PoolInv, Release
<1> QED
  BY <1>3, <1>5, <1>6, <1>7 DEF PoolInv, Release

\* wg.Done() finds a positive counter and finishes one goroutine.
LEMMA DonePreservesPoolInv ==
  ASSUME PoolInv, NEW t \in Tasks, Done(t)
  PROVE  PoolInv'
<1>1. worker \in [Tasks -> WorkerStates]
  BY DEF PoolInv, PoolTypeOK
<1>2. InFlight' = InFlight
  BY <1>1 DEF Done, InFlight
<1>3. Unfinished' = Unfinished \ {t} /\ t \in Unfinished
  BY <1>1 DEF Done, Unfinished
<1>4. Unfinished \in SUBSET Tasks
  BY DEF Unfinished
<1>5. wg > 0 /\ wg' = Cardinality(Unfinished')
  BY <1>3, <1>4, SubsetsAreFinite, FS_RemoveElement, FS_EmptySet DEF PoolInv, Done
<1>6. PoolTypeOK'
  BY <1>1, <1>5 DEF PoolInv, PoolTypeOK, Done, WorkerStates
<1>7. \A u \in Tasks : /\ worker'[u] = "unborn" <=> u >= next'
                       /\ worker'[u] \in {"unborn", "calling"} => errors'[u] = NoError
  BY <1>1 DEF PoolInv, Done
<1> QED
  BY <1>2, <1>5, <1>6, <1>7 DEF PoolInv, PoolTypeOK, Done

\* A step that leaves the pool alone leaves its invariant alone.
LEMMA StutterPreservesPoolInv == PoolInv /\ UNCHANGED poolVars => PoolInv'
  BY DEF PoolInv, PoolTypeOK, poolVars, InFlight, Unfinished, FirstError

\* Every step of the pool, inside whatever module conjoins it with an effect of its own.
LEMMA PoolStepPreservesPoolInv == PoolInv /\ [PoolNext]_poolVars => PoolInv'
  BY BeginPreservesPoolInv, DispatchPreservesPoolInv, LoopExitPreservesPoolInv,
     JoinPreservesPoolInv, AnswerPreservesPoolInv, ReleasePreservesPoolInv,
     DonePreservesPoolInv, StutterPreservesPoolInv
  DEF PoolNext, Internal

\* The invariant holds in every reachable state.
LEMMA PoolInvHolds == PoolSpec => []PoolInv
  BY InitEstablishesPoolInv, PoolStepPreservesPoolInv, PTL DEF PoolSpec

-----------------------------------------------------------------------------
(* What the invariant gives the caller.                                    *)

\* When the WaitGroup is at zero after the loop, every goroutine of the list has ended.
LEMMA ZeroMeansAllDone ==
  ASSUME PoolInv, main # "loop", wg = 0
  PROVE  /\ Unfinished = {}
         /\ \A t \in Tasks : t < num => worker[t] = "done"
<1>1. Unfinished \in SUBSET Tasks /\ Cardinality(Unfinished) = 0
  BY DEF PoolInv, Unfinished
<1>2. Unfinished = {}
  BY <1>1, SubsetsAreFinite, FS_EmptySet
<1>3. ASSUME NEW t \in Tasks, t < num PROVE worker[t] = "done"
  <2>1. worker[t] \in WorkerStates /\ worker[t] # "unborn"
    BY <1>3 DEF PoolInv, PoolTypeOK, Tasks
  <2> QED
    BY <2>1, <1>2 DEF Unfinished, WorkerStates
<1> QED
  BY <1>2, <1>3

\* Every variable keeps its type; in particular the WaitGroup never goes negative, which
\* in Go would panic, and the channel never holds more than its capacity.
THEOREM PoolTypeCorrect == PoolSpec => []PoolTypeOK
<1>1. PoolInv => PoolTypeOK
  BY DEF PoolInv
<1> QED
  BY <1>1, PoolInvHolds, PTL

\* Never more than NumThreads API calls at a time, for any capacity and any list.
THEOREM PoolBoundsCalls == PoolSpec => []CallsAreBounded
<1>1. PoolInv => CallsAreBounded
  BY DEF PoolInv, PoolTypeOK, CallsAreBounded
<1> QED
  BY <1>1, PoolInvHolds, PTL

\* The function returns only after all its goroutines have ended.
THEOREM PoolJoinsItsWorkers == PoolSpec => []NothingOutlivesTheCall
<1>1. PoolInv => NothingOutlivesTheCall
  BY ZeroMeansAllDone DEF PoolInv, NothingOutlivesTheCall
<1> QED
  BY <1>1, PoolInvHolds, PTL

\* The function returns the error of the lowest failed index, nil when there is none.
THEOREM PoolReportsTheFirstFailure == PoolSpec => []ReportsTheFirstFailure
<1>1. ASSUME PoolInv PROVE ReportsTheFirstFailure
  <2>1. num \in 0..MaxTasks /\ errors \in [Tasks -> Answers]
    BY <1>1 DEF PoolInv, PoolTypeOK
  <2>2. main = "idle" => result = FirstError(errors, num)
    BY <1>1 DEF PoolInv
  <2> QED
    BY <2>1, <2>2, FirstErrorScans DEF ReportsTheFirstFailure
<1> QED
  BY <1>1, PoolInvHolds, PTL

-----------------------------------------------------------------------------
(* The pool refines BulkCall (its safety part; fairness stays with TLC).   *)

\* No call in progress is no call in progress for the abstract caller.
LEMMA RefinesInit == PoolInit => Bulk!Init
<1> SUFFICES ASSUME PoolInit PROVE Bulk!Init
  OBVIOUS
<1>1. Answered = {}
  BY DEF PoolInit, Answered
<1>2. slotAnswers = <<>>
  BY <1>1 DEF slotAnswers
<1> QED
  BY <1>2 DEF PoolInit, Bulk!Init

\* Entering the function is the submission of the list.
LEMMA RefinesBegin ==
  ASSUME NEW n \in 0..MaxTasks, Begin(n)
  PROVE  Bulk!Submit(n)
<1>1. Answered' = {}
  BY DEF Begin, Answered
<1>2. slotAnswers' = <<>>
  BY <1>1 DEF slotAnswers
<1> QED
  BY <1>2 DEF Begin, Bulk!Submit

\* A goroutine that writes its slot is the one performance of that entry.
LEMMA RefinesAnswer ==
  ASSUME PoolInv, NEW t \in Tasks, NEW a \in Answers, Answer(t, a)
  PROVE  Bulk!Perform(t, a)
<1>1. /\ worker \in [Tasks -> WorkerStates]
      /\ errors \in [Tasks -> Answers]
      /\ num \in 0..MaxTasks
      /\ next \in 0..num
      /\ t \in Nat
  BY DEF PoolInv, PoolTypeOK, Tasks
<1>2. t < next /\ next <= num
  BY <1>1 DEF PoolInv, Answer
<1>3. main # "idle"
  BY <1>1, <1>2, ZeroMeansAllDone DEF PoolInv, Answer
<1>4. t \notin Answered /\ Answered' = Answered \cup {t}
  BY <1>1 DEF Answered, Answer
<1>5. slotAnswers' = [r \in Answered \cup {t} |-> IF r = t THEN a ELSE errors[r]]
  BY <1>1, <1>4 DEF slotAnswers, Answer, Answered
<1>6. DOMAIN slotAnswers = Answered /\ \A r \in Answered : slotAnswers[r] = errors[r]
  BY DEF slotAnswers
<1>7. slotAnswers' = [r \in DOMAIN slotAnswers \cup {t} |->
                        IF r = t THEN a ELSE slotAnswers[r]]
  BY <1>4, <1>5, <1>6
<1> QED
  BY <1>2, <1>1, <1>3, <1>4, <1>6, <1>7 DEF Bulk!Perform, Answer

\* The return of the function is the return that BulkCall allows.
LEMMA RefinesJoin ==
  ASSUME PoolInv, Join
  PROVE  Bulk!Return
<1>1. \A t \in Tasks : t < num => worker[t] = "done"
  BY ZeroMeansAllDone DEF Join
<1>2. /\ DOMAIN slotAnswers = Answered
      /\ \A t \in Tasks : t < num => t \in Answered /\ slotAnswers[t] = errors[t]
  BY <1>1 DEF slotAnswers, Answered
<1>3. num \in 0..MaxTasks /\ \A t \in 0..num - 1 : t \in Tasks /\ t < num
  BY DEF PoolInv, PoolTypeOK, Tasks
<1>4. FirstError(errors, num) = Bulk!FirstFailure(slotAnswers, num)
  <2> DEFINE failed == {t \in 0..num - 1 : errors[t] # NoError}
             failures == {s \in 0..num - 1 : slotAnswers[s] # NoError}
             least == CHOOSE t \in failed : \A u \in failed : t <= u
             first == CHOOSE s \in failures : \A r \in failures : s <= r
  <2>1. failed = failures /\ failed \in SUBSET Nat /\ failed \subseteq 0..num - 1
    BY <1>2, <1>3
  <2>2. FirstError(errors, num) = IF failed = {} THEN NoError ELSE errors[least]
    BY DEF FirstError
  <2>3. Bulk!FirstFailure(slotAnswers, num) =
          IF failures = {} THEN NoError ELSE slotAnswers[first]
    BY DEF Bulk!FirstFailure
  <2>4. CASE failed = {}
    BY <2>1, <2>2, <2>3, <2>4
  <2>5. CASE failed # {}
    <3>1. least \in failed /\ \A u \in failed : least <= u
      BY <2>1, <2>5, LeastElement
    <3>2. first \in failures /\ \A u \in failures : first <= u
      BY <2>1, <2>5, LeastElement
    <3> HIDE DEF least, first
    <3>3. least = first
      BY <2>1, <3>1, <3>2
    <3>4. errors[least] = slotAnswers[least]
      BY <2>1, <3>1, <1>2, <1>3
    <3> QED
      BY <2>1, <2>2, <2>3, <2>5, <3>3, <3>4
  <2> QED
    BY <2>4, <2>5
<1>5. slotAnswers' = slotAnswers
  BY DEF slotAnswers, Answered, Join
<1> QED
  BY <1>2, <1>4, <1>5 DEF Join, Bulk!Return, Bulk!Slots, Tasks

\* The loop and the deferred functions leave the set of answered entries alone.
LEMMA AnsweredUnchanged ==
  ASSUME PoolInv, Dispatch \/ LoopExit \/ \E t \in Tasks : Release(t) \/ Done(t)
  PROVE  Answered' = Answered
<1>1. /\ worker \in [Tasks -> WorkerStates] /\ next \in Nat
      /\ \A t \in Tasks : worker[t] = "unborn" <=> t >= next
  BY PoolAssumption DEF PoolInv, PoolTypeOK
<1>2. CASE Dispatch
  <2>1. \A t \in Tasks : t = next => worker[t] = "unborn"
    BY <1>1
  <2> QED
    BY <1>1, <1>2, <2>1 DEF Dispatch, Answered
<1>3. CASE LoopExit
  BY <1>3 DEF LoopExit, Answered
<1>4. ASSUME NEW t \in Tasks, Release(t) \/ Done(t)
      PROVE  Answered' = Answered
  BY <1>1, <1>4 DEF Release, Done, Answered
<1> QED
  BY <1>2, <1>3, <1>4

\* The steps that BulkCall does not see.
LEMMA RefinesInternal ==
  ASSUME PoolInv, Dispatch \/ LoopExit \/ \E t \in Tasks : Release(t) \/ Done(t)
  PROVE  UNCHANGED Bulk!bulkVars
<1>1. Answered' = Answered
  BY AnsweredUnchanged
<1>2. slotAnswers' = slotAnswers
  BY <1>1 DEF slotAnswers, Dispatch, LoopExit, Release, Done
<1> QED
  BY <1>2 DEF Bulk!bulkVars, Dispatch, LoopExit, Release, Done

\* A step that leaves the pool alone is invisible.
LEMMA RefinesStutter == UNCHANGED poolVars => UNCHANGED Bulk!bulkVars
  BY DEF poolVars, Bulk!bulkVars, slotAnswers, Answered

\* A caller that knows only BulkCall's contract knows the pool: initial states map to
\* initial states, and every step maps to a step of BulkCall or changes nothing there.
THEOREM PoolImplementsBulkCall ==
  PoolSpec => Bulk!Init /\ [][Bulk!Next]_(Bulk!bulkVars)
<1>1. ASSUME PoolInv, [PoolNext]_poolVars
      PROVE  [Bulk!Next]_(Bulk!bulkVars)
  <2>1. ASSUME NEW n \in 0..MaxTasks, Begin(n) PROVE Bulk!Next
    BY <2>1, RefinesBegin DEF Bulk!Next
  <2>2. ASSUME NEW t \in Tasks, NEW a \in Answers, Answer(t, a) PROVE Bulk!Next
    BY <1>1, <2>2, RefinesAnswer DEF Bulk!Next, Bulk!Slots, Bulk!Answers, Tasks, Answers
  <2>3. CASE Join
    BY <1>1, <2>3, RefinesJoin DEF Bulk!Next
  <2>4. CASE Dispatch \/ LoopExit \/ \E t \in Tasks : Release(t) \/ Done(t)
    BY <1>1, <2>4, RefinesInternal
  <2>5. CASE UNCHANGED poolVars
    BY <2>5, RefinesStutter
  <2> QED
    BY <1>1, <2>1, <2>2, <2>3, <2>4, <2>5 DEF PoolNext, Internal
<1> QED
  BY <1>1, RefinesInit, PoolInvHolds, PTL DEF PoolSpec

-----------------------------------------------------------------------------
(* The policies.  Facts about a call and its list of indexes.              *)

USE PoolAssumption, PoliciesAssumption DEF Indexes

\* The types of the call in progress and of the sets of policies.
LEMMA CallFacts ==
  ASSUME TypeOK
  PROVE  /\ call.prefix \in Prefixes
         /\ call.want \in 0..MaxTasks
         /\ call.listed \in SUBSET Tasks
         /\ IsFiniteSet(call.listed)
         /\ currentNumPolicies \in 0..MaxTasks
         /\ Creating \in BOOLEAN
         /\ \A p \in Prefixes : /\ policies[p] \in SUBSET Tasks
                                /\ IsFiniteSet(policies[p])
                                /\ Cardinality(policies[p]) \in 0..MaxTasks
<1>1. call \in Calls /\ policies \in [Prefixes -> SUBSET Tasks]
  BY DEF TypeOK
<1>2. /\ call.prefix \in Prefixes
      /\ call.want \in 0..MaxTasks
      /\ call.listed \in SUBSET Tasks
  BY <1>1 DEF Calls
<1>3. IsFiniteSet(call.listed) /\ currentNumPolicies \in 0..MaxTasks
  BY <1>2, SubsetsAreFinite DEF currentNumPolicies
<1>4. ASSUME NEW p \in Prefixes
      PROVE  /\ policies[p] \in SUBSET Tasks
             /\ IsFiniteSet(policies[p])
             /\ Cardinality(policies[p]) \in 0..MaxTasks
  <2>1. policies[p] \in SUBSET Tasks
    BY <1>1
  <2> QED
    BY <2>1, SubsetsAreFinite
<1> QED
  BY <1>2, <1>3, <1>4 DEF Creating

\* The entries of the list are the indexes of Span, each once.
LEMMA SpanIsTheList ==
  ASSUME PoolInv, TypeOK, Progress
  PROVE  /\ \A t \in Tasks : t < num => IndexOf(t) \in Span /\ IndexOf(t) \in Tasks
         /\ \A t, u \in Tasks : IndexOf(t) = IndexOf(u) => t = u
         /\ \A i \in Span : \E t \in Tasks : t < num /\ IndexOf(t) = i
         /\ Span \in SUBSET Tasks
<1>1. /\ currentNumPolicies \in 0..MaxTasks
      /\ call.want \in 0..MaxTasks
      /\ Creating <=> call.want > currentNumPolicies
      /\ num = IF Creating THEN call.want - currentNumPolicies
                           ELSE currentNumPolicies - call.want
  BY CallFacts DEF Progress, Creating
<1> DEFINE c == currentNumPolicies
           w == call.want
<1>2. CASE Creating
  <2>1. Span = c..w - 1 /\ num = w - c /\ \A t \in Tasks : IndexOf(t) = c + t
    BY <1>1, <1>2 DEF Span, IndexOf
  <2>2. c \in 0..MaxTasks /\ w \in 0..MaxTasks /\ w > c
    BY <1>1, <1>2
  <2> HIDE DEF c, w
  <2>3. ASSUME NEW t \in Tasks, t < num
        PROVE  c + t \in c..w - 1 /\ c + t \in Tasks
    BY <2>1, <2>2, <2>3 DEF Tasks
  <2>4. ASSUME NEW i \in c..w - 1
        PROVE  i - c \in Tasks /\ i - c < num /\ c + (i - c) = i
    BY <2>1, <2>2 DEF Tasks
  <2>5. ASSUME NEW t \in Tasks, NEW u \in Tasks, c + t = c + u
        PROVE  t = u
    BY <2>2, <2>5 DEF Tasks
  <2>6. c..w - 1 \in SUBSET Tasks
    BY <2>2 DEF Tasks
  <2> QED
    BY <2>1, <2>3, <2>4, <2>5, <2>6
<1>3. CASE ~Creating
  <2>1. Span = w..c - 1 /\ num = c - w /\ \A t \in Tasks : IndexOf(t) = c - 1 - t
    BY <1>1, <1>3 DEF Span, IndexOf
  <2>2. c \in 0..MaxTasks /\ w \in 0..MaxTasks /\ w <= c
    BY <1>1, <1>3
  <2> HIDE DEF c, w
  <2>3. ASSUME NEW t \in Tasks, t < num
        PROVE  c - 1 - t \in w..c - 1 /\ c - 1 - t \in Tasks
    BY <2>1, <2>2, <2>3 DEF Tasks
  <2>4. ASSUME NEW i \in w..c - 1
        PROVE  c - 1 - i \in Tasks /\ c - 1 - i < num /\ c - 1 - (c - 1 - i) = i
    BY <2>1, <2>2 DEF Tasks
  <2>5. ASSUME NEW t \in Tasks, NEW u \in Tasks, c - 1 - t = c - 1 - u
        PROVE  t = u
    BY <2>2, <2>5 DEF Tasks
  <2>6. w..c - 1 \in SUBSET Tasks
    BY <2>2 DEF Tasks
  <2> QED
    BY <2>1, <2>3, <2>4, <2>5, <2>6
<1> QED
  BY <1>2, <1>3

\* The number of indexes that a bulk call creates or deletes.
LEMMA SpanCardinality ==
  ASSUME PoolInv, TypeOK, Progress
  PROVE  IsFiniteSet(Span) /\ Cardinality(Span) = num
<1> DEFINE c == currentNumPolicies
           w == call.want
<1>1. /\ c \in 0..MaxTasks /\ w \in 0..MaxTasks
      /\ Creating <=> w > c
      /\ num = IF Creating THEN w - c ELSE c - w
      /\ Span = IF Creating THEN c..w - 1 ELSE w..c - 1
  BY CallFacts DEF Progress, Creating, Span
<1> HIDE DEF c, w
<1>2. c \in Int /\ w \in Int /\ w - 1 \in Int /\ c - 1 \in Int
  BY <1>1
<1>3. CASE Creating
  <2>1. IsFiniteSet(c..w - 1) /\ Cardinality(c..w - 1) = w - 1 - c + 1
    BY <1>1, <1>2, <1>3, FS_Interval
  <2> QED
    BY <1>1, <1>3, <2>1
<1>4. CASE ~Creating
  <2>1. /\ IsFiniteSet(w..c - 1)
        /\ Cardinality(w..c - 1) = IF w > c - 1 THEN 0 ELSE c - 1 - w + 1
    BY <1>2, FS_Interval
  <2> QED
    BY <1>1, <1>4, <2>1
<1> QED
  BY <1>3, <1>4

\* Any state of a bulk call has at least the smaller and at most the larger number.
LEMMA ProgressBoundsTheCount ==
  ASSUME PoolInv, TypeOK, Progress
  PROVE  IF Creating THEN Cardinality(Here) \in currentNumPolicies..call.want
                     ELSE Cardinality(Here) \in call.want..currentNumPolicies
<1>1. /\ IsFiniteSet(call.listed) /\ call.listed \in SUBSET Tasks
      /\ IsFiniteSet(Here) /\ Cardinality(Here) \in 0..MaxTasks
      /\ currentNumPolicies \in 0..MaxTasks /\ call.want \in 0..MaxTasks
      /\ Cardinality(call.listed) = currentNumPolicies
  BY CallFacts DEF Here, currentNumPolicies
<1>2. IsFiniteSet(Span) /\ Cardinality(Span) = num
  BY SpanCardinality
<1>3. CASE Creating
  <2>1. currentNumPolicies <= Cardinality(Here)
    BY <1>1, <1>3, FS_Subset DEF Progress
  <2>2. /\ IsFiniteSet(call.listed \cup Span)
        /\ Cardinality(call.listed \cup Span)
             = currentNumPolicies + num - Cardinality(call.listed \cap Span)
    BY <1>1, <1>2, FS_Union
  <2>3. Cardinality(call.listed \cap Span) \in Nat
    BY <1>1, FS_Intersection, FS_CardinalityType
  <2>4. Cardinality(Here) <= Cardinality(call.listed \cup Span)
    BY <1>3, <2>2, FS_Subset DEF Progress
  <2> QED
    BY <1>1, <1>3, <2>1, <2>2, <2>3, <2>4 DEF Progress
<1>4. CASE ~Creating
  <2>1. Cardinality(Here) <= currentNumPolicies
    BY <1>1, <1>4, FS_Subset DEF Progress
  <2>2. /\ IsFiniteSet(call.listed \ Span)
        /\ Cardinality(call.listed \ Span)
             = currentNumPolicies - Cardinality(call.listed \cap Span)
    BY <1>1, FS_Difference
  <2>3. /\ Cardinality(call.listed \cap Span) <= num
        /\ Cardinality(call.listed \cap Span) \in Nat
    BY <1>1, <1>2, FS_Intersection, FS_CardinalityType
  <2>4. Cardinality(call.listed \ Span) <= Cardinality(Here)
    BY <1>1, <1>4, FS_Subset DEF Progress
  <2> QED
    BY <1>1, <1>4, <2>1, <2>2, <2>3, <2>4 DEF Progress
<1> QED
  BY <1>3, <1>4

-----------------------------------------------------------------------------
(* Each action of this module is a step of the pool or leaves it alone.    *)

\* What the steps of the pool keep, as far as policies are concerned.
LEMMA StepsOfThePool ==
  ASSUME PoolInv, TypeOK, [Next]_vars
  PROVE  PoolInv'
<1>1. ASSUME NEW p \in Prefixes, NEW want \in 0..MaxTasks, Deploy(p, want)
      PROVE  [PoolNext]_poolVars
  <2>1. Cardinality(policies[p]) \in 0..MaxTasks
    BY CallFacts
  <2>2. PICK n \in 0..MaxTasks : Begin(n)
    <3>1. CASE want > Cardinality(policies[p])
      <4>1. want - Cardinality(policies[p]) \in 0..MaxTasks
        BY <2>1, <3>1
      <4> QED
        BY <1>1, <2>1, <3>1, <4>1 DEF Deploy
    <3>2. CASE ~(want > Cardinality(policies[p]))
      <4>1. Cardinality(policies[p]) - want \in 0..MaxTasks
        BY <2>1, <3>2
      <4> QED
        BY <1>1, <2>1, <3>2, <4>1 DEF Deploy
    <3> QED
      BY <3>1, <3>2
  <2> QED
    BY <2>2 DEF PoolNext
<1>2. ASSUME NEW t \in Tasks, Succeeds(t) \/ Fails(t)
      PROVE  [PoolNext]_poolVars
  <2>1. \E a \in Answers : Answer(t, a)
    BY <1>2 DEF Succeeds, Fails, Answers
  <2> QED
    BY <2>1 DEF PoolNext
<1>3. Return \/ PoolStep => PoolNext
  BY DEF Return, PoolStep, PoolNext, Internal
<1>4. DeployFailsEarly \/ Cleanup => UNCHANGED poolVars
  BY DEF DeployFailsEarly, Cleanup
<1>5. ASSUME NEW p \in Prefixes, NEW want \in 0..MaxTasks, DeployNothing(p, want)
      PROVE  UNCHANGED poolVars
  BY <1>5 DEF DeployNothing
<1>6. UNCHANGED vars => UNCHANGED poolVars
  BY DEF vars
<1>7. [PoolNext]_poolVars
  BY <1>1, <1>2, <1>3, <1>4, <1>5, <1>6, Zenon DEF Next
<1> QED
  BY <1>7, PoolStepPreservesPoolInv

\* A step outside the pool keeps what is defined from the pool's variables.
LEMMA PoolVarsUnchanged ==
  ASSUME UNCHANGED <<poolVars, call, policies>>
  PROVE  /\ UNCHANGED <<num, main, next, sem, wg, worker, errors, result>>
         /\ Answered' = Answered /\ Here' = Here /\ Creating' = Creating
         /\ Span' = Span /\ currentNumPolicies' = currentNumPolicies
         /\ \A t \in Tasks : IndexOf(t)' = IndexOf(t)
  BY DEF poolVars, Answered, Here, Creating, Span, currentNumPolicies, IndexOf

\* What is defined from the call in progress stays with it.
LEMMA CallUnchanged ==
  ASSUME UNCHANGED call
  PROVE  /\ Creating' = Creating
         /\ Span' = Span /\ currentNumPolicies' = currentNumPolicies
         /\ \A t \in Tasks : IndexOf(t)' = IndexOf(t)
  BY DEF Creating, Span, currentNumPolicies, IndexOf

\* A call begins with no answer and with the policies it has listed.
LEMMA DeployPreserves ==
  ASSUME PolicyInv, PoolInv', NEW p \in Prefixes, NEW want \in 0..MaxTasks,
         Deploy(p, want)
  PROVE  PolicyInv'
<1> DEFINE n == Cardinality(policies[p])
<1>1. /\ n \in 0..MaxTasks
      /\ policies[p] \in SUBSET Tasks
      /\ policies \in [Prefixes -> SUBSET Tasks]
  BY CallFacts DEF PolicyInv, TypeOK
<1>2. /\ policies' = policies /\ verdict' = verdict /\ faulty' = faulty
      /\ call' = [prefix |-> p, want |-> want, listed |-> policies[p]]
      /\ main = "idle"
      /\ (want > n /\ Begin(want - n)) \/ (want < n /\ Begin(n - want))
  BY DEF Deploy
<1>3. TypeOK'
  BY <1>1, <1>2 DEF PolicyInv, PoolInv, TypeOK, Calls
<1>4. /\ currentNumPolicies' = n
      /\ Creating' <=> want > n
      /\ Here' = policies[p]
      /\ call'.listed = policies[p] /\ call'.want = want /\ call'.prefix = p
  BY <1>2 DEF currentNumPolicies, Creating, Here
<1>5. Answered' = {} /\ main' = "loop"
  BY <1>2 DEF Begin, Answered
<1>6. num' = IF Creating' THEN want - n ELSE n - want
  BY <1>1, <1>2, <1>4 DEF Begin
<1>7. Progress'
  BY <1>4, <1>5, <1>6 DEF Progress
<1>8. ASSUME ~faulty' PROVE Smooth'
  <2>1. \A q \in Prefixes : Dense(policies[q])
    BY <1>2, <1>8 DEF PolicyInv, Smooth
  <2>2. \A q \in Prefixes : Dense(policies'[q])
    BY <1>2, <2>1 DEF Dense
  <2>3. policies[p] = 0..n - 1
    BY <2>1 DEF Dense
  <2>4. \A t \in Tasks : t < num' => (IndexOf(t)' \in Here' <=> ~Creating')
    <3> SUFFICES ASSUME NEW t \in Tasks, t < num'
                 PROVE  IndexOf(t)' \in Here' <=> ~Creating'
      OBVIOUS
    <3> HIDE DEF n
    <3>1. IndexOf(t)' = IF Creating' THEN n + t ELSE n - 1 - t
      BY <1>4 DEF IndexOf, n
    <3>2. CASE Creating'
      <4>1. n + t \notin 0..n - 1
        BY <1>1 DEF Tasks
      <4> QED
        BY <3>1, <3>2, <4>1, <2>3, <1>4
    <3>3. CASE ~Creating'
      <4>1. n - 1 - t \in 0..n - 1
        BY <3>3, <1>1, <1>6 DEF Tasks
      <4> QED
        BY <3>1, <3>3, <4>1, <2>3, <1>4
    <3> QED
      BY <3>2, <3>3
  <2>5. Dense(call'.listed)
    BY <2>1, <1>4
  <2> QED
    BY <2>2, <2>4, <2>5, <1>5 DEF Smooth, Dense
<1> QED
  BY <1>3, <1>5, <1>7, <1>8 DEF PolicyInv, CountIsRightOnSuccess

\* Steps between two calls that leave the pool alone.
LEMMA IdleStepsPreserve ==
  ASSUME PolicyInv, PoolInv',
         \/ DeployFailsEarly
         \/ Cleanup
         \/ \E p \in Prefixes, want \in 0..MaxTasks : DeployNothing(p, want)
  PROVE  PolicyInv'
<1>1. main = "idle" /\ main' = "idle"
  BY DEF DeployFailsEarly, Cleanup, DeployNothing, poolVars
<1>2. PolicyInv /\ PoolTypeOK' /\ policies \in [Prefixes -> SUBSET Tasks]
  BY DEF PolicyInv, PoolInv, TypeOK
<1>3. CASE DeployFailsEarly
  <2>1. TypeOK'
    BY <1>2, <1>3 DEF DeployFailsEarly, PolicyInv, TypeOK, Answers
  <2>2. verdict' # NoError /\ faulty'
    BY <1>3 DEF DeployFailsEarly
  <2> QED
    BY <1>1, <2>1, <2>2 DEF PolicyInv, CountIsRightOnSuccess
<1>4. CASE Cleanup
  <2>1. PICK kept \in [Prefixes -> SUBSET Tasks] :
             /\ policies' = kept
             /\ faulty' = (faulty \/ \E p \in Prefixes : kept[p] # {})
    BY <1>4 DEF Cleanup
  <2>2. verdict' = "none" /\ call' = call
    BY <1>4 DEF Cleanup
  <2>3. TypeOK'
    BY <1>2, <2>1, <2>2 DEF PolicyInv, TypeOK
  <2>4. ASSUME ~faulty' PROVE Smooth'
    <3>1. \A p \in Prefixes : policies'[p] = {}
      BY <2>1, <2>4
    <3>2. Dense({})
      <4>1. Cardinality({}) = 0
        BY FS_EmptySet
      <4> QED
        BY <4>1 DEF Dense
    <3>3. \A p \in Prefixes : Dense(policies'[p])
      BY <3>1, <3>2
    <3> QED
      BY <1>1, <3>3 DEF Smooth, Dense
  <2>5. CountIsRightOnSuccess'
    BY <2>2 DEF CountIsRightOnSuccess, Answers
  <2> QED
    BY <1>1, <2>3, <2>4, <2>5 DEF PolicyInv
<1>5. ASSUME NEW p \in Prefixes, NEW want \in 0..MaxTasks, DeployNothing(p, want)
      PROVE  PolicyInv'
  <2>1. /\ policies' = policies /\ faulty' = faulty /\ verdict' = NoError
        /\ call' = [prefix |-> p, want |-> want, listed |-> policies[p]]
        /\ want = Cardinality(policies[p])
    BY <1>5 DEF DeployNothing
  <2>2. TypeOK'
    BY <1>2, <2>1 DEF PolicyInv, TypeOK, Calls, Answers
  <2>3. CountIsRightOnSuccess'
    BY <2>1 DEF CountIsRightOnSuccess
  <2>4. ASSUME ~faulty' PROVE Smooth'
    <3>1. \A q \in Prefixes : Dense(policies[q])
      BY <1>1, <2>1, <2>4 DEF PolicyInv, Smooth
    <3> QED
      BY <1>1, <2>1, <3>1 DEF Smooth, Dense
  <2> QED
    BY <1>1, <2>2, <2>3, <2>4 DEF PolicyInv
<1> QED
  BY <1>3, <1>4, <1>5

\* The pool's own steps change neither the policies nor the set of answers.
LEMMA PoolStepPreserves ==
  ASSUME PolicyInv, PoolInv', PoolStep
  PROVE  PolicyInv'
<1>1. /\ UNCHANGED <<policies, call, verdict, faulty>>
      /\ UNCHANGED <<num, errors>>
  BY DEF PoolStep, Dispatch, LoopExit, Release, Done
<1>2. Answered' = Answered
  BY AnsweredUnchanged DEF PoolStep, PolicyInv
<1>3. main # "idle" /\ main' # "idle"
  <2>1. main = "idle" => Unfinished = {}
    BY ZeroMeansAllDone DEF PolicyInv, PoolInv
  <2> QED
    BY <2>1 DEF PoolStep, Dispatch, LoopExit, Release, Done, Unfinished
<1>4. TypeOK'
  BY <1>1 DEF PolicyInv, TypeOK, PoolInv
<1>5. /\ Creating' = Creating /\ Span' = Span /\ Here' = Here
      /\ currentNumPolicies' = currentNumPolicies
      /\ \A t \in Tasks : IndexOf(t)' = IndexOf(t)
  BY <1>1, CallUnchanged DEF Here
<1>6. Answered \in SUBSET Tasks
  BY DEF Answered
<1>7. Progress'
  BY <1>1, <1>2, <1>3, <1>5, <1>6 DEF PolicyInv, Progress
<1>8. ASSUME ~faulty' PROVE Smooth'
  BY <1>1, <1>2, <1>3, <1>5, <1>6, <1>8 DEF PolicyInv, Smooth, Dense
<1> QED
  BY <1>3, <1>4, <1>7, <1>8 DEF PolicyInv, CountIsRightOnSuccess

\* When a bulk call ends without an error, all of Span has been created or deleted.
LEMMA SuccessMeansSpan ==
  ASSUME PolicyInv, main # "idle", Progress,
         \A t \in Tasks : t < num => t \in Answered /\ errors[t] = NoError
  PROVE  /\ Here = IF Creating THEN call.listed \cup Span ELSE call.listed \ Span
         /\ Creating => call.listed \cap Span = {}
         /\ ~Creating => Span \subseteq call.listed
<1>1. PoolInv /\ TypeOK
  BY DEF PolicyInv
<1>2. ASSUME NEW i \in Span
      PROVE  IF Creating THEN i \in Here \ call.listed ELSE i \in call.listed \ Here
  <2>1. PICK t \in Tasks : t < num /\ IndexOf(t) = i
    BY <1>1, SpanIsTheList
  <2> QED
    BY <2>1 DEF Progress
<1> QED
  BY <1>2 DEF Progress

\* At the return, a nil verdict means that all of Span was created or deleted.
LEMMA ReturnPreserves ==
  ASSUME PolicyInv, PoolInv', Return
  PROVE  PolicyInv'
<1>1. /\ main = "wait" /\ wg = 0 /\ main' = "idle"
      /\ UNCHANGED <<policies, call, faulty, num, errors, worker>>
      /\ verdict' = result' /\ result' = FirstError(errors, num)
  BY DEF Return, Join
<1>2. PoolInv /\ TypeOK /\ Progress /\ num \in 0..MaxTasks /\ errors \in [Tasks -> Answers]
  BY <1>1 DEF PolicyInv, PoolInv, PoolTypeOK
<1>3. TypeOK'
  BY <1>1, <1>2 DEF TypeOK, PoolInv, PoolTypeOK
<1>4. \A t \in Tasks : t < num => t \in Answered
  BY <1>1, <1>2, ZeroMeansAllDone DEF Answered
<1>5. /\ IsFiniteSet(call.listed) /\ Cardinality(call.listed) = currentNumPolicies
      /\ currentNumPolicies \in 0..MaxTasks /\ call.want \in 0..MaxTasks
      /\ Creating <=> call.want > currentNumPolicies
      /\ num = IF Creating THEN call.want - currentNumPolicies
                           ELSE currentNumPolicies - call.want
  BY <1>2, CallFacts DEF currentNumPolicies, Creating, Progress
<1>6. Here' = Here /\ policies'[call'.prefix] = Here /\ call'.want = call.want
  BY <1>1 DEF Here
<1>7. ASSUME \A t \in Tasks : t < num => errors[t] = NoError
      PROVE  Cardinality(Here) = call.want
  <2>1. /\ Here = IF Creating THEN call.listed \cup Span ELSE call.listed \ Span
        /\ Creating => call.listed \cap Span = {}
        /\ ~Creating => Span \subseteq call.listed
    BY <1>1, <1>2, <1>4, <1>7, SuccessMeansSpan
  <2>2. IsFiniteSet(Span) /\ Cardinality(Span) = num
    BY <1>2, SpanCardinality
  <2>3. CASE Creating
    <3>1. Cardinality(call.listed \cup Span)
            = currentNumPolicies + num - Cardinality(call.listed \cap Span)
      BY <1>5, <2>2, FS_Union
    <3>2. Cardinality(call.listed \cap Span) = 0
      BY <2>1, <2>3, FS_EmptySet
    <3> QED
      BY <1>5, <2>1, <2>3, <3>1, <3>2
  <2>4. CASE ~Creating
    <3>1. Cardinality(call.listed \ Span)
            = currentNumPolicies - Cardinality(call.listed \cap Span)
      BY <1>5, FS_Difference
    <3>2. call.listed \cap Span = Span
      BY <2>1, <2>4
    <3>3. Cardinality(call.listed \ Span) = currentNumPolicies - num
      BY <2>2, <3>1, <3>2
    <3>4. num = currentNumPolicies - call.want /\ Here = call.listed \ Span
      BY <1>5, <2>1, <2>4
    <3> QED
      BY <1>5, <3>3, <3>4
  <2> QED
    BY <2>3, <2>4
<1>8. CountIsRightOnSuccess'
  <2>1. ASSUME verdict' = NoError PROVE Cardinality(Here) = call.want
    <3>1. \A t \in Tasks : t < num => errors[t] = NoError
      BY <1>1, <1>2, <2>1, FirstErrorScans
    <3> QED
      BY <1>7, <3>1
  <2> QED
    BY <1>6, <2>1 DEF CountIsRightOnSuccess
<1>9. ASSUME ~faulty' PROVE Smooth'
  <2>1. Smooth
    BY <1>1, <1>9 DEF PolicyInv
  <2>2. \A t \in Tasks : t < num => t \in Answered /\ errors[t] = NoError
    BY <1>1, <1>4, <2>1 DEF Smooth
  <2>3. Cardinality(Here) = call.want
    BY <1>7, <2>2
  <2>4. Here = IF Creating THEN call.listed \cup Span ELSE call.listed \ Span
    BY <1>1, <1>2, <2>2, SuccessMeansSpan
  <2>5. call.listed = 0..currentNumPolicies - 1
    BY <1>1, <2>1 DEF Smooth, Dense, currentNumPolicies
  <2>6. Here = 0..call.want - 1
    <3>1. CASE Creating
      <4>1. (0..currentNumPolicies - 1) \cup (currentNumPolicies..call.want - 1)
              = 0..call.want - 1
        BY <1>5, <3>1
      <4> QED
        BY <2>4, <2>5, <3>1, <4>1 DEF Span
    <3>2. CASE ~Creating
      <4>1. (0..currentNumPolicies - 1) \ (call.want..currentNumPolicies - 1)
              = 0..call.want - 1
        BY <1>5, <3>2
      <4> QED
        BY <2>4, <2>5, <3>2, <4>1 DEF Span
    <3> QED
      BY <3>1, <3>2
  <2>7. Dense(Here)
    BY <2>3, <2>6 DEF Dense
  <2>8. \A p \in Prefixes : Dense(policies[p])
    BY <2>1, <2>7 DEF Smooth, Here
  <2> QED
    BY <1>1, <2>8 DEF Smooth, Dense
<1> QED
  BY <1>1, <1>3, <1>8, <1>9 DEF PolicyInv

\* An answer that stores (erases) at most the index of its own entry, and is nil only if
\* that entry was missing (there) before and is there (missing) now.
LEMMA AnswersPreserve ==
  ASSUME PolicyInv, PoolInv', NEW t \in Tasks, Succeeds(t) \/ Fails(t)
  PROVE  PolicyInv'
<1> DEFINE i == IndexOf(t)
           changed == IF Creating THEN Here \cup {i} ELSE Here \ {i}
<1>1. PICK a \in Answers : Answer(t, a)
  BY DEF Succeeds, Fails, Answers
<1>2. /\ UNCHANGED <<num, main, next, call, verdict>>
      /\ worker[t] = "calling" /\ t \notin Answered
      /\ errors' = [errors EXCEPT ![t] = a]
  BY <1>1 DEF Answer, Answered, Succeeds, Fails
<1>3. /\ PoolInv /\ TypeOK /\ policies \in [Prefixes -> SUBSET Tasks]
      /\ call.prefix \in Prefixes
      /\ errors \in [Tasks -> Answers] /\ worker \in [Tasks -> WorkerStates]
      /\ num \in 0..MaxTasks /\ next \in 0..num /\ t \in Nat
  <2>1. PoolInv /\ TypeOK
    BY DEF PolicyInv
  <2>2. policies \in [Prefixes -> SUBSET Tasks] /\ call.prefix \in Prefixes
    BY <2>1, CallFacts DEF TypeOK
  <2>3. /\ errors \in [Tasks -> Answers] /\ worker \in [Tasks -> WorkerStates]
        /\ num \in 0..MaxTasks /\ next \in 0..num
    BY <2>1 DEF PoolInv, PoolTypeOK
  <2>4. t \in Nat
    BY PoolAssumption DEF Tasks
  <2> QED
    BY <2>1, <2>2, <2>3, <2>4
<1>4. Answered' = Answered \cup {t} /\ Answered \in SUBSET Tasks
  BY <1>1, <1>3 DEF Answer, Answered
<1>5. t < num
  BY <1>2, <1>3 DEF PoolInv
<1>6. main # "idle"
  BY <1>2, <1>3, <1>5, ZeroMeansAllDone DEF PoolInv
<1>7. Progress
  BY <1>6 DEF PolicyInv
<1>8. /\ Creating' = Creating /\ Span' = Span /\ currentNumPolicies' = currentNumPolicies
      /\ \A u \in Tasks : IndexOf(u)' = IndexOf(u)
  BY <1>2, CallUnchanged
<1>9. /\ i \in Span /\ i \in Tasks
      /\ \A u \in Tasks : IndexOf(u) = i => u = t
      /\ \A u \in Tasks : u < num => IndexOf(u) \in Span
  BY <1>3, <1>5, <1>7, SpanIsTheList
<1>10. /\ policies' = policies
          \/ policies' = [policies EXCEPT ![call.prefix] = changed]
       /\ a = NoError => /\ policies' = [policies EXCEPT ![call.prefix] = changed]
                         /\ i \in Here <=> ~Creating
       /\ a # NoError => faulty' \/ (i \in Here <=> Creating)
       /\ faulty => faulty'
  <2>1. errors'[t] = a
    BY <1>2, <1>3
  <2>2. Failed # NoError /\ AlreadyExists # NoError /\ NotFound # NoError
    OBVIOUS
  <2>3. CASE Fails(t)
    <3>1. a = Failed /\ faulty'
      BY <1>3, <2>1, <2>3 DEF Fails, Answer
    <3>2. policies' = policies \/ policies' = [policies EXCEPT ![call.prefix] = changed]
      BY <2>3 DEF Fails, Store, Erase, Here
    <3> QED
      BY <2>2, <3>1, <3>2
  <2>4. CASE Succeeds(t)
    <3>1. faulty' = faulty
      BY <2>4 DEF Succeeds
    <3>2. CASE i \in Here <=> Creating
      <4>1. a # NoError /\ policies' = policies
        BY <1>3, <2>1, <2>2, <2>4, <3>2 DEF Succeeds, Answer, Here
      <4> QED
        BY <3>1, <3>2, <4>1
    <3>3. CASE ~(i \in Here <=> Creating)
      <4>1. a = NoError /\ policies' = [policies EXCEPT ![call.prefix] = changed]
        BY <1>3, <2>1, <2>4, <3>3 DEF Succeeds, Answer, Here, Store, Erase
      <4> QED
        BY <3>1, <3>3, <4>1
    <3> QED
      BY <3>2, <3>3
  <2> QED
    BY <2>3, <2>4
<1> HIDE DEF i
<1>11. /\ Here' = Here \/ Here' = changed
       /\ a = NoError => Here' = changed
       /\ \A p \in Prefixes : p # call.prefix => policies'[p] = policies[p]
  BY <1>2, <1>3, <1>10 DEF Here
<1>12. TypeOK'
  <2>1. changed \in SUBSET Tasks
    BY <1>3, <1>9 DEF Here
  <2>2. policies' \in [Prefixes -> SUBSET Tasks]
    BY <1>3, <1>10, <2>1
  <2>3. faulty' \in BOOLEAN
    BY <1>3 DEF Succeeds, Fails, TypeOK
  <2> QED
    BY <1>2, <1>3, <2>2, <2>3 DEF TypeOK, PoolInv
<1>13. /\ \A u \in Tasks : u # t => errors'[u] = errors[u]
       /\ errors'[t] = a
  BY <1>2, <1>3
<1>14. Progress'
  <2>1. /\ call'.listed = call.listed /\ call'.want = call.want
        /\ num' = IF Creating' THEN call'.want - currentNumPolicies'
                               ELSE currentNumPolicies' - call'.want
    BY <1>2, <1>7, <1>8 DEF Progress
  <2>2. IF Creating THEN call.listed \subseteq Here' /\ Here' \subseteq call.listed \cup Span
                    ELSE call.listed \ Span \subseteq Here' /\ Here' \subseteq call.listed
    BY <1>7, <1>9, <1>11 DEF Progress
  <2>3. ASSUME NEW u \in Answered, errors'[u] = NoError, u # t
        PROVE  IF Creating THEN IndexOf(u) \in Here' \ call.listed
                           ELSE IndexOf(u) \in call.listed \ Here'
    <3>1. u \in Tasks /\ errors[u] = NoError /\ IndexOf(u) # i
      BY <1>4, <1>9, <1>13, <2>3
    <3> QED
      BY <1>7, <1>11, <2>3, <3>1 DEF Progress
  <2>4. ASSUME a = NoError
        PROVE  IF Creating THEN i \in Here' \ call.listed ELSE i \in call.listed \ Here'
    BY <1>7, <1>10, <1>11, <2>4 DEF Progress
  <2>5. ASSUME NEW u \in Answered', errors'[u] = NoError
        PROVE  IF Creating THEN IndexOf(u) \in Here' \ call.listed
                           ELSE IndexOf(u) \in call.listed \ Here'
    <3>1. CASE u = t
      BY <1>13, <2>4, <2>5, <3>1 DEF i
    <3>2. CASE u # t
      BY <1>4, <2>3, <2>5, <3>2
    <3> QED
      BY <3>1, <3>2
  <2>6. \A u \in Answered' : u \in Tasks
    BY <1>4
  <2> QED
    BY <1>8, <2>1, <2>2, <2>5, <2>6 DEF Progress
<1>15. ASSUME ~faulty' PROVE Smooth'
  <2>1. Smooth
    BY <1>10, <1>15 DEF PolicyInv
  <2>2. a = NoError /\ Here' = changed
    <3>1. i \in Here <=> ~Creating
      BY <1>2, <1>5, <1>6, <2>1 DEF Smooth, i
    <3> QED
      BY <1>10, <1>11, <1>15, <3>1
  <2>3. Dense(call'.listed)
    BY <1>2, <1>6, <2>1 DEF Smooth
  <2>4. \A u \in Answered' : errors'[u] = NoError
    BY <1>4, <1>6, <1>13, <2>1, <2>2 DEF Smooth
  <2>5. ASSUME NEW u \in Tasks, u < num, u \notin Answered'
        PROVE  IndexOf(u) \in Here' <=> ~Creating
    <3>1. u \notin Answered /\ IndexOf(u) # i
      BY <1>4, <1>9, <2>5
    <3>2. IndexOf(u) \in Here <=> ~Creating
      BY <1>6, <2>1, <2>5, <3>1 DEF Smooth
    <3> QED
      BY <2>2, <3>1, <3>2
  <2>6. ASSUME NEW p \in Prefixes, p # call.prefix PROVE Dense(policies'[p])
    BY <1>6, <1>11, <2>1, <2>6 DEF Smooth
  <2> QED
    BY <1>2, <1>6, <1>8, <2>3, <2>4, <2>5, <2>6 DEF Smooth, Dense
<1> QED
  BY <1>2, <1>6, <1>12, <1>14, <1>15 DEF PolicyInv, CountIsRightOnSuccess

\* A stuttering step.
LEMMA StutterPreserves == PolicyInv /\ UNCHANGED vars => PolicyInv'
<1> SUFFICES ASSUME PolicyInv, UNCHANGED vars PROVE PolicyInv'
  OBVIOUS
<1>1. PoolInv'
  BY StutterPreservesPoolInv DEF PolicyInv, vars
<1>2. /\ UNCHANGED <<policies, call, verdict, faulty, num, main, errors>>
      /\ Answered' = Answered
  BY DEF vars, poolVars, Answered
<1>3. /\ Creating' = Creating /\ Span' = Span /\ currentNumPolicies' = currentNumPolicies
      /\ \A t \in Tasks : IndexOf(t)' = IndexOf(t)
      /\ Here' = Here /\ Answered \in SUBSET Tasks
  BY <1>2, CallUnchanged DEF Here, Answered
<1>4. TypeOK'
  BY <1>1, <1>2 DEF PolicyInv, TypeOK, PoolInv
<1>5. main # "idle" => Progress'
  BY <1>2, <1>3 DEF PolicyInv, Progress
<1>6. ~faulty => Smooth'
  BY <1>2, <1>3 DEF PolicyInv, Smooth, Dense
<1> QED
  BY <1>1, <1>2, <1>4, <1>5, <1>6 DEF PolicyInv, CountIsRightOnSuccess

\* A cluster without policies satisfies the invariant.
LEMMA InitEstablishes == Init => PolicyInv
<1> SUFFICES ASSUME Init PROVE PolicyInv
  OBVIOUS
<1>1. PoolInv /\ main = "idle"
  BY InitEstablishesPoolInv DEF Init, PoolInit
<1>2. TypeOK
  <2>1. call \in Calls
    <3>1. 0 \in 0..MaxTasks /\ {} \in SUBSET Tasks
      OBVIOUS
    <3> QED
      BY <3>1 DEF Init, Calls
  <2>2. policies \in [Prefixes -> SUBSET Tasks]
    BY DEF Init
  <2> QED
    BY <1>1, <2>1, <2>2 DEF Init, TypeOK, PoolInv
<1>3. Dense({})
  <2>1. Cardinality({}) = 0
    BY FS_EmptySet
  <2> QED
    BY <2>1 DEF Dense
<1>4. Smooth
  BY <1>1, <1>3 DEF Init, Smooth, Dense
<1> QED
  BY <1>1, <1>2, <1>4 DEF Init, PolicyInv, CountIsRightOnSuccess, Answers

\* The invariant holds in every reachable state.
LEMMA PolicyInvHolds == Spec => []PolicyInv
<1>1. ASSUME PolicyInv, [Next]_vars PROVE PolicyInv'
  <2>1. PoolInv'
    BY <1>1, StepsOfThePool DEF PolicyInv
  <2>2. CASE DeployFailsEarly \/ Cleanup
    BY <1>1, <2>1, <2>2, IdleStepsPreserve
  <2>3. ASSUME NEW p \in Prefixes, NEW want \in 0..MaxTasks,
               Deploy(p, want) \/ DeployNothing(p, want)
        PROVE  PolicyInv'
    BY <1>1, <2>1, <2>3, DeployPreserves, IdleStepsPreserve
  <2>4. ASSUME NEW t \in Tasks, Succeeds(t) \/ Fails(t) PROVE PolicyInv'
    BY <1>1, <2>1, <2>4, AnswersPreserve
  <2>5. CASE Return
    BY <1>1, <2>1, <2>5, ReturnPreserves
  <2>6. CASE PoolStep
    BY <1>1, <2>1, <2>6, PoolStepPreserves
  <2>7. CASE UNCHANGED vars
    BY <1>1, <2>7, StutterPreserves
  <2> QED
    BY <1>1, <2>2, <2>3, <2>4, <2>5, <2>6, <2>7 DEF Next
<1> QED
  BY <1>1, InitEstablishes, PTL DEF Spec

-----------------------------------------------------------------------------
(* What the invariant gives.                                               *)

\* Every variable keeps its type, for every bound.
THEOREM PoliciesTypeCorrect == Spec => []TypeOK
<1>1. PolicyInv => TypeOK
  BY DEF PolicyInv
<1> QED
  BY <1>1, PolicyInvHolds, PTL

\* When DeployPolicies returns nil, there are as many policies of the prefix as asked for.
THEOREM CountIsRight == Spec => []CountIsRightOnSuccess
<1>1. PolicyInv => CountIsRightOnSuccess
  BY DEF PolicyInv
<1> QED
  BY <1>1, PolicyInvHolds, PTL

\* While no call has failed, the indexes in use between two calls have no gap.
THEOREM NoGapsWithoutFaults == Spec => []DenseWithoutFaults
<1>1. PolicyInv => DenseWithoutFaults
  BY DEF PolicyInv, DenseWithoutFaults, Smooth
<1> QED
  BY <1>1, PolicyInvHolds, PTL

\* No interleaving of the workers and no lost answer deletes or creates past the number.
THEOREM BulkNeverOvershoots == Spec => []NeverOvershoots
<1>1. ASSUME PolicyInv PROVE NeverOvershoots
  <2>1. main # "idle" => PoolInv /\ TypeOK /\ Progress
    BY <1>1 DEF PolicyInv
  <2> QED
    BY <2>1, ProgressBoundsTheCount DEF NeverOvershoots, Here
<1> QED
  BY <1>1, PolicyInvHolds, PTL

\* The guarantees of the pool hold inside this module too.
THEOREM PoliciesUseThePool == Spec => [](CallsAreBounded /\ NothingOutlivesTheCall)
<1>1. PolicyInv => CallsAreBounded /\ NothingOutlivesTheCall
  BY ZeroMeansAllDone
  DEF PolicyInv, PoolInv, PoolTypeOK, CallsAreBounded, NothingOutlivesTheCall
<1> QED
  BY <1>1, PolicyInvHolds, PTL

=============================================================================
