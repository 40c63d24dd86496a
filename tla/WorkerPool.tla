----------------------------- MODULE WorkerPool -----------------------------
(***************************************************************************)
(* The bounded goroutine fan-out of tiger-bench.  BulkCreatePolicies and   *)
(* BulkDeletePolicies (pkg/policy/policy.go) and the service loop of       *)
(* SetupStandingConfig (pkg/cluster/cluster.go) are the same code around   *)
(* another API call: a buffered channel used as a semaphore, a WaitGroup,  *)
(* one goroutine per entry of a list, a slice with one error slot per      *)
(* entry, and a scan that returns the first error of the slice.            *)
(*                                                                         *)
(* The main goroutine and the workers interleave at their operations on    *)
(* the channel, the WaitGroup and the slice.  The actions take the answer  *)
(* of the API call as a parameter, so a module that knows what the calls   *)
(* do to the cluster conjoins its own effect (see Policies).               *)
(***************************************************************************)
EXTENDS Integers, FiniteSets

CONSTANTS
  MaxTasks,    (* the longest list of calls that is submitted              *)
  NumThreads,  (* capacity of the channel `sem`                            *)
  Errors,      (* the errors an API call may answer with                   *)
  NoError      (* nil                                                      *)

ASSUME PoolAssumption ==
  /\ MaxTasks \in Nat
  /\ NumThreads \in Nat \ {0}
  /\ NoError \notin Errors

Tasks == 0..MaxTasks - 1     \* indexes of the slice `errors`

Answers == Errors \cup {NoError}

VARIABLES
  num,      (* length of the list of the call in progress                  *)
  main,     (* the calling goroutine: "idle", "loop" or "wait"             *)
  next,     (* index of the list the loop dispatches next                  *)
  sem,      (* number of elements in the channel `sem`                     *)
  wg,       (* counter of the WaitGroup                                    *)
  worker,   (* per index, where its goroutine is                           *)
  errors,   (* the slice of errors; only its first num entries exist       *)
  result    (* overallError of the last call that returned                 *)

poolVars == <<num, main, next, sem, wg, worker, errors, result>>

WorkerStates ==
  {"unborn",     \* the loop has not reached the index
   "calling",    \* the goroutine is in its API call
   "answered",   \* errors[i] is written, the deferred functions are to run
   "released",   \* the deferred receive from `sem` has run
   "done"}       \* the deferred wg.Done() has run

-----------------------------------------------------------------------------
(* The calling goroutine.                                                  *)

PoolInit ==
  /\ num = 0
  /\ main = "idle"
  /\ next = 0
  /\ sem = 0
  /\ wg = 0
  /\ worker = [t \in Tasks |-> "unborn"]
  /\ errors = [t \in Tasks |-> NoError]
  /\ result = NoError

\* The function is entered with a list of n calls: new WaitGroup, channel and slice.
Begin(n) ==
  /\ main = "idle"
  /\ main' = "loop"
  /\ num' = n
  /\ next' = 0
  /\ sem' = 0
  /\ wg' = 0
  /\ worker' = [t \in Tasks |-> "unborn"]
  /\ errors' = [t \in Tasks |-> NoError]
  /\ result' = NoError

\* Mutant of Dispatch: the loop does not send on the channel before the go statement.
DispatchUnbounded ==
  /\ main = "loop"
  /\ next < num
  /\ sem' = sem + 1
  /\ wg' = wg + 1
  /\ worker' = [worker EXCEPT ![next] = "calling"]
  /\ next' = next + 1
  /\ UNCHANGED <<num, main, errors, result>>

\* One round of the loop: `sem <- struct{}{}` blocks while the channel is full; then
\* wg.Add(1) and the go statement, neither of which can block.
Dispatch ==
  /\ main = "loop"
  /\ next < num
  /\ sem < NumThreads
  /\ sem' = sem + 1
  /\ wg' = wg + 1
  /\ worker' = [worker EXCEPT ![next] = "calling"]
  /\ next' = next + 1
  /\ UNCHANGED <<num, main, errors, result>>

LoopExit ==
  /\ main = "loop"
  /\ next = num
  /\ main' = "wait"
  /\ UNCHANGED <<num, next, sem, wg, worker, errors, result>>

\* Mutant of FirstError: the scan does not break at the first error.
LastError(errs, n) ==
  LET failed == {t \in 0..n - 1 : errs[t] # NoError}
  IN  IF failed = {} THEN NoError
      ELSE errs[CHOOSE t \in failed : \A u \in failed : u <= t]

\* The first non-nil entry of the slice, nil when there is none.
FirstError(errs, n) ==
  LET failed == {t \in 0..n - 1 : errs[t] # NoError}
  IN  IF failed = {} THEN NoError
      ELSE errs[CHOOSE t \in failed : \A u \in failed : t <= u]

\* Mutant of Join: the slice is scanned without wg.Wait().
JoinWithoutWait ==
  /\ main = "wait"
  /\ result' = FirstError(errors, num)
  /\ main' = "idle"
  /\ UNCHANGED <<num, next, sem, wg, worker, errors>>

\* wg.Wait() returns once the counter is zero; the scan of the slice follows.
Join ==
  /\ main = "wait"
  /\ wg = 0
  /\ result' = FirstError(errors, num)
  /\ main' = "idle"
  /\ UNCHANGED <<num, next, sem, wg, worker, errors>>

-----------------------------------------------------------------------------
(* The goroutine of index t.                                               *)

Answer(t, a) ==
  /\ worker[t] = "calling"
  /\ worker' = [worker EXCEPT ![t] = "answered"]
  /\ errors' = [errors EXCEPT ![t] = a]
  /\ UNCHANGED <<num, main, next, sem, wg, result>>

\* Mutant of Release: the goroutine does not receive from the channel.
ReleaseNothing(t) ==
  /\ worker[t] = "answered"
  /\ worker' = [worker EXCEPT ![t] = "released"]
  /\ UNCHANGED <<num, main, next, sem, wg, errors, result>>

\* Deferred functions run last in, first out: `<-sem` before wg.Done().
Release(t) ==
  /\ worker[t] = "answered"
  /\ sem > 0
  /\ sem' = sem - 1
  /\ worker' = [worker EXCEPT ![t] = "released"]
  /\ UNCHANGED <<num, main, next, wg, errors, result>>

\* Mutant of Done: it runs when the answer is there, and once more at the end.
DoneTwice(t) ==
  /\ worker[t] \in {"answered", "released"}
  /\ wg' = wg - 1
  /\ worker' = [worker EXCEPT ![t] = IF @ = "answered" THEN "released" ELSE "done"]
  /\ UNCHANGED <<num, main, next, sem, errors, result>>

Done(t) ==
  /\ worker[t] = "released"
  /\ wg' = wg - 1
  /\ worker' = [worker EXCEPT ![t] = "done"]
  /\ UNCHANGED <<num, main, next, sem, errors, result>>

\* A step that neither enters the function nor answers an API call.
Internal ==
  \/ Dispatch
  \/ LoopExit
  \/ Join
  \/ \E t \in Tasks : Release(t) \/ Done(t)

PoolNext ==
  \/ \E n \in 0..MaxTasks : Begin(n)
  \/ \E t \in Tasks, a \in Answers : Answer(t, a)
  \/ Internal

\* The scheduler runs every goroutine that can take a step, and every API call is
\* answered: it carries a deadline, or the client's own.  Nobody has to call Begin.
PoolFairness ==
  /\ WF_poolVars(Dispatch)
  /\ WF_poolVars(LoopExit)
  /\ WF_poolVars(Join)
  /\ \A t \in Tasks :
       /\ WF_poolVars(\E a \in Answers : Answer(t, a))
       /\ WF_poolVars(Release(t))
       /\ WF_poolVars(Done(t))

PoolSpec == PoolInit /\ [][PoolNext]_poolVars /\ PoolFairness

-----------------------------------------------------------------------------
PoolTypeOK ==
  /\ num \in 0..MaxTasks
  /\ main \in {"idle", "loop", "wait"}
  /\ next \in 0..num
  /\ sem \in 0..NumThreads
  /\ wg \in 0..MaxTasks
  /\ worker \in [Tasks -> WorkerStates]
  /\ errors \in [Tasks -> Answers]
  /\ result \in Answers

InFlight == {t \in Tasks : worker[t] \in {"calling", "answered"}}

Unfinished == {t \in Tasks : worker[t] \in {"calling", "answered", "released"}}

\* The channel holds one element per goroutine between its dispatch and its release, so at
\* most numThreads API calls are outstanding, whatever the order in which goroutines end.
CallsAreBounded ==
  /\ Cardinality(InFlight) = sem
  /\ Cardinality(InFlight) <= NumThreads

\* wg.Wait() is a barrier: whenever the function is not running, no goroutine of its last
\* call is alive, so none can still change the cluster behind the caller's back, and every
\* entry of the list has had its call.
NothingOutlivesTheCall ==
  main = "idle" =>
    /\ Unfinished = {}
    /\ \A t \in Tasks : t < num => worker[t] = "done"

\* The caller is told nil exactly when every entry of the list was answered nil, and else
\* the error of the lowest failed index, however the answers were ordered in time.
ReportsTheFirstFailure ==
  main = "idle" =>
    /\ result = NoError <=> \A t \in Tasks : t < num => errors[t] = NoError
    /\ result # NoError =>
         \E t \in Tasks : /\ t < num
                          /\ errors[t] = result
                          /\ \A u \in Tasks : u < t => errors[u] = NoError

\* The inductive invariant behind the three properties above: the loop has born exactly the
\* goroutines below `next`, `sem` and the WaitGroup count the goroutines that still owe
\* them a receive and a Done, and unwritten entries of the slice are nil.
PoolInv ==
  /\ PoolTypeOK
  /\ \A t \in Tasks : worker[t] = "unborn" <=> t >= next
  /\ \A t \in Tasks : worker[t] \in {"unborn", "calling"} => errors[t] = NoError
  /\ main # "loop" => next = num
  /\ sem = Cardinality(InFlight)
  /\ wg = Cardinality(Unfinished)
  /\ main = "idle" => wg = 0 /\ result = FirstError(errors, num)

\* Every call of the function returns: the loop cannot block for ever on a full channel
\* nor Wait on a counter that never reaches zero.
EveryCallReturns == (main # "idle") ~> (main = "idle")

-----------------------------------------------------------------------------
(* The pool implements BulkCall.  A slot is answered as soon as its        *)
(* goroutine has written errors[t].                                        *)

Answered == {t \in Tasks : worker[t] \notin {"unborn", "calling"}}

slotAnswers == [t \in Answered |-> errors[t]]

Bulk == INSTANCE BulkCall WITH
          count <- num, open <- main # "idle", answer <- slotAnswers, outcome <- result

\* Callers may reason with BulkCall alone: each pool step is a step of it or invisible.
ImplementsBulkCall == Bulk!Spec

=============================================================================
