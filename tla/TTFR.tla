-------------------------------- MODULE TTFR --------------------------------
(***************************************************************************)
(* RunTTFRTest of pkg/ttfr/ttfr.go, run once per iteration: a loop starts  *)
(* one goroutine per test pod at a given rate, a channel limits how many   *)
(* are at work, and each goroutine creates its pod, reads the time to its  *)
(* first response from the log, and deletes the pod.                       *)
(*                                                                         *)
(* The goroutines share the slices ttfrs and errors and the variable err   *)
(* of the function without a lock.  An append is a load of the slice       *)
(* followed by a store of the longer one; a call that answers into err and *)
(* the test of err are two steps.  The outcomes of the races are those of  *)
(* interleaved loads and stores of whole slice headers.                    *)
(***************************************************************************)
EXTENDS Naturals, Sequences, FiniteSets

CONSTANTS
  MaxNodes,     (* bound: nodes with the test label                        *)
  PodsPerNode,  (* TestPodsPerNode; with 0 the loop has no body and spins  *)
  MaxPods,      (* bound: pods started before the time is up in the first  *)
                (* iteration, one fewer in each later one                  *)
  MaxRounds,    (* Iterations of the test config                           *)
  MaxFaults     (* bound: calls that fail                                  *)

ASSUME TTFRAssumption ==
  /\ {MaxNodes, PodsPerNode, MaxPods} \subseteq Nat \ {0}
  /\ MaxRounds \in 0..MaxPods /\ MaxFaults \in Nat

Pods == 1..MaxPods        \* the n-th pod started has the same name in every round

\* The time measured for a pod is represented by its number; a time that could not be
\* measured, 99999 in the code, as one that no pod has.
Sentinel == 0

VARIABLES
  nodes,     (* number of nodes with the test label                     *)
  pc,        (* the calling goroutine                                      *)
  round,     (* iterations begun                                           *)
  started,   (* pods started in this iteration                             *)
  sem,       (* number of elements in the channel                          *)
  at,        (* per pod, where its goroutine is                            *)
  time,      (* per pod, what its goroutine will append to ttfrs           *)
  own,       (* per pod, its own error; "shared": the variable err is used *)
  oldTTFRs, oldErrors,  (* per pod, the slices its appends have loaded     *)
  newError,  (* per pod, the error it will append                          *)
  err,       (* the shared variable: whether it holds an error             *)
  ttfrs, errors,  (* the shared slices                                     *)
  measured,  (* the pods whose time was read, in this iteration            *)
  results,   (* ttfrResults.TTFR of the last iteration                     *)
  pods,      (* per pod name: "absent", "up" or "terminating"              *)
  undeleted, (* the pods whose deferred delete failed                      *)
  faults     (* calls that failed so far                                   *)

caller == <<nodes, pc, round, started, results>>
old == <<oldTTFRs, oldErrors, newError>>
goroutine == <<at, time, own, old>>
shared == <<err, ttfrs, errors>>
vars == <<caller, sem, goroutine, shared, measured, pods, undeleted, faults>>

numThreads == nodes * PodsPerNode

MostPods == MaxPods + 1 - round

\* The function returns, and its variables with it.
Fresh ==
  /\ at' = [p \in Pods |-> "unborn"]
  /\ time' = [p \in Pods |-> Sentinel]
  /\ own' = [p \in Pods |-> "shared"]
  /\ oldTTFRs' = [p \in Pods |-> <<>>]
  /\ oldErrors' = [p \in Pods |-> <<>>]
  /\ newError' = [p \in Pods |-> FALSE]
  /\ ttfrs' = <<>>
  /\ errors' = <<>>
  /\ err' = FALSE

Init ==
  /\ nodes \in 1..MaxNodes
  /\ pc = "idle"
  /\ round = 0
  /\ started = 0
  /\ sem = 0
  /\ at = [p \in Pods |-> "unborn"]
  /\ time = [p \in Pods |-> Sentinel]
  /\ own = [p \in Pods |-> "shared"]
  /\ oldTTFRs = [p \in Pods |-> <<>>]
  /\ oldErrors = [p \in Pods |-> <<>>]
  /\ newError = [p \in Pods |-> FALSE]
  /\ err = FALSE
  /\ ttfrs = <<>>
  /\ errors = <<>>
  /\ measured = {}
  /\ results = <<>>
  /\ pods = [p \in Pods |-> "absent"]
  /\ undeleted = {}
  /\ faults = 0

Fault == faults < MaxFaults /\ faults' = faults + 1

-----------------------------------------------------------------------------
(* The calling goroutine.                                                  *)

\* The server pods are up; new slices, WaitGroup, channel and err (see Fresh).
BeginRound ==
  /\ pc = "idle"
  /\ round < MaxRounds
  /\ round' = round + 1
  /\ pc' = "loop"
  /\ started' = 0
  /\ sem' = 0
  /\ results' = <<>>
  /\ measured' = {}
  /\ UNCHANGED <<nodes, goroutine, shared, pods, faults, undeleted>>

\* The nodes cannot be listed or a server pod does not come up: no test pod is started.
FailEarly ==
  /\ pc = "idle"
  /\ round < MaxRounds
  /\ Fault
  /\ round' = round + 1
  /\ results' = <<>>
  /\ measured' = {}
  /\ UNCHANGED <<nodes, pc, started, sem, goroutine, shared, pods, undeleted>>

\* Mutant of StartPod: the loop does not wait for a permit.
StartPodUnlimited ==
  /\ pc = "loop"
  /\ started < MostPods
  /\ started' = started + 1
  /\ at' = [at EXCEPT ![started'] = "create"]
  /\ pc' \in IF started' = MostPods THEN {"wait"} ELSE {"loop", "wait"}
  /\ UNCHANGED <<nodes, round, results, sem, time, own, old, shared, measured, pods, faults, undeleted>>

\* The body of the innermost loop; the time is only looked at after a pod was started.
StartPod ==
  /\ pc = "loop"
  /\ started < MostPods
  /\ sem < numThreads
  /\ sem' = sem + 1
  /\ started' = started + 1
  /\ at' = [at EXCEPT ![started'] = "create"]
  /\ pc' \in IF started' = MostPods THEN {"wait"} ELSE {"loop", "wait"}
  /\ UNCHANGED <<nodes, round, results, time, own, old, shared, measured, pods, faults, undeleted>>

\* The loop over the errors: the results after the first k of them.
Copied(es, ts) ==
  LET after[k \in 0..Len(es)] ==
        IF k = 0 THEN <<>>
        ELSE IF es[k] THEN after[k - 1] ELSE Append(after[k - 1], ts[k])
  IN  after[Len(es)]

\* wg.Wait(), then the times whose error is nil are copied; reading a time that is not
\* there is an index out of range.
Collect ==
  /\ pc = "wait"
  /\ \A p \in Pods : at[p] \in {"unborn", "done"}
  /\ IF \A k \in DOMAIN errors : ~errors[k] => k \in DOMAIN ttfrs
     THEN /\ pc' = "idle"
          /\ results' = Copied(errors, ttfrs)
     ELSE /\ pc' = "panic"
          /\ UNCHANGED results
  /\ Fresh
  /\ UNCHANGED <<nodes, round, started, sem, measured, pods, faults, undeleted>>

-----------------------------------------------------------------------------
(* The goroutine of pod p.                                                 *)

Goto(p, label) == at' = [at EXCEPT ![p] = label]

\* The API server accepts a delete: the pod ends later.
Deleted(p) == [pods EXCEPT ![p] = IF @ = "up" THEN "terminating" ELSE @]

CreatePod(p) ==
  /\ at[p] = "create"
  /\ Goto(p, "created")
  /\ \/ /\ pods[p] = "absent"
        /\ pods' = [pods EXCEPT ![p] = "up"]
        /\ err' = FALSE
        /\ UNCHANGED faults
     \/ /\ pods[p] # "absent"        \* one of that name is still there
        /\ err' = TRUE
        /\ UNCHANGED <<pods, faults>>
     \/ /\ Fault                    \* the API server may have created it
        /\ err' = TRUE
        /\ pods' \in {pods, [pods EXCEPT ![p] = IF @ = "absent" THEN "up" ELSE @]}
  /\ UNCHANGED <<caller, sem, time, own, old, ttfrs, errors, measured, undeleted>>

WaitForTestPods(p) ==
  /\ at[p] = "await"
  /\ Goto(p, "awaited")
  /\ \/ pods[p] # "absent" /\ err' = FALSE /\ UNCHANGED faults
     \/ err' = TRUE /\ ((pods[p] = "absent" /\ UNCHANGED faults) \/ Fault)
  /\ UNCHANGED <<caller, sem, time, own, old, ttfrs, errors, measured, pods, undeleted>>

\* The test of err after either call, whoever has written it last.
CheckErr(p) ==
  /\ at[p] \in {"created", "awaited"}
  /\ Goto(p, IF err THEN "load ttfrs" ELSE IF at[p] = "created" THEN "await" ELSE "read")
  /\ UNCHANGED <<caller, sem, time, own, old, shared, measured, pods, faults, undeleted>>

\* getPodTTFR reads the log until it has a result, and deletes the pod; one that is being
\* deleted is still in phase Running.  Its error is a variable of the goroutine's own.
GetPodTTFR(p) ==
  /\ at[p] = "read"
  /\ Goto(p, "load ttfrs")
  /\ \/ /\ pods[p] # "absent"
        /\ pods' = [pods EXCEPT ![p] = "terminating"]
        /\ time' = [time EXCEPT ![p] = p]
        /\ own' = [own EXCEPT ![p] = "nil"]
        /\ measured' = measured \cup {p}
        /\ UNCHANGED faults
     \/ /\ (pods[p] = "absent" /\ UNCHANGED faults) \/ Fault
        /\ own' = [own EXCEPT ![p] = "error"]
        /\ pods' \in {pods, Deleted(p)}
        /\ UNCHANGED <<time, measured>>
  /\ UNCHANGED <<caller, sem, old, shared, undeleted>>

LoadTTFRs(p) ==
  /\ at[p] = "load ttfrs"
  /\ Goto(p, "store ttfrs")
  /\ oldTTFRs' = [oldTTFRs EXCEPT ![p] = ttfrs]
  /\ UNCHANGED <<caller, sem, time, own, oldErrors, newError, shared, measured, pods,
                 faults, undeleted>>

StoreTTFRs(p) ==
  /\ at[p] = "store ttfrs"
  /\ Goto(p, "load errors")
  /\ ttfrs' = Append(oldTTFRs[p], time[p])
  /\ oldTTFRs' = [oldTTFRs EXCEPT ![p] = <<>>]
  /\ time' = [time EXCEPT ![p] = Sentinel]
  /\ UNCHANGED <<caller, sem, own, oldErrors, newError, err, errors, measured, pods, faults,
                 undeleted>>

\* Mutant of LoadErrors: the errors of the first two calls are forgotten.
LoadOwnErrors(p) ==
  /\ at[p] = "load errors"
  /\ Goto(p, "store errors")
  /\ oldErrors' = [oldErrors EXCEPT ![p] = errors]
  /\ newError' = [newError EXCEPT ![p] = own[p] = "error"]
  /\ UNCHANGED <<caller, sem, time, own, oldTTFRs, shared, measured, pods, faults, undeleted>>

LoadErrors(p) ==
  /\ at[p] = "load errors"
  /\ Goto(p, "store errors")
  /\ oldErrors' = [oldErrors EXCEPT ![p] = errors]
  /\ newError' = [newError EXCEPT ![p] = IF own[p] = "shared" THEN err ELSE own[p] = "error"]
  /\ UNCHANGED <<caller, sem, time, own, oldTTFRs, shared, measured, pods, faults, undeleted>>

\* Mutant of StoreErrors: only failures are appended.
StoreFailures(p) ==
  /\ at[p] = "store errors"
  /\ Goto(p, "delete")
  /\ errors' = IF newError[p] THEN Append(oldErrors[p], TRUE) ELSE errors
  /\ UNCHANGED <<caller, sem, time, own, old, err, ttfrs, measured, pods, faults, undeleted>>

StoreErrors(p) ==
  /\ at[p] = "store errors"
  /\ Goto(p, "delete")
  /\ errors' = Append(oldErrors[p], newError[p])
  /\ oldErrors' = [oldErrors EXCEPT ![p] = <<>>]
  /\ newError' = [newError EXCEPT ![p] = FALSE]
  /\ UNCHANGED <<caller, sem, time, own, oldTTFRs, err, ttfrs, measured, pods, faults,
                 undeleted>>

\* Mutant of DeletePod: not deferred, so it is skipped after an error of the first calls.
DeleteMeasuredPod(p) ==
  /\ at[p] = "delete"
  /\ Goto(p, "release")
  /\ pods' = IF own[p] = "shared" THEN pods ELSE Deleted(p)
  /\ UNCHANGED <<caller, sem, time, own, old, shared, measured, faults, undeleted>>

\* The first deferred function: its error is ignored, and it does not wait.
DeletePod(p) ==
  /\ at[p] = "delete"
  /\ Goto(p, "release")
  /\ \/ /\ pods' = Deleted(p)
        /\ undeleted' = undeleted \ {p}
        /\ UNCHANGED faults
     \/ Fault /\ undeleted' = undeleted \cup {p} /\ pods' \in {pods, Deleted(p)}
  /\ UNCHANGED <<caller, sem, time, own, old, shared, measured>>

\* Mutant of Release: the permit is not given back.
ReleaseNothing(p) ==
  /\ at[p] = "release"
  /\ Goto(p, "done")
  /\ UNCHANGED <<caller, sem, time, own, old, shared, measured, pods, faults, undeleted>>

Release(p) ==
  /\ at[p] = "release"
  /\ Goto(p, "done")
  /\ sem' = sem - 1
  /\ own' = [own EXCEPT ![p] = "shared"]
  /\ UNCHANGED <<caller, time, old, shared, measured, pods, faults, undeleted>>

Worker(p) ==
  \/ CreatePod(p) \/ WaitForTestPods(p) \/ CheckErr(p) \/ GetPodTTFR(p)
  \/ LoadTTFRs(p) \/ StoreTTFRs(p) \/ LoadErrors(p) \/ StoreErrors(p)
  \/ DeletePod(p) \/ Release(p)

\* The kubelet ends a pod that is being deleted.
PodGone(p) ==
  /\ pods[p] = "terminating"
  /\ pods' = [pods EXCEPT ![p] = "absent"]
  /\ UNCHANGED <<caller, sem, goroutine, shared, measured, faults, undeleted>>

\* The program is over.
Rest ==
  /\ \/ pc = "idle" /\ round = MaxRounds
     \/ pc = "panic"
  /\ UNCHANGED vars

Next ==
  \/ BeginRound \/ FailEarly \/ StartPod \/ Collect
  \/ \E p \in Pods : Worker(p) \/ PodGone(p)
  \/ Rest

Spec ==
  /\ Init /\ [][Next]_vars
  /\ WF_vars(BeginRound \/ FailEarly) /\ WF_vars(StartPod) /\ WF_vars(Collect)
  /\ \A p \in Pods : WF_vars(Worker(p))

-----------------------------------------------------------------------------
TypeOK ==
  /\ nodes \in 1..MaxNodes
  /\ pc \in {"idle", "loop", "wait", "panic"}
  /\ round \in 0..MaxRounds /\ started \in 0..MaxPods /\ sem \in 0..numThreads
  /\ at \in [Pods -> {"unborn", "create", "created", "await", "awaited", "read",
                      "load ttfrs", "store ttfrs", "load errors", "store errors",
                      "delete", "release", "done"}]
  /\ time \in [Pods -> Pods \cup {Sentinel}]
  /\ own \in [Pods -> {"shared", "nil", "error"}]
  /\ oldTTFRs \in [Pods -> Seq(Pods \cup {Sentinel})]
  /\ oldErrors \in [Pods -> Seq(BOOLEAN)] /\ newError \in [Pods -> BOOLEAN]
  /\ err \in BOOLEAN
  /\ ttfrs \in Seq(Pods \cup {Sentinel}) /\ errors \in Seq(BOOLEAN)
  /\ measured \subseteq Pods
  /\ results \in Seq(Pods \cup {Sentinel})
  /\ pods \in [Pods -> {"absent", "up", "terminating"}]
  /\ undeleted \subseteq Pods /\ faults \in 0..MaxFaults

Up == {p \in Pods : pods[p] = "up"}

\* README.md:359: "and a delete is sent for the test pod".  When a round is over a pod that
\* is still up is one whose last delete failed: no early return of a goroutine forgets its
\* pod, not even one whose creation was answered with an error.
PodsAreDeleted == pc \in {"idle", "panic"} => Up \subseteq undeleted

\* README.md:173, for the pods that are not yet being deleted: no more than TestPodsPerNode
\* times the nodes are up at once, apart from those whose deletion failed.
UpWithinPermits == Cardinality(Up \ undeleted) <= numThreads

\* Every round comes to an end: the loop is not blocked for ever on the channel, and the
\* WaitGroup reaches zero.
RoundsEnd == (pc \in {"loop", "wait"}) ~> (pc \in {"idle", "panic"})

Settled == pc = "wait" /\ \A p \in Pods : at[p] \in {"unborn", "done"}

\* pkg/ttfr/ttfr.go:193: "we now have a slice of errors, and matching slice of ttfrs": one
\* entry per pod started, and an error wherever the time is not a measured one.
SlicesMatch ==
  Settled =>
    /\ Len(ttfrs) = started /\ Len(errors) = started
    /\ \A k \in 1..started : errors[k] <=> ttfrs[k] = Sentinel

\* One time for each pod measured, and no other.
ResultsAreMeasured ==
  /\ \A j \in DOMAIN results : results[j] \in measured
  /\ Len(results) = Cardinality(measured)

\* pkg/ttfr/ttfr.go:199: "copy all results that don't have an error to the results": with a
\* single permit the goroutines follow each other, the slices match, and the results are
\* exactly the times that were measured, also in a second iteration that meets pods of the
\* first by the same names.
ResultsAreMeasurements ==
  numThreads = 1 =>
    /\ SlicesMatch
    /\ pc = "idle" /\ round > 0 => ResultsAreMeasured

-----------------------------------------------------------------------------
(* The inductive invariant, in parts.                                      *)

Working == {p \in Pods : at[p] \notin {"unborn", "done"}}

\* The goroutines of a round are those of the first pods, each with its permit.
Launched ==
  /\ pc \in {"idle", "panic"} => \A p \in Pods : at[p] = "unborn"
  /\ pc \in {"loop", "wait"} => round > 0 /\ \A p \in Pods : at[p] = "unborn" <=> p > started
  /\ sem = Cardinality(Working)

\* A pod that is up has a goroutine that is going to delete it, or one that tried to.
BoundToDelete ==
  \A p \in Up \ undeleted : at[p] \in {"created", "await", "awaited", "read", "load ttfrs",
                                       "store ttfrs", "load errors", "store errors", "delete"}

\* The goroutines that have stored their time, and those that have stored their error.
Timed == {p \in Pods : at[p] \in {"load errors", "store errors", "delete", "release", "done"}}

Answered == {p \in Pods : at[p] \in {"delete", "release", "done"}}

\* The error that the goroutine of p is going to append, and the time it should append.
Failed(p) == IF own[p] = "shared" THEN err ELSE own[p] = "error"

TimeOf(p) == IF p \in measured THEN p ELSE Sentinel

\* What the goroutine of p, alone at work, has at hand.
Worked(p) ==
  /\ at[p] \in {"unborn", "create", "created", "await", "awaited", "read"} =>
       time[p] = Sentinel /\ own[p] = "shared"
  /\ at[p] \in {"unborn", "create", "created", "await", "awaited", "read"} => p \notin measured
  /\ at[p] \in {"load ttfrs", "store ttfrs"} => time[p] = TimeOf(p)
  /\ at[p] \in {"load ttfrs", "store ttfrs", "load errors"} => (Failed(p) <=> p \notin measured)
  /\ at[p] = "store ttfrs" => oldTTFRs[p] = ttfrs
  /\ at[p] = "store errors" => oldErrors[p] = errors /\ (newError[p] <=> p \notin measured)

\* The slices have the entries of the goroutines that have appended, at their pods' numbers.
Matching ==
  /\ DOMAIN ttfrs = Timed /\ \A p \in Timed : ttfrs[p] = TimeOf(p)
  /\ DOMAIN errors = Answered /\ \A p \in Answered : errors[p] <=> p \notin measured

\* One goroutine after the other.
Serial ==
  /\ pc \in {"loop", "wait"} =>
       /\ \A p \in Pods : at[p] \in {"unborn", "done"} \/ p = started
       /\ \A p \in Pods : Worked(p)
       /\ Matching
  /\ pc = "idle" =>
       /\ ttfrs = <<>> /\ errors = <<>>
       /\ \A p \in Pods : time[p] = Sentinel /\ own[p] = "shared"
       /\ round > 0 => ResultsAreMeasured

TTFRInv ==
  /\ TypeOK
  /\ Launched
  /\ BoundToDelete
  /\ numThreads = 1 => Serial

=============================================================================
