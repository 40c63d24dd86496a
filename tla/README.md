# tiger-bench in TLA+

tiger-bench is a benchmark driver for Calico clusters: it reads a list of test configs, and
for each of them reconfigures the cluster, brings a namespace to a standing population of
policies, pods and services, measures, tears down, and reports.  This directory holds TLA+
models of it, TLC configurations that check them, and TLAPS proofs about them.  Everything
here is translated from the Go code; `PROJECT.json` maps each definition to its lines.

Contents: 1 inventory, 2 plan, 3 modules, 4 runs, 5 divergences, 6 bounds, 7 fairness,
8 proofs, 9 what is not modelled.

## 1. Inventory

| component | code | state it keeps | operations |
|---|---|---|---|
| benchmark driver | `cmd/benchmark.go` | list of results, results file, contexts with deadlines | `main`, `runOneTest` with its deferred teardown, `cleanupNamespace`, `writeResultToFile` |
| cluster configuration | `pkg/cluster/cluster.go`, `cluster_internal.go` | none of its own; the Installation, kube-proxy's ConfigMap and DaemonSet, Felix's configuration, rules on the nodes | `ConfigureCluster`, `updateEncap`, `enableBPF`, `enableIptables`, `enableNftables`, `patchFelixConfig`, `SetCalicoNodeCPULimit`, `waitForTigeraStatus` |
| standing config | `pkg/cluster/cluster.go` (`SetupStandingConfig`) | none of its own; policies, two deployments, services in the namespace | deploy policies, create/scale/await deployments, create services |
| policies | `pkg/policy/policy.go` | none of its own; NetworkPolicies named by prefix and index | `DeployPolicies`, `DeployIdlePolicies`, `BulkCreatePolicies`, `BulkDeletePolicies` |
| goroutine fan-out | the bulk functions above and the service loop | channel as semaphore, WaitGroup, slice of errors | one goroutine per entry, join, first error |
| TTFR test | `pkg/ttfr/ttfr.go` | slices of times and errors, variable `err`, channel, WaitGroup; test pods | `RunTTFRTest`, `getPodTTFR`, `SummarizeResults` |
| TTFR client | `images/ttfr/pingo.go` | channel of capacity one, timers | `CalculateTTFR`, `DoEvery`, `CheckConnectivity` |
| DNS performance test | `pkg/dnsperf/dnsperf.go` | channels, result slices, a deployment being scaled | tcpdump goroutines, workers, closer, aggregator, scale loop, `processTCPDumpOutput` |
| iperf, qperf tests | `pkg/iperf`, `pkg/qperf` | none of their own; a policy, and a pod and a service per node | `DeployIperfPods`, `RunIperfTests`, `SummarizeResults`, and the same for qperf |
| statistics | `pkg/stats` | none | percentiles, averages, Prometheus queries |
| Kubernetes helpers | `pkg/utils` | none | get-or-create, scale, wait, delete by prefix, exec with retries |
| config | `pkg/config` | none | read, default and validate |
| reports | `pkg/elasticsearch`, `pkg/junit`, `pkg/results` | none | upload, JUnit report |
| result validation | `validate_results.go` | none | compares two result files |

**How they interact.**  `main` is one goroutine that calls everything else and passes
contexts.  The components share no memory; what they share is the cluster, which outlives a
test, so each test starts from what the tests before it, and their failures, have left.
Inside a call, three components start goroutines: the fan-out (policies, services), the TTFR
test and the DNS performance test.  The program keeps nothing across a restart of its own.
Pingo is a program of its own, which runs in the pods of the TTFR test and answers through
its log.

**What is hard.**

* *Failure in the middle.*  Nearly every operation is a sequence of API calls, any of which
  may fail, or be carried out although its answer is lost.  Functions return at the first
  error, and the next test builds on a half-finished change.  Each early return ("already
  enabled", "already exists", "as many as wanted") is a claim about everything the skipped
  steps would have done.
* *Asynchrony.*  Deployments, deletes and the operator act later than the call that asks.
* *Deadlines.*  The teardown shares one deadline between a rollout and the cleanup.
* *Goroutines.*  The fan-out is synchronised; the TTFR test shares variables unguarded.
* *Names that are used again.*  Test pods have the same name in each test, and a deleted pod
  keeps its name, and runs on, until it is gone.
* *Clocks.*  Pingo keeps a rate by correcting its sleeps, under timers and channels whose
  capacity is computed from rate and timeout.
* *Counting by name, acting by index* in the policies.

The hazards of `PROJECT.json` list these line by line, with the properties that cover them.

**What makes each component correct.**

* Fan-out: at most `numThreads` calls outstanding, every entry called once, no goroutine
  outlives the call, the error returned is the first of the list, the call returns.
* Policies: nil means as many policies as asked for, and without failures the right ones; a
  bulk call never goes past its goal.
* Standing config: a test that runs has the policies, sizes and services it asked for, it
  is not stopped by what other tests left, and the wait for pods ends.
* Driver: only complete results are published, in order, once; the results file is a prefix
  of the results; a test inherits no CPU limit, and of the namespace only what is on its way
  out; every test is recorded, and in the report if there is one.
* Cluster configuration: success means what was asked for; BPF and kube-proxy exclude each
  other; no test runs on a cluster that is still rolling out; switching back and forth
  without failures leaves no trace.
* TTFR: every pod is deleted, permits are respected, rounds end, times and errors match.
* DNS performance: no result is lost, doubled or sent after the close, curls cut off by the
  end of the test do not count, every capture is read, the test ends, and so does what it
  started in the background.
* Pingo: the first answer is reported and no goroutine is left waiting; the rate is kept; the
  limit of goroutines never throttles it.
* iperf, qperf: a summary has one value per complete iteration and mode and no others, from
  pods and services of this test, of two different nodes, the same in each iteration; the
  test ends although pods may never start.
* Statistics: the percentiles are those of the nearest rank.  Captures: each retransmission
  is counted once.
* Config: what is accepted can be run, but for ttfr tests that are overlooked, and only what
  cannot is rejected.

## 2. Plan

Done, in this order, the core of the program first:

1. `BulkCall`, `WorkerPool`: contract, implementation, refinement.
2. `Policies` (extends `WorkerPool`), `PolicyProofs` (about both).
3. `StandingConfig`, `StandingProofs`: uses the contract of 1 and 2 in one step per bulk call.
4. `Benchmark`, `BenchmarkProofs`: the driver, with 3 and 5 in one step each, may fail in
   between.
5. `Dataplane`, `DataplaneProofs`: `ConfigureCluster` call by call.
6. `TTFR`, `TTFRProofs`: the goroutines and their races.
7. `DNSPerf`, `DNSPerfProofs`: workers, closer and receiver over a channel, captures and
   scaling.
8. `DoEvery`, `Pingo` (extends it), `PingoProofs`: timers, the non-blocking send, the rate.
9. `PerfTest`, `PerfTestProofs`: iperf and qperf with pods that are still terminating when
   the next test looks for its own.
10. `Statistics`, `Capture`, `TestConfigs`: sequential algorithms against reference
    definitions; the proofs about them are in `DNSPerfProofs` (the first two) and
    `BenchmarkProofs` (the third).
11. `Driver`: what a run promises whoever reads its output, implemented by `Benchmark`.

Next:

12. The operator's delay in noticing a change.

Abstract specifications: `BulkCall` and `Driver`.  The number of runs is kept small: one
passing run per module, the sequential algorithms in one together, and a run of its own only
for the two divergences that the most results depend on.

## 3. Modules

### BulkCall, WorkerPool
`BulkCall` is the contract of a bulk operation: `Submit(n)`, `Perform(s, a)` in any order,
`Return` with the first failure.  `WorkerPool` is the code: `num` is the length of the list,
`main` and `next` the loop, `sem` the fill of the channel, `wg` the WaitGroup's counter,
`worker[t]` the place of the goroutine of index `t`, `errors` the slice.  `Dispatch` is one
round of the loop (send, Add, go), `Answer` the end of the API call with the write of
`errors[t]`, `Release` and `Done` the deferred functions in the order in which Go runs them,
`Join` the return of `wg.Wait()` with the scan of the slice.  The refinement mapping
(`INSTANCE BulkCall`) takes a slot as answered once its goroutine has written it, and the
operation as open while the function has not returned.

The code writes the same fan-out three times (create, delete, services), which is why one
module stands for all.

### Policies
Extends `WorkerPool`: its API calls are `createPolicy` and `DeletePolicy`, so `Succeeds(t)`
and `Fails(t)` are `Answer(t, a)` together with what happens in the API server.  `policies`
holds the existing indexes per prefix, `call` the deployment in progress with the indexes it
listed, `verdict` what the last one returned, `faulty` is a history variable.  `IndexOf(t)`
is the index the list holds at position `t`: upwards from the count when creating,
downwards when deleting.  A call may fail after taking effect.  `Cleanup` is the deletion in
`cleanupNamespace`, which may stop anywhere.

### StandingConfig
`SetupStandingConfig` and the cleanup around it, in the order of the code (`pc`), for a run
of several tests in one namespace.  A deployment is a record of its spec, the labels it was
created with and the two status fields that `WaitForDeployment` compares; the deployment
controller (`Reconcile`) and the kubelets (`PodReady`) change them asynchronously and are
external.  A failing call ends the setup, and any part of what it was to do may have been
done.

### Benchmark
`main` and `runOneTest`.  `pc` goes through one test: cleanup, `ConfigureCluster`,
`SetupStandingConfig`, preparation, the iterations, conclusion, teardown (limit, then
namespace), and in `main` the recording, upload and writing.  Of the cluster it keeps the CPU
limit with the test that set it, and per namespace the tests whose resources may be there
(`leftovers`).  No delete is awaited, so that the cleanup takes nothing out of `leftovers`: it
adds to `deleted` the tests all of whose resources have been asked to go, of which some may
be gone and others not.  That covers any order and time of their going, for ever included.
The JUnit report is written when `JUnitReportFile` is set, which by default it is not, and
errors in generating or writing it are only logged: `WriteJUnitReport` may leave none.
`expired` is the context of the teardown; the context of the test itself derives from
`context.Background()` and is never cancelled.  The limit is that of the Installation;
its rollout is a matter of `Dataplane`.

### Driver
The abstract driver has no cluster and no calls: tests begin in the order of the list, each
ends, is torn down and recorded before the next one begins; one that completed is then
published, at most once, and the results are saved; when all are recorded the run ends, and
under weak fairness it comes to that.  At its end there may be a report, and one that is made
has an entry for each test, a failure whenever the test had an error.  `Benchmark` implements it (`ImplementsDriver`): `phase` follows
from `pc` (cleanup, configuration, setup, preparation and iterations are "running", the two
steps of the teardown "ended"), an outcome is what a result says of number, completion and
error of its test.  What a test does to the cluster and the first half of its teardown are
invisible; a test that is given up and one that is concluded both `End`.

### Dataplane
`ConfigureCluster`, and the removal of the CPU limit in the teardown, one action per API
call or wait, any of which may fail, after taking effect or not.  `settled` records that the
operator's Available has been read since the Installation last changed: the code polls after
a pause, and what it reads then is taken to speak of the change.  `proxyMode` is
kube-proxy's ConfigMap and `proxyRuns` the mode its pods were started with; `residue` is the
set of dataplanes whose rules may be on the nodes, which `wipeIPTables` and `wipeNFTables`
empty.  `ippool` is `Managed` for Calico from v3.28 on; before, it is patched next to the
Installation. `SetCalicoNodeCPULimit` returns early when the limit is there, whether or not
its rollout has ended; it is the wait in `updateEncap`, made for every test, that makes up
for a wait that an earlier test or its teardown gave up (`SettledBeforeTheTest`).

### TTFR
`RunTTFRTest`, once per iteration.  The loop starts goroutines while the channel has room;
that time is up is a nondeterministic choice after each start, as in the code.  The races on
`err`, `ttfrs` and `errors` are modelled as loads and stores that interleave: an append
loads the slice in one step and stores the longer one in another.  The Go memory model allows
more (torn slice headers, crashes); what is modelled is the least that an unsynchronised
execution can produce.  In place of a time a goroutine appends its own number, so that one
can tell whose result it is.

### DNSPerf
`RunDNSPerfTests`.  `pc` is the calling goroutine; `at[p]` is the worker of pod `p`, which
goes through curl, the test of the context and the send; `channel`, `closed` and `wg` are
what Go calls so; `rawresults` is what the receiver has.  `sent` is a history of what the
workers have sent, in the order in which it went into the channel.  The closer is one
action, `Close`, enabled by the WaitGroup.  `scaler` and `tcpdump[p]` are the goroutines
nobody joins.  `Expire` is the timeout of the test context, at any moment after it was made;
a call in flight may still be answered afterwards.  Files of earlier tests may be in the
tcpdump pods (`captures`), and the deployment of an earlier stress test may still be scaled
up.

### DoEvery, Pingo
`DoEvery` is the loop that pingo uses three times: `loop[l]` are the local variables of one
call (`windowStart`, `windowCount`, `adjustment`, `num`) and its place.  A round is the test
of the window (`Correct`, `Proceed`), the function with the sleep (`Rest`), and the end of the
sleep (`Wake`).  What a round takes beyond its sleep is constant within a window (`cost[l]`),
and any of `Costs[l]` in the next one: the correction is computed from whole windows.
Division truncates as in Go, and a negative sleep returns at once.

`Pingo` is the process.  `CalculateTTFR` runs without the clock, its goroutines (`pinger`)
take any time; the interval between two pings only says that some time passes.  From `Serve`
on, the connectivity check and `main` are two loops on one clock, `now`, which `Tick` moves
to the next moment at which a loop wakes up or a ping reaches its timeout.  While a loop can
go on it stands still, with one exception: between the first two readings of the clock a loop
may be held up (`HeldUp`) for as long as the others give it time to pass.  A loop that was, for
over a second, is to divide by a window without calls (`DividesByZero`), which ends the process
(`Panic`).  `pings[l]` are the pings in flight, the fill of `maxGoroutinesSem`.  `steady` and
`calm` are histories of what rounds have cost.  `ttfr.go` does not set `QUIT_AFTER`, so that
the pods of a TTFR test run with 0; the code has both, and so has the model.

### PerfTest
Both kinds of test in one module, as the two packages are the same but for the waits
(`WaitsFirst`, `WaitsBefore`) and the units.  `pods[k][n]` is the pod of kind `k` on node `n`:
the test that made it, whether it runs, whether it is being deleted; `svcs[k][n]` the test
that made the service.  `testpods` is what `WaitForTestPods` returned: the first is the server
of every measurement, the second its client.  A sample says who talked to whom; there is one
only if something listens on the port the test uses (`Servers`, `Samples`).  Everything that
happens in one call of `RunIperfTests` or `RunQperfTests` goes through `mode`, the position in
the order of the code.  The cleanup may stop at any object of any call (`CleanUp`).

### Statistics, Capture, TestConfigs
One step per measurement, line or config, and invariants that compare what the code has
computed so far with a reference definition: the nearest rank, the segment before on the same
connection, and what the users of a config ask of it (`PerfCanRun`, `DNSCanRun`, `TTFRCanRun`).
`Overlooked` names the ttfr tests that the validation lets in although they cannot run, so
that `ValidationMatchesUse` says both that these slip through and that nothing else does.  Each module has a specification of its
own (`StatisticsSpec`, `CaptureSpec`, `ConfigSpec`), of which the theorems speak;
`MCAlgorithms` runs one of them per behaviour.  `SortedSlice` says what `slices.Sort` leaves
in the slice, by counting: at position `i` the number that fewer than `i` are less than and at
least `i` do not exceed.

All API calls that take effect do so before their answer or deadline, never afterwards.

### Proof modules
`PolicyProofs` (also about `WorkerPool`, which `Policies` extends), `DataplaneProofs`,
`StandingProofs`, `BenchmarkProofs` (also about `TestConfigs`, the config that a run starts
from), `TTFRProofs`, `DNSPerfProofs` (also about `Capture` and `Statistics`, which read what
the test has gathered), `PerfTestProofs` and `PingoProofs` (also about `DoEvery`) extend the
modules they are about.  The parts
of an inductive invariant stand at the end of that module, behind its properties.
The `MC...` modules give the constants of a run their values.

## 4. Runs

| run | asks | answer |
|---|---|---|
| `worker_pool` | is the fan-out bounded, joined, truthful, does it return, and does it implement `BulkCall`? | yes |
| `policies` | after any sequence of deployments, cleanups, failed and lost calls, what does nil mean? | the right number; the right indexes if nothing failed; never past the goal |
| `standing_config` | what does a test have when it runs after others that left things behind? | the number of policies, sizes and at least the services asked for; exactly them if it cleans up and nothing fails during it; leftovers cannot stop it; the run ends |
| `benchmark` | what is published, what does a test inherit, and does a run implement `Driver`? | complete results, once and in order; a file that is a prefix; no limit of another test, and of its resources only what is on its way out, unless a call failed; the run is one of `Driver`: every test is recorded, and a report, if there is one, has them all |
| `ttfr` | do the goroutines clean up and end whatever they race on, and are the results right with one permit? | yes |
| `dataplane` | what does success mean after changes that were cut short? | what was asked for, settled, and BPF without kube-proxy; without failures exactly one proxy in the right mode |
| `dnsperf` | does every result arrive once, whenever the test ends, and does everything it started end? | yes |
| `pingo` | does pingo report its first answer, leave nothing behind, keep its rate and reach its limits only when it should? | yes, as long as a round costs no more than its period, and it does not panic before its first round |
| `perf_tests` | what do iperf and qperf summarise, when pods of other tests are still about? | complete iterations, between two nodes, own pods except those that were terminating when the test began |
| `algorithms` | do percentiles, counts of retransmissions and validation do what they say? | yes, but for ttfr tests without a section or without pods, which are accepted |
| the two of section 5 | does the code do what a comment or the README says? | no, see there |

Every property of a passing run has a mutant in `PROJECT.json`: a change of one definition,
as a plausible slip in that code would be, that breaks the property in the same run.  The
mutated forms stand before the definitions they replace and are marked as such.

Some properties carry a ghost in their premise, because the unconditional form is false:
`ExactAfterCleanup` needs a test whose own calls did not fail (`undisturbed`), `LimitIsOwn`
and `NamespaceIsFresh` excuse tests during which a call failed (`disturbed`),
`DenseWithoutFaults` and `CoherentWithoutFaults` are about histories without failures.  The
invariants without such a premise (`CountIsRightOnSuccess`, `RunsWithWhatItNeeds`,
`UploadsAreComplete`, `FileIsAPrefix`, `ReadyAsRequested`, `NeverBPFWithKubeProxy`,
`SettledBeforeTheTest`, `PodsAreDeleted`, `SummariesAreComplete` and those of
`DNSPerf`) hold under every failure modelled.  `InheritsOnlyWhatTerminates` and
`OnePath` excuse nodes where a terminating pod was taken for a new one (`stale`), and the former
also tests whose cleanup failed (`inherited`); `RoomForEveryPing` and `PaceIsKept`
are about rounds whose costs can be made up for.

## 5. Divergences

Two runs end in a violation; each is a disagreement between what the repository says and
what its code does.

* `standing_pods_are_up` (`StandingPodsAreUp`): `WaitForDeployment` compares two status
  fields that also agree before the controller has acted (0 = 0).
* `ttfr_slices_match` (`SlicesMatch`): with two goroutines the slices of times and errors
  need not match.

Others that the models make visible, without a run of their own:

* Surplus services of an earlier test are never deleted, although README.md:196 promises the
  correct number of standing resources.  `RunsWithWhatItNeeds` says "at least" for services.
* The rollout of the CPU limit can use up the teardown's deadline; every delete then fails at
  once, which is what the context of its own (cmd/benchmark.go:130) was to prevent.  The
  cleanup before the next test makes up for it in the same namespace (`NamespaceIsFresh`).
* A failed restart of kube-proxy is never repeated, because the ConfigMap already names the
  mode (cluster_internal.go:147); `CoherentWithoutFaults` needs its premise for that.
* README.md:219 says that the cleanup waits for everything to finish.  It does not, and so
  `NamespaceIsFresh` promises a test only that what others left has been deleted, not that it
  is gone: a test that follows another may measure with pods of the latter that are
  terminating, with the port or host network of the other test (the exception in
  `InheritsOnlyWhatTerminates`).
* A run ends in a JUnit report only when a file for it is configured, and not even then when
  the report cannot be written, which is logged and does not change the exit status.
* After an overload, `DoEvery` makes up for lost rounds in a burst: the adjustment
  accumulates, sleeps become negative, and only a later window corrects them.  A loop of
  periods of 100ms and more is never corrected.
* A pingo that is held up for over a second between the first two readings of the clock in
  `DoEvery` divides by zero and panics (`Panic`); `OnlyTheFirstRoundPanics` is the theorem that
  it can do so at no other time.
* A UDP ping of pingo may take twice the timeout that the limit of goroutines is computed
  from, since dialling and reading have one each.  The time of an answer is taken when it is
  offered, and whichever goroutine gets there first wins.
* Main counts rounds of its own period, so that with a check that cannot keep its rate the
  process ends before all pings are sent.
* One qperf iteration with an unknown unit, or one TTFR iteration without a time, turns the
  summary of all iterations into an error; qperf output without a unit panics.
* The validation tags of `Perf` and `TTFRConfig` name a field `TestType` that does not exist
  (it is `TestKind`), so that a ttfr config without its section is accepted and panics
  (`Overlooked`); the tags `default:` are applied by nobody.
* Retransmitted SYNs with other flags ("[SEW]") are not counted.

And in short: a policy index lost in one call is never filled again, since deployments count
names, so that a later call returns nil with a policy that matches no pod; output of curl
that cannot be parsed counts as a successful curl that took no time; where a capture fails the
file of an earlier test is counted; a stress test can leave its deployment scaled up; an
existing standing-deployment keeps the labels of the test that created it; the results file
misses tests that did not complete after the last one that did; a test with `iterations: 0`
succeeds and is a failure in the JUnit report; with `TestPodsPerNode: 0` the TTFR loop spins
for ever; a TTFR permit is released before its pod is gone; when `enableBPF` fails after
it disabled kube-proxy, a later request for iptables returns early and leaves it disabled;
with Calico before v3.28 a test that names no encapsulation patches the IPPool with nothing;
and a result is only uploaded when both a user and an API key are set, although either would
do to connect.

## 6. Bounds

| run | bounds | why they are enough |
|---|---|---|
| `worker_pool` | lists up to 3, 2 threads, 2 errors | the list is longer than the channel, two errors can tell first from last, goroutines end in any order |
| `policies` | 3 indexes, 2 threads, 2 prefixes | gaps at the start, middle and end; calls follow each other without limit |
| `standing_config` | 3 configs that differ in every number, 3 tests, 2 failures, 2 polls, 1 backend pod | growing and shrinking, leaving and cleaning, a failure in the setup and one in the cleanup |
| `benchmark` | 3 tests from 4 configs (each kind, two limits, two namespaces), 2 failures, 1 failed write, 1 slow rollout | setter, victim and a test between them; a failed write after a good one |
| `dataplane` | 3 tests from 8 requests, 2 CPU limits, Calico of either kind, 2 failures | a change cut short, a second one cut short, and the one that succeeds |
| `ttfr` | 1 or 2 nodes with one pod each, up to 3 pods in the first iteration and 2 in the second, 1 failure | more pods than permits, a name used twice, races of two and of three goroutines |
| `dnsperf` | 2 pods, a channel of 1, 3 results before the end, 2 attempts at a capture; DNS policy and stress in separate behaviours | the channel fills up, a worker waits for room when the test ends, results of two workers interleave; captures and scaling share nothing but the context |
| `pingo` | 3 goroutines of `CalculateTTFR`, or 1 with the clock; a check every 75ms (3 units) with a timeout of 100ms (4), windows of 20 units, rounds that cost 1, 2 or 4; 18 calls, or endless | an answer, one that is too late, and one more; two windows with a correction between them and a change of costs in both directions; pings that overlap; the check held up before its first round (`Late`), for a whole period of `main`, which is more than a window.  The ratio of window to threshold is 5 instead of 10, which only shortens windows |
| `perf_tests` | 3 nodes, 2 tests from 4 configs (kinds, modes, ports, leaving and cleaning), 2 iterations, 2 attempts, 1 failure | server, client and one more node; a successor of the same kind and of the other |
| `algorithms` | 5 numbers one by one, series of up to 30, of 100 and of 101; 3 lines on 3 connections; ports -1, 0, 1, 65535, 65536; numbers of pods and rates -1, 0, 1 (`Amounts`) | every remainder of a percentile at small numbers; a repeated segment with any line in between; both sides of each edge of a port and of an amount |

The bounds are named in the modules (`MaxTests`, `MaxFaults`, `MaxSlow`, `MaxPods`, `Late`, ...) and
appear as guards.  `BackendPods` and `MaxAttempts` stand for constants of the code (10, 11).

## 7. Fairness

* `WorkerPool`: weak fairness of each step of each goroutine (the Go scheduler runs what can
  run) and of the answer of each API call (calls carry a deadline or the client's).  Nobody
  has to call the function.
* `StandingConfig`: weak fairness of the program only.  Nothing is assumed of controllers
  and kubelets, so that `RunEnds` holds although pods may never come up.
* `Benchmark`: weak fairness of the driver's step; each call ends by answer or deadline.
  Nothing is assumed about when, or whether, what was deleted goes away.  The exception to
  deadlines is the command of an external measurement, see `PerfTest`.
* `TTFR`: weak fairness of the caller's actions and of each goroutine.  `PodGone` is not
  fair: rounds end although pods may terminate for ever.
* `DNSPerf`: weak fairness of each goroutine, of the closer, and of the timer of the test
  context, without which workers would go on for ever.  Commands in pods carry a deadline or
  the test context, so each is answered.
* `Pingo`: weak fairness of each goroutine of `CalculateTTFR` (a ping ends at its timeout at
  the latest, and the Go scheduler runs what can run), of the three steps of its loop, and of
  the rest of the process, clock included.
* `PerfTest`: weak fairness of the driver only.  Nothing is assumed of kubelets, so that
  `TestsEnd` holds although pods may never start and never go away.  The fairness of a
  measurement is justified by the deadline of commands in pods, with one exception: in mode
  External the code runs iperf3 or qperf next to itself (`utils.Shellout`,
  pkg/utils/shell_utils.go:34) without a deadline or the context of the test.  There `TestsEnd`,
  and with it the progress of `Benchmark`, assumes that the external command ends.
* `Policies`, `Dataplane` and the sequential algorithms have safety properties only.

## 8. Proofs

Each module with a state of its own states a type invariant, and all are proved; the
sequential algorithms have only the state that their invariants speak of, and the types are
a part of these.  The type invariant of the fan-out is also checked by a run.

`tlapm` checks eight modules.  Constants are arbitrary within the assumptions of the modules
(`PoolAssumption`, `PoliciesAssumption`, `DataplaneAssumption`, `StandingAssumption`,
`BenchmarkAssumption`, `TTFRAssumption`, `DNSPerfAssumption`, `PerfTestAssumption`,
`DoEveryAssumption`, `PingoAssumption`, `CaptureAssumption`, `StatisticsAssumption`,
`TestConfigsAssumption`: numbers are numbers, a section that is missing is not a section,
bounds that the code divides by or counts to are positive, configs have the fields the code
reads, a round of a loop that is corrected takes some time), and so is the length of
executions.  Each inductive invariant was checked by TLC with the constants of its run
before it was proved.

* **PolicyProofs, the worker pool.**  `PoolInv` strengthens the three safety properties:
  goroutines exist exactly below `next`, `sem` and `wg` are the numbers of goroutines that
  still owe a receive and a Done, unwritten entries are nil, and outside the function the
  result is the first error.  The properties alone are not inductive: that `Join` leaves
  nobody behind needs the WaitGroup to count, and that the channel bounds the calls needs
  `sem` to.  Each action preserves it (one lemma each, on cardinalities of sets that gain or
  lose one goroutine). Theorems: `PoolTypeCorrect`, `PoolBoundsCalls`,
  `PoolJoinsItsWorkers`, `PoolReportsTheFirstFailure`, and `PoolImplementsBulkCall`: each
  step is one of `BulkCall` or a stutter.
* **PolicyProofs, the policies.**  `PolicyInv` adds to `PoolInv` what a bulk call has done so far
  (`Progress`: it stays within the span of indexes of its list, and each nil answer stands
  for an index it created or deleted itself) and, without faults, `Smooth`.  When the call
  returns nil, all answers are nil, so the span is filled or emptied and the count follows.
  Theorems: `PoliciesTypeCorrect`, `CountIsRight`, `NoGapsWithoutFaults`,
  `BulkNeverOvershoots`, `PoliciesUseThePool`.
* **DataplaneProofs.**  `DataplaneInv` says for each place of `pc` which part of the request
  is done (`Progress`), and without faults how proxy, mode and rules relate (`Coherent`).
  `NeverBPFWithKubeProxy` needs that at `install` for bpf kube-proxy is off, and
  `ReadyAsRequested` that each early return is only taken when the skipped part is done.
  Theorems: `DataplaneTypeCorrect`, `SuccessMeansAsRequested`, `BPFExcludesKubeProxy`,
  `TestsRunOnASettledCluster`, `SwitchingIsClean`.
* **StandingProofs.**  `StandingInv` says for each step of `SetupStandingConfig` what is done
  (`Progress`: the numbers of policies, the deployments that exist and are scaled) and, for a
  test that cleaned up completely and met no failure, that everything there is its own (`Own`).
  A run needs all of `Progress` since each step relies on the one before; the number of
  policies follows from a lemma on finite sets (`DifferenceCounts`): creating or deleting
  exactly the indexes between the number there and the number wanted gives the number wanted
  when each was missing or there.  `Own` makes the namespace empty when the policies are
  deployed, so that the count never collides with a leftover (`NothingInTheWay`).
  Theorems: `StandingTypeCorrect`, `StandingRunsWithWhatItNeeds`, `StandingExactAfterCleanup`,
  `StandingLeftoversDoNotStopIt`.

* **BenchmarkProofs.**  `BenchmarkInv` adds to the types that the results are those of the
  tests so far, the one in progress being a failure until it has been concluded (`Recorded`),
  what has been uploaded (`Uploaded`), the file, and for each place of `pc` whose limit and
  what there is of others' resources (`LimitKept`, `NamespaceKept`: in the namespace of a test
  that has cleaned up, only what has been deleted).  The properties about the cluster
  speak of a running test only; what carries them from one test to the next is the excuse
  (`LimitExcused`): a limit that outlives its test belongs to a test in `disturbed`.
  Theorems: `BenchmarkTypeCorrect`, `OnlyCompleteResultsAreUploaded`,
  `ResultsFileIsAPrefix`, `LimitsAreOwn`, `NamespacesAreFresh`.
* **BenchmarkProofs, the refinement.**  `BenchmarkImplementsDriver`: each action gets a lemma
  that says which step of `Driver` it is, or that it is invisible there (`Unseen`).  The
  abstract driver numbers its tests by their outcomes, the code by its loop; that they agree
  is `Recorded` in `BenchmarkInv`.  Otherwise what has to be shown is that the outcomes grow
  with the results (`OutcomesFollowResults`), that no way of giving up a test skips the
  teardown, and, for the case that a report is made, that `isTestFailed` never overlooks an
  error (`ReportIsReport`).
* **BenchmarkProofs, the configs.**  `AcceptedConfigsCanRun` is about a file with any ports,
  numbers of pods and rates.  For ttfr tests the statement is a comparison of the tags with
  what `RunTTFRTest` does with its section (`TTFRIsValidIffItCanRun`), with the exception that
  `Overlooked` spells out: without it the theorem is false of the code.
  The validation and `CanRun` are written in terms of different configs, before and after
  the defaults; that they agree on an accepted one needs that the defaults change nothing
  the second time, and on a rejected one that a port which has no default, or is out of
  range, stays what it was (`DefaultsOfATest`, `PortsOfATest`).
* **TTFRProofs.**  `Launched` says who works, and that the channel counts them, and
  `BoundToDelete` that a pod that is up has a goroutine on its way to the delete: neither
  depends on what the races do, so both are proved with the shared variables arbitrary.  With
  one permit `Serial` says that the goroutines work one after the other and what each has at
  hand, so that the entries of the two slices belong to the same pods (`Matching`).
  Theorems: `TTFRTypeCorrect`, `NoPodIsForgotten`, `PermitsBoundThePods`,
  `SerialResultsAreExact`.
* **DNSPerfProofs.**  `Joined` counts the running workers in `wg` and says that the channel is
  only closed when they have all ended, `NotCutOff` where a curl that was cut off can be,
  `InOrder` that what was sent is what was received followed by what the channel holds, `Read`
  which captures were there.  That nobody sends on a closed channel follows from `Joined`,
  that no result is lost from `InOrder`.  Theorems: `DNSPerfTypeCorrect`, `NoResultIsLost`,
  `EveryCaptureIsRead`.
* **DNSPerfProofs, the captures.**  The counts alone are not inductive: `CaptureInv` adds that
  each map holds, for every connection, the sequence number of its last segment with the
  map's flags (`Remembers`).  The program knows one number per connection, the reference
  definition looks through all lines before; a new line extends the set of repetitions by
  itself or by nothing, whatever lies between.  Theorem: `EveryRetransmissionIsCounted`.
* **DNSPerfProofs, the percentiles.**  The least of the numbers that at least `k` do not
  exceed is the only one that fits position `k` of the sorted slice, so that the two
  definitions by CHOOSE meet; that it exists is the well-foundedness of `<` on what is
  counted.  Rounding up makes "at least `percent` of a hundred" and "at least `pos`" the
  same question (`Candidates`).  `SortedSliceIsSorted` says that the definition of the
  sorted slice is one. Theorems: `SortedSliceIsSorted`, `PercentilesAreRight`.
* **PerfTestProofs.**  `Deployed` follows the cleanup and the deployment node by node: what is
  not the test's own terminates, until the deployment comes to its node and either makes a new
  pod or notes the old one in `stale`.  `Proceeds` says that the modes measured so far in an
  iteration are those asked for up to `mode`; with that a complete iteration has them all
  (`Kept`).  `Paired` says that the two test pods are on different nodes, and on nodes 1 and 2
  when no pod is stale, since then all nodes have their pod: it needs that sorting a set of
  numbers puts the two least first (`InOrderIsSorted`).  `FairSamples` says of each sample in
  hand or kept that it is between those two pods, and `Reported` carries this to the summary.
  Theorems: `PerfTestTypeCorrect`, `SummariesCountWhatSucceeded`,
  `OnlyTheTerminatingIsInherited`, `OnePathIsMeasured`.
* **PingoProofs.**  `LoopOK` says of each loop that a window at its head has had a call, unless
  no round has begun yet (`WindowHasCalls`, which leaves a division by zero to loops that were
  held up at their start), that a sleep ends when it should (`WakesInTime`), that the correction is
  worth what a round of the window before cost (`Corrected`), that the rounds of a loop with
  steady or calm costs follow each other without a gap (`Beats`), and that its pings in flight
  are a period or more apart (`Spaced`).  The last two need each other: a calm loop never
  waits for room because its pings are a period apart and the limit is beyond the timeout
  (`RoomIsLeft`, `LimitIsBeyondTheTimeout`), and its pings are a period apart because the
  correction, which is exact only for windows without a wait, never takes more from a sleep
  than a round costs.  That the correction is exact is arithmetic: n sleeps less n rounds,
  divided by n, is a round's cost (`QuotientOfMultiple`), however Go truncates.  Pings may end
  in any order, which only widens the distances (`RemoveAtFacts`).
  `PaceIsKept` has to excuse waits in the window itself, not only in the one before: a cheap
  window after a dear one runs faster than the rate, and what it leaves in flight may make the
  next one wait.  `Tick` therefore ends the history `steady` of a loop that it finds waiting.
  Theorems: `PingoTypeCorrect`, `OnlyTheFirstRoundPanics`, `LimitNeverThrottles`, `RateIsKept`.

Induction over data is done with sets: the numbers for which a statement holds contain 0 and
are closed under successor, so that they are all numbers, because a least one missing would
have a predecessor that is missing (`SuccessorsReachAll`, from the well-foundedness of `<`).
That a function defined by recursion exists is proved in the same way.  This gives what the
loops over results compute for slices of any length (`Copied` in `TTFR`, `Values` in
`PerfTest`), and that a set of n numbers has an element at each of n positions.

Only model-checked: the liveness properties (`EveryCallReturns`, `RunEnds`,
`RoundsEnd`, `EverythingEnds`, `AnAnswerIsReported`,
`NoPingerIsLeft`, `TestsEnd`) and the fairness parts of `ImplementsBulkCall` and
`ImplementsDriver`, which the prover cannot treat.  Every invariant that a passing run checks
is a theorem.  `SlicesMatch` and `StandingPodsAreUp` are violated.

## 9. Not modelled

* Crash and restart of the driver: it persists nothing and recovers nothing.
* `GetOrCreateDNSPolicy`: one get-or-create.
* Formatting, logging, connections to Prometheus and ElasticSearch, the HTML of the JUnit
  report, `GetClusterDetails`, which only reads.
* Pods of deleted deployments that are still terminating; `PerfTest` has those of tests.
* The user's own settings in the section of the Installation that removing the limit drops.
* In the DNS performance test: the DNS policy, and whether a file is of this test or an earlier
  one, which the code does not ask either.  `Capture` takes a line by its flags, its
  connection and its sequence number, not by its text.
* Pingo: requests and responses themselves, metrics, `log.Fatal`, the check of an unreachable
  target beside that of a reachable one (the same code at another rate).  Of a process that is
  held up between two statements only the case before its first round is there (`HeldUp`).
* What iperf, qperf and curl measure, and the text they print.
* `pkg/stats`: the queries to Prometheus, which nobody calls.
* `pkg/config`: fields whose check is a single tag, the environment, the clients.
* `validate_results.go`: compares two files, without state.  It expects a result of each test
  in the file, which ends with the last test that completed (`FileIsAPrefix`).
