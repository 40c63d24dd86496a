------------------------------ MODULE PerfTest ------------------------------
(***************************************************************************)
(* The iperf and thruput-latency (qperf) tests: what runOneTest does for   *)
(* them, with pkg/iperf, pkg/qperf and the helpers of pkg/utils they call, *)
(* for a run of several tests in one namespace.                            *)
(*                                                                         *)
(* A pod is deleted by a call that does not wait: it terminates, and runs  *)
(* on, for any time.  What a pod was started with (its port, host network) *)
(* is told by the test that made it.  How a measurement turns out is left  *)
(* open, except that it fails when there is nothing to talk to.            *)
(***************************************************************************)
EXTENDS Naturals, Sequences, FiniteSets

CONSTANTS
  NumNodes,   (* nodes with the test label                                 *)
  Configs,    (* test configs a config file may list                       *)
  Length,     (* number of tests in the config file                        *)
  MaxTries,   (* number of times WaitForTestPods asks; 10 in the code      *)
  MaxFaults   (* bound: API calls that fail                                *)

Kinds == {"iperf", "qperf"}
Order == <<"direct", "service", "external">>
Modes == {"direct", "service", "external"}

ASSUME PerfTestAssumption ==
  /\ {NumNodes, Length, MaxTries} \subseteq Nat \ {0} /\ MaxFaults \in Nat
  /\ \A c \in Configs :
       /\ c.kind \in Kinds /\ c.modes \in SUBSET Modes \ {{}} /\ c.port \in Nat
       /\ c.iterations \in Nat /\ c.leaveStandingConfig \in BOOLEAN

VARIABLES
  tests,      (* the list of test configs                                  *)
  current,    (* number of the test in progress or last run                *)
  pc,         (* where the driver is                                       *)
  node,       (* the node being deployed to                                *)
  iteration,  (* iterations begun                                          *)
  mode,       (* position in Order of the mode being measured; 0: none yet *)
  tries,      (* attempts of WaitForTestPods that failed                   *)
  testpods,   (* what WaitForTestPods returned: nodes and makers of pods   *)
  result,     (* per mode, what this iteration has measured                *)
  results,    (* iperfResults, qperfResults                                *)
  summary,    (* per mode, the values that were summarised                 *)
  error,      (* whether thisResult.Error is set                           *)
  pods,       (* per kind and node, the pod: by which test, in what state  *)
  svcs,       (* per kind and node, the test that made the service, or 0   *)
  policy,     (* the test that made the test policy, or 0                  *)
  inherited,  (* kinds of objects the cleanup may have left; a history     *)
  stale,      (* nodes where a terminating pod was taken for a new one     *)
  succeeded,  (* iterations that measured all they were asked; a history   *)
  faults      (* API calls that have failed                                *)

run == <<tests, current>>
iterating == <<iteration, mode, tries, testpods, result>>
outcome == <<results, summary, error, succeeded>>
namespace == <<pods, svcs, policy>>
history == <<inherited, stale>>
vars == <<run, pc, node, iterating, outcome, namespace, history, faults>>

Nodes == 1..NumNodes
cfg == tests[current]
kind == cfg.kind

NoPod == [by |-> 0, running |-> FALSE, terminating |-> FALSE]
NoSample == [client |-> <<0, 0>>, server |-> <<0, 0>>, svc |-> 0, unit |-> ""]
NoResult == [m \in Modes |-> NoSample]
NoSummary == [m \in Modes |-> <<>>]

Init ==
  /\ tests \in [1..Length -> Configs]
  /\ current = 1
  /\ pc = "cleanup"
  /\ node = 1 /\ iteration = 0 /\ mode = 0 /\ tries = 0 /\ testpods = <<>>
  /\ result = NoResult /\ results = <<>> /\ summary = NoSummary /\ error = FALSE
  /\ pods = [k \in Kinds |-> [n \in Nodes |-> NoPod]]
  /\ svcs = [k \in Kinds |-> [n \in Nodes |-> 0]]
  /\ policy = 0
  /\ inherited = FALSE /\ stale = {} /\ succeeded = 0 /\ faults = 0

-----------------------------------------------------------------------------
(* The namespace is cleaned up before each test and after it.              *)

\* Mutant of Doomed: only the pods this test has made.
DoomedOwn(k, n) == pods[k][n].by = current

\* The pods that DeletePodsWithLabel finds, called for the label of each kind.
Doomed(k, n) == pods[k][n].by # 0

Deleted(p) == [p EXCEPT !.terminating = TRUE]

\* The calls of cleanupNamespace that matter here.
Calls == ({"svcs", "pods"} \X Kinds) \cup {<<"policies", "all">>}

\* cleanupNamespace: a call that fails has stopped at a node, or at the policy, and is logged.
CleanUp(failing, stop) ==
  LET Reached(call, n) == call \notin failing \/ n < stop[call]
  IN /\ svcs' = [k \in Kinds |-> [n \in Nodes |->
                   IF Reached(<<"svcs", k>>, n) THEN 0 ELSE svcs[k][n]]]
     /\ pods' = [k \in Kinds |-> [n \in Nodes |->
                   IF Reached(<<"pods", k>>, n) /\ Doomed(k, n) THEN Deleted(pods[k][n])
                                                               ELSE pods[k][n]]]
     /\ policy' = IF <<"policies", "all">> \in failing THEN policy ELSE 0

\* The cleanup, carried out, cut short, or not asked for.
Cleanup(failed) ==
  \/ /\ cfg.leaveStandingConfig
     /\ failed = TRUE
     /\ UNCHANGED <<namespace, faults>>
  \/ /\ ~cfg.leaveStandingConfig
     /\ \E failing \in SUBSET Calls :
          /\ failed = (failing # {})
          /\ faults' = faults + Cardinality(failing)
          /\ faults' <= MaxFaults
          /\ \E stop \in [failing -> Nodes] : CleanUp(failing, stop)

CleanupBefore ==
  /\ pc = "cleanup"
  /\ \E failed \in BOOLEAN : Cleanup(failed) /\ inherited' = failed
  /\ pc' = "policy"
  /\ UNCHANGED <<run, node, iterating, outcome, stale>>

Teardown ==
  /\ pc = "teardown"
  /\ \E failed \in BOOLEAN : Cleanup(failed)
  /\ pc' = "done"
  /\ UNCHANGED <<run, node, iterating, outcome, history>>

NextTest ==
  /\ pc = "done"
  /\ current < Length
  /\ current' = current + 1
  /\ pc' = "cleanup"
  /\ node' = 1 /\ iteration' = 0 /\ mode' = 0 /\ tries' = 0 /\ testpods' = <<>>
  /\ result' = NoResult /\ results' = <<>> /\ summary' = NoSummary /\ error' = FALSE
  /\ inherited' = FALSE /\ stale' = {} /\ succeeded' = 0
  /\ UNCHANGED <<tests, namespace, faults>>

-----------------------------------------------------------------------------
(* The policy, the pods and the services of the test.                      *)

Fault == faults < MaxFaults /\ faults' = faults + 1

\* An error before the iterations: the function returns.
GiveUp == pc' = "teardown" /\ error' = TRUE

\* Mutant of NewPolicy: an existing policy is good enough.
OldPolicy == IF policy = 0 THEN current ELSE policy

\* CreateTestPolicy deletes the policy before it creates it.
NewPolicy == current

CreateTestPolicy ==
  /\ pc = "policy"
  /\ \/ /\ policy' = NewPolicy
        /\ pc' = "deploy"
        /\ UNCHANGED <<error, faults>>
     \/ /\ Fault
        /\ policy' \in {policy, 0, current}
        /\ GiveUp
  /\ UNCHANGED <<run, node, iterating, results, summary, succeeded, pods, svcs, history>>

\* GetOrCreatePod: whatever pod has the name will do.
GetOrCreatePod(n) ==
  /\ pods' = IF pods[kind][n].by # 0 THEN pods
             ELSE [pods EXCEPT ![kind][n] = [NoPod EXCEPT !.by = current]]
  /\ stale' = IF pods[kind][n].terminating THEN stale \cup {n} ELSE stale

GetOrCreateSvc(n) ==
  svcs' = IF svcs[kind][n] # 0 THEN svcs ELSE [svcs EXCEPT ![kind][n] = current]

\* One node's pod and service.  A call may take effect although it is answered with an error.
Deploy ==
  /\ pc = "deploy"
  /\ \/ /\ GetOrCreatePod(node)
        /\ GetOrCreateSvc(node)
        /\ IF node < NumNodes THEN node' = node + 1 /\ pc' = pc
                              ELSE pc' = "iterate" /\ node' = node
        /\ UNCHANGED <<error, faults>>
     \/ /\ Fault
        /\ GiveUp
        /\ \/ UNCHANGED <<pods, stale, svcs>>
           \/ GetOrCreatePod(node) /\ (GetOrCreateSvc(node) \/ UNCHANGED svcs)
        /\ UNCHANGED node
  /\ UNCHANGED <<run, iterating, results, summary, succeeded, policy, inherited>>

-----------------------------------------------------------------------------
(* The iterations.                                                         *)

Last == Len(Order) + 1

\* The first mode asked for after position i, or Last.
ModeAfter(i) ==
  CHOOSE j \in (i + 1)..Last :
    /\ j = Last \/ Order[j] \in cfg.modes
    /\ \A h \in (i + 1)..(j - 1) : Order[h] \notin cfg.modes

\* Modes that are measured from a pod.
Internal == {"direct", "service"}

\* iperf waits for its pods whatever it measures, qperf only if it needs them.
WaitsFirst == kind = "iperf" \/ cfg.modes \cap Internal # {}

\* qperf waits for the pods again, each time it uses one.
WaitsBefore(i) == kind = "qperf" /\ i < Last /\ Order[i] \in Internal

\* Mutant of Keeps: what a failed iteration has measured so far is a result, too.
KeepsPartial(complete) == TRUE

\* Only complete results are kept.
Keeps(complete) == complete

\* RunIperfTests or RunQperfTests returns res.
EndIteration(complete, res) ==
  /\ pc' = "iterate"
  /\ results' = IF Keeps(complete) THEN Append(results, res) ELSE results
  /\ succeeded' = IF complete THEN succeeded + 1 ELSE succeeded

\* Goes on to the mode at position i.
Enter(i) ==
  /\ mode' = i
  /\ tries' = 0
  /\ IF i = Last THEN EndIteration(TRUE, result')
     ELSE pc' = (IF WaitsBefore(i) THEN "wait" ELSE "measure") /\ UNCHANGED <<results, succeeded>>

Begin ==
  /\ pc = "iterate"
  /\ iteration < cfg.iterations
  /\ iteration' = iteration + 1
  /\ result' = NoResult
  /\ testpods' = <<>>
  /\ IF WaitsFirst
     THEN pc' = "wait" /\ mode' = 0 /\ tries' = 0 /\ UNCHANGED <<results, succeeded>>
     ELSE Enter(ModeAfter(0))
  /\ UNCHANGED <<run, node, summary, error, namespace, history, faults>>

Listed == {n \in Nodes : pods[kind][n].by # 0}

\* Mutant of Found: the running ones, if they are enough.
FoundRunning ==
  LET ready == {n \in Listed : pods[kind][n].running}
  IN IF Cardinality(ready) >= 2 THEN ready ELSE {}

\* The pods with the label, if there are any and all of them run.
Found == IF \A n \in Listed : pods[kind][n].running THEN Listed ELSE {}

\* A set of nodes in the order of their names, each with the maker of its pod.
InOrder(S) ==
  [i \in 1..Cardinality(S) |->
     LET n == CHOOSE x \in S : Cardinality({y \in S : y < x}) = i - 1
     IN <<n, pods[kind][n].by>>]

\* Mutant of Patient: until the pods run.
AlwaysPatient == TRUE

\* Whether WaitForTestPods has another attempt after this one.
Patient == tries + 1 < MaxTries

\* An attempt of WaitForTestPods that finds what it waits for.
PodsAreUp ==
  /\ pc = "wait"
  /\ Found # {}
  /\ IF mode # 0
     THEN pc' = "measure" /\ UNCHANGED <<mode, tries, testpods, results, succeeded>>
     ELSE IF Cardinality(Found) < 2
     THEN EndIteration(FALSE, result) /\ UNCHANGED <<mode, tries, testpods>>
     ELSE testpods' = InOrder(Found) /\ Enter(ModeAfter(0))
  /\ UNCHANGED <<run, node, iteration, result, summary, error, namespace, history, faults>>

\* One that does not, or that gets no answer.
PodsAreNotUp ==
  /\ pc = "wait"
  /\ \/ Found = {} /\ UNCHANGED faults
     \/ Fault
  /\ IF Patient
     THEN /\ tries' = IF tries < MaxTries THEN tries + 1 ELSE tries
          /\ UNCHANGED <<pc, results, succeeded>>
     ELSE tries' = 0 /\ EndIteration(FALSE, result)
  /\ UNCHANGED <<run, node, iteration, mode, testpods, result, summary, error, namespace, history>>

-----------------------------------------------------------------------------
(* One measurement.  The first of the test pods serves, the second runs    *)
(* the client.                                                             *)

IsUp(n) == pods[kind][n].by # 0 /\ pods[kind][n].running

\* Mutant of Selected: the label of the app alone.
SelectedByApp(n) == {x \in Nodes : IsUp(x)}

\* The pods behind the service of a node: MakeSvc selects by app and by pod.
Selected(n) == {x \in {n} : IsUp(x)}

\* Where a connection from a pod may end up.
Servers ==
  LET first == testpods[1][1]
  IN IF Order[mode] = "direct"
     THEN {n \in {first} : IsUp(n) /\ pods[kind][n].by = testpods[1][2]}
     ELSE IF svcs[kind][first] # 0 /\ tests[svcs[kind][first]].port = cfg.port
     THEN Selected(first)
     ELSE {}

\* What can be measured.
Samples ==
  IF Order[mode] = "external"
  THEN [client : {<<0, 0>>}, server : {<<0, 0>>}, svc : {0},
        unit : IF kind = "qperf" THEN {"known", "unknown"} ELSE {"known"}]
  ELSE LET client == testpods[2][1]
           listening == {n \in Servers : tests[pods[kind][n].by].port = cfg.port}
       IN [client : {<<n, pods[kind][n].by>> : n \in {x \in {client} : IsUp(x)}},
           server : {<<n, pods[kind][n].by>> : n \in listening},
           svc : IF Order[mode] = "service" THEN {svcs[kind][testpods[1][1]]} ELSE {0},
           unit : IF kind = "qperf" THEN {"known", "unknown"} ELSE {"known"}]

Measure ==
  /\ pc = "measure"
  /\ \E s \in Samples : result' = [result EXCEPT ![Order[mode]] = s]
  /\ Enter(ModeAfter(mode))
  /\ UNCHANGED <<run, node, iteration, testpods, summary, error, namespace, history, faults>>

\* All retries have failed, or the output makes no sense.
MeasureFails ==
  /\ pc = "measure"
  /\ EndIteration(FALSE, result)
  /\ UNCHANGED <<run, node, iterating, summary, error, namespace, history, faults>>

-----------------------------------------------------------------------------
\* The values of a mode; one that did not run is all zero.
Values(m) ==
  LET of[i \in 0..Len(results)] ==
        IF i = 0 THEN <<>>
        ELSE IF results[i][m] = NoSample THEN of[i - 1]
        ELSE Append(of[i - 1], results[i][m])
  IN  of[Len(results)]

\* SummarizeResults; a unit it does not know is an error, and nothing is reported.
Summarize ==
  /\ pc = "iterate"
  /\ iteration = cfg.iterations
  /\ pc' = "teardown"
  /\ LET all == [m \in Modes |-> Values(m)]
         unknown == \E m \in Modes : \E i \in 1..Len(all[m]) : all[m][i].unit = "unknown"
     IN IF results = <<>>
        THEN error' = (cfg.iterations > 0) /\ UNCHANGED summary
        ELSE error' = unknown /\ summary' = IF unknown THEN NoSummary ELSE all
  /\ UNCHANGED <<run, node, iterating, results, succeeded, namespace, history, faults>>

\* The kubelets.
PodRuns(k, n) ==
  /\ pods[k][n].by # 0 /\ ~pods[k][n].running /\ ~pods[k][n].terminating
  /\ pods' = [pods EXCEPT ![k][n].running = TRUE]
  /\ UNCHANGED <<run, pc, node, iterating, outcome, svcs, policy, history, faults>>

PodGone(k, n) ==
  /\ pods[k][n].terminating
  /\ pods' = [pods EXCEPT ![k][n] = NoPod]
  /\ UNCHANGED <<run, pc, node, iterating, outcome, svcs, policy, history, faults>>

Program ==
  \/ CleanupBefore \/ CreateTestPolicy \/ Deploy \/ Begin \/ PodsAreUp \/ PodsAreNotUp
  \/ Measure \/ MeasureFails \/ Summarize \/ Teardown \/ NextTest

Kubelets == \E k \in Kinds, n \in Nodes : PodRuns(k, n) \/ PodGone(k, n)

Next == Program \/ Kubelets

\* The driver goes on; nothing is assumed of the kubelets.
Spec == Init /\ [][Next]_vars /\ WF_vars(Program)

-----------------------------------------------------------------------------
Pod == [by : 0..Length, running : BOOLEAN, terminating : BOOLEAN]
Place == (0..NumNodes) \X (0..Length)
Sample == [client : Place, server : Place, svc : 0..Length, unit : {"", "known", "unknown"}]

TypeOK ==
  /\ tests \in [1..Length -> Configs] /\ current \in 1..Length
  /\ pc \in {"cleanup", "policy", "deploy", "iterate", "wait", "measure", "teardown", "done"}
  /\ node \in Nodes /\ iteration \in 0..cfg.iterations /\ mode \in 0..Last
  /\ tries \in 0..MaxTries
  /\ testpods \in Seq(Nodes \X (1..Length))
  /\ result \in [Modes -> Sample] /\ results \in Seq([Modes -> Sample])
  /\ summary \in [Modes -> Seq(Sample)] /\ error \in BOOLEAN
  /\ pods \in [Kinds -> [Nodes -> Pod]] /\ svcs \in [Kinds -> [Nodes -> 0..Length]]
  /\ \A k \in Kinds, n \in Nodes :
       /\ svcs[k][n] <= current /\ pods[k][n].by <= current
       /\ pods[k][n].by = 0 => pods[k][n] = NoPod
  /\ policy \in 0..current
  /\ inherited \in BOOLEAN /\ stale \subseteq Nodes
  /\ succeeded \in 0..iteration /\ faults \in 0..MaxFaults

Over == pc \in {"teardown", "done"}

\* A result without an error has, for every mode that was asked for, one value per
\* iteration that measured all of them, at least one if any was asked for, and none for a
\* mode that was not: a partly filled iteration never counts (runOneTest, and the skipping
\* of modes that did not run in SummarizeResults).
SummariesAreComplete ==
  Over /\ ~error =>
    /\ cfg.iterations > 0 => succeeded > 0
    /\ \A m \in Modes : Len(summary[m]) = IF m \in cfg.modes THEN succeeded ELSE 0

\* A test that begins with a cleanup in which no call failed runs under its own policy and
\* takes its values from its own pods and services, except for pods that were terminating
\* when it looked for its own (cleanupNamespace, CreateTestPolicy, GetOrCreatePod).
InheritsOnlyWhatTerminates ==
  /\ pc \in {"wait", "measure"} => policy = current
  /\ ~inherited =>
       \A m \in Modes \cap Internal : \A i \in 1..Len(summary[m]) :
         LET s == summary[m][i]
         IN /\ s.svc \in {0, current}
            /\ \A p \in {s.client, s.server} : p[2] = current \/ p[1] \in stale

\* A test measures one path: client and server are on different nodes, which is what there
\* is one service per pod for (MakeSvc), and all iterations go between the same two pods,
\* unless a pod was terminating before the first (WaitForTestPods waits for all of them).
OnePath ==
  \A i \in 1..Len(results), m \in cfg.modes \cap Internal :
    LET r == results[i][m]
    IN /\ r.client[1] # r.server[1]
       /\ stale = {} => \A j \in 1..Len(results) :
            r.client = results[j][m].client /\ r.server = results[j][m].server

\* Every test ends, although pods may never start (WaitForTestPods gives up).
TestsEnd == <>[](pc = "done" /\ current = Length)

-----------------------------------------------------------------------------
(* The inductive invariant, in parts.                                      *)

Iterating == pc \in {"iterate", "wait", "measure"}

\* The nodes that Deploy has not come to.
Ahead(n) == pc = "policy" \/ (pc = "deploy" /\ n >= node)

\* What was cleaned up is gone or terminates until the deployment comes to it, and then it
\* is noted; with nothing noted all pods that were deployed are there to stay.
Deployed ==
  /\ pc \in {"cleanup", "policy"} => stale = {} /\ node = 1
  /\ pc \in {"deploy", "iterate", "wait", "measure"} => policy = current
  /\ pc \in {"policy", "deploy", "iterate", "wait", "measure"} =>
       \A n \in Nodes :
         /\ ~inherited =>
              /\ svcs[kind][n] \in {0, current}
              /\ \/ pods[kind][n].by \in {0, current}
                 \/ n \in stale
                 \/ Ahead(n) /\ pods[kind][n].terminating
         /\ stale = {} /\ ~Ahead(n) => pods[kind][n].by # 0 /\ ~pods[kind][n].terminating

\* The modes measured so far are those asked for, in their order.
Proceeds ==
  /\ pc = "wait" => mode < Last /\ (mode = 0 => WaitsFirst)
  /\ pc = "measure" => mode \in 1..(Last - 1)
  /\ pc \in {"wait", "measure"} =>
       /\ mode # 0 => Order[mode] \in cfg.modes
       /\ \A i \in 1..(Last - 1) :
            result[Order[i]] # NoSample <=> i < mode /\ Order[i] \in cfg.modes

\* The test pods are on different nodes, and always the same without stale pods.
Paired ==
  /\ pc \in {"wait", "measure"} /\ mode # 0 /\ cfg.modes \cap Internal # {} =>
       Len(testpods) >= 2
  /\ Len(testpods) >= 2 =>
       /\ testpods[1][1] # testpods[2][1]
       /\ stale = {} => testpods[1][1] = 1 /\ testpods[2][1] = 2

Own(s) ==
  /\ s.svc \in {0, current}
  /\ \A p \in {s.client, s.server} : p[2] = current \/ p[1] \in stale

\* The sample comes from the first pod and the second.
OfFirstTwo(s) ==
  s.client = <<2, pods[kind][2].by>> /\ s.server = <<1, pods[kind][1].by>>

\* What is wanted of a sample that was taken between two pods.
Fair(s) ==
  /\ s.client[1] # s.server[1]
  /\ ~inherited => Own(s)
  /\ stale = {} /\ Iterating => OfFirstTwo(s)

FairSamples ==
  \A m \in Internal :
    /\ pc \in {"wait", "measure"} /\ result[m] # NoSample => Fair(result[m])
    /\ \A i \in DOMAIN results : results[i][m] # NoSample => Fair(results[i][m])

\* The results are those of the iterations that measured all that was asked for.
Kept ==
  /\ Len(results) = succeeded
  /\ pc \in {"wait", "measure"} => succeeded < iteration
  /\ pc \in {"cleanup", "policy", "deploy"} => results = <<>>
  /\ ~Over => ~error /\ summary = NoSummary
  /\ \A i \in DOMAIN results : \A m \in Modes :
       results[i][m] # NoSample <=> m \in cfg.modes

\* What was true of the results is true of what is reported of them.
Reported ==
  /\ SummariesAreComplete
  /\ OnePath
  /\ ~inherited => \A m \in Internal : \A i \in DOMAIN summary[m] : Own(summary[m][i])

PerfTestInv ==
  TypeOK /\ Deployed /\ Proceeds /\ Paired /\ FairSamples /\ Kept /\ Reported

=============================================================================
