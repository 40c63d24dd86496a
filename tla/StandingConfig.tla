--------------------------- MODULE StandingConfig ---------------------------
(***************************************************************************)
(* The standing config of a run of several tests in one namespace:         *)
(* SetupStandingConfig (pkg/cluster/cluster.go), the helpers of            *)
(* pkg/utils/k8s_utils.go it calls, and cleanupNamespace                   *)
(* (cmd/benchmark.go), against an API server whose calls may fail and      *)
(* controllers that act asynchronously.                                    *)
(*                                                                         *)
(* A test that leaves its standing config up hands it to the next test,    *)
(* and so does a cleanup whose deletes fail.  Bulk calls appear through    *)
(* the contract that Policies and WorkerPool establish.                    *)
(***************************************************************************)
EXTENDS Naturals, FiniteSets

CONSTANTS
  Configs,      (* test configs: numbers of policies, idle policies, pods  *)
                (* and services, and whether the standing config is left   *)
  BackendPods,  (* replicas of standing-svc, 10 in the code                *)
  MaxAttempts,  (* polls of WaitForDeployment, 11 in the code              *)
  MaxTests,     (* bound: tests of a run                                   *)
  MaxFaults     (* bound: API calls that fail in a run                     *)

ASSUME StandingAssumption ==
  /\ Configs # {}
  /\ \A c \in Configs :
       /\ c.numPolicies \in Nat /\ c.numIdlePolicies \in Nat
       /\ c.numPods \in Nat /\ c.numServices \in Nat
       /\ c.leaveStandingConfig \in BOOLEAN
  /\ BackendPods \in Nat /\ MaxAttempts \in Nat \ {0}
  /\ MaxTests \in Nat /\ MaxFaults \in Nat

Deployments == {"standing-deployment", "standing-svc"}

Prefixes == {"policy", "idle-policy"}

Absent == [exists |-> FALSE]

VARIABLES
  pc,         (* where the benchmark is                                    *)
  cfg,        (* the config of the current test                            *)
  tests,      (* number of tests begun                                     *)
  target,     (* the deployment that is created, scaled and waited for     *)
  attempts,   (* polls made of the target                                  *)
  policies,   (* per prefix, the indexes of the policies in the namespace  *)
  services,   (* the indexes of the standing services                      *)
  dep,        (* per deployment, Absent or its spec, labels and status     *)
  faults,     (* number of API calls that failed so far                    *)
  undisturbed (* the current test has met no failed call, cleanup included *)

cluster == <<policies, services, dep>>
vars == <<pc, cfg, tests, target, attempts, cluster, faults, undisturbed>>

Init ==
  /\ pc = "next"
  /\ cfg \in Configs
  /\ tests = 0
  /\ target = "standing-deployment"
  /\ attempts = 0
  /\ policies = [p \in Prefixes |-> {}]
  /\ services = {}
  /\ dep = [d \in Deployments |-> Absent]
  /\ faults = 0
  /\ undisturbed = TRUE

Below(n) == {i \in 0..n : i < n}     \* the indexes 0..n-1

Fault ==
  /\ faults < MaxFaults
  /\ faults' = faults + 1
  /\ undisturbed' = FALSE

NoFault == UNCHANGED <<faults, undisturbed>>

Goto(label) == pc' = label /\ UNCHANGED <<cfg, tests>>

-----------------------------------------------------------------------------
(* The benchmark.                                                          *)

NextTest ==
  /\ pc = "next"
  /\ tests < MaxTests
  /\ tests' = tests + 1
  /\ cfg' \in Configs
  /\ pc' = "cleanup"
  /\ undisturbed' = TRUE
  /\ UNCHANGED <<target, attempts, cluster, faults>>

Objects ==
  {<<"deployment", d>> : d \in {d \in Deployments : dep[d].exists}}
  \cup {<<"service", i>> : i \in services}
  \cup UNION {{<<p, i>> : i \in policies[p]} : p \in Prefixes}

\* Mutants of DeleteAllBut: the services, or the policies, are not deleted.
DeleteAllButServices(kept) ==
  /\ policies' = [p \in Prefixes |-> {i \in policies[p] : <<p, i>> \in kept}]
  /\ UNCHANGED services
  /\ dep' = [d \in Deployments |->
               IF <<"deployment", d>> \in kept THEN dep[d] ELSE Absent]

DeleteAllButPolicies(kept) ==
  /\ UNCHANGED policies
  /\ services' = {i \in services : <<"service", i>> \in kept}
  /\ dep' = [d \in Deployments |->
               IF <<"deployment", d>> \in kept THEN dep[d] ELSE Absent]

\* The deletes of cleanupNamespace, none of which waits: a list or a delete that fails is
\* logged, its kind is left incomplete and the remaining kinds are deleted all the same.
DeleteAllBut(kept) ==
  /\ policies' = [p \in Prefixes |-> {i \in policies[p] : <<p, i>> \in kept}]
  /\ services' = {i \in services : <<"service", i>> \in kept}
  /\ dep' = [d \in Deployments |->
               IF <<"deployment", d>> \in kept THEN dep[d] ELSE Absent]

Cleanup ==
  /\ pc \in {"cleanup", "teardown"}
  /\ Goto(IF pc = "cleanup" THEN "policy" ELSE "next")
  /\ target' = "standing-deployment"
  /\ attempts' = 0
  /\ IF cfg.leaveStandingConfig
     THEN UNCHANGED cluster /\ NoFault
     ELSE \/ DeleteAllBut({}) /\ NoFault
          \/ (\E kept \in SUBSET Objects : DeleteAllBut(kept)) /\ Fault

Wanted(prefix) == IF prefix = "policy" THEN cfg.numPolicies ELSE cfg.numIdlePolicies

\* DeployPolicies and DeployIdlePolicies: success when every index to create is missing
\* and every index to delete is there; otherwise an unknown part has been done.
DeployPolicies(prefix) ==
  LET here == policies[prefix]
      n == Cardinality(here)
      want == Wanted(prefix)
      extra == Below(want) \ Below(n)
      surplus == Below(n) \ Below(want)
      done(S) == [policies EXCEPT ![prefix] = S]
      works == extra \cap here = {} /\ surplus \subseteq here
  IN  /\ pc = prefix
      /\ UNCHANGED <<target, attempts, services, dep>>
      /\ \/ /\ works
            /\ policies' = done((here \cup extra) \ surplus)
            /\ Goto(IF prefix = "policy" THEN "idle-policy" ELSE "deploy")
            /\ NoFault
         \/ /\ ~works
            /\ policies' = done((here \cup extra) \ surplus)
            /\ Goto("teardown")
            /\ NoFault
         \/ /\ Fault
            /\ \E part \in SUBSET (extra \cup surplus) :
                 policies' = done((here \cup (extra \cap part)) \ (surplus \cap part))
            /\ Goto("teardown")

Replicas(d) == IF d = "standing-svc" THEN BackendPods ELSE cfg.numPods

Labels(d) == IF d = "standing-svc" THEN {} ELSE Below(cfg.numPolicies)

\* A call that fails makes SetupStandingConfig return its error; the test is over.
GiveUp ==
  /\ pc \in {"deploy", "scale", "wait"}
  /\ Fault
  /\ Goto("teardown")
  /\ UNCHANGED <<target, attempts, cluster>>

\* GetOrCreateDeployment: an existing deployment is used as it is, labels included.
GetOrCreateDeployment ==
  /\ pc = "deploy"
  /\ dep' = IF dep[target].exists THEN dep
            ELSE [dep EXCEPT ![target] =
                    [exists |-> TRUE, spec |-> Replicas(target), labels |-> Labels(target),
                     replicas |-> 0, ready |-> 0]]
  /\ Goto("scale")
  /\ NoFault
  /\ UNCHANGED <<target, attempts, policies, services>>

\* Mutant of ScaleDeployment: an existing deployment keeps its size.
ScaleNothing ==
  /\ pc = "scale"
  /\ attempts' = 0
  /\ Goto("wait")
  /\ NoFault
  /\ UNCHANGED <<target, cluster>>

ScaleDeployment ==
  /\ pc = "scale"
  /\ dep' = [dep EXCEPT ![target].spec = Replicas(target)]
  /\ attempts' = 0
  /\ Goto("wait")
  /\ NoFault
  /\ UNCHANGED <<target, policies, services>>

\* Mutant of WaitForDeployment: polls without a bound.
WaitForever ==
  /\ pc = "wait"
  /\ dep[target].ready = dep[target].replicas
  /\ target' = "standing-svc"
  /\ attempts' = 0
  /\ Goto(IF target = "standing-svc" THEN "services" ELSE "deploy")
  /\ NoFault
  /\ UNCHANGED cluster

\* One poll of WaitForDeployment, which compares two fields of the status.
WaitForDeployment ==
  /\ pc = "wait"
  /\ NoFault
  /\ UNCHANGED cluster
  /\ IF dep[target].ready = dep[target].replicas
     THEN /\ target' = "standing-svc"
          /\ attempts' = 0
          /\ Goto(IF target = "standing-svc" THEN "services" ELSE "deploy")
     ELSE /\ UNCHANGED target
          /\ attempts' = attempts + 1
          /\ Goto(IF attempts + 1 = MaxAttempts THEN "teardown" ELSE "wait")

\* The service loop: GetOrCreateSvc for each index; an error leaves out any of them.
CreateServices ==
  LET wanted == Below(cfg.numServices) IN
  /\ pc = "services"
  /\ UNCHANGED <<target, attempts, policies, dep>>
  /\ \/ /\ services' = services \cup wanted
        /\ Goto("run")
        /\ NoFault
     \/ /\ \E part \in SUBSET wanted : services' = services \cup part
        /\ Goto("teardown")
        /\ Fault

\* The test proper; whatever it does, the deferred teardown follows.
RunTest ==
  /\ pc = "run"
  /\ Goto("teardown")
  /\ NoFault
  /\ UNCHANGED <<target, attempts, cluster>>

Program ==
  \/ NextTest
  \/ Cleanup
  \/ \E prefix \in Prefixes : DeployPolicies(prefix)
  \/ GiveUp
  \/ GetOrCreateDeployment
  \/ ScaleDeployment
  \/ WaitForDeployment
  \/ CreateServices
  \/ RunTest

-----------------------------------------------------------------------------
(* The cluster.                                                            *)

Program_unchanged == <<pc, cfg, tests, target, attempts, faults, undisturbed>>

\* The deployment controller brings the number of pods to the spec and reports it.
Reconcile(d) ==
  /\ dep[d].exists
  /\ dep[d].replicas # dep[d].spec
  /\ dep' = [dep EXCEPT ![d].replicas = dep[d].spec,
                        ![d].ready = IF @ < dep[d].spec THEN @ ELSE dep[d].spec]
  /\ UNCHANGED <<policies, services, Program_unchanged>>

PodReady(d) ==
  /\ dep[d].exists
  /\ dep[d].ready < dep[d].replicas
  /\ dep' = [dep EXCEPT ![d].ready = @ + 1]
  /\ UNCHANGED <<policies, services, Program_unchanged>>

Finished ==
  /\ pc = "next"
  /\ tests = MaxTests
  /\ UNCHANGED vars

Next ==
  \/ Program
  \/ \E d \in Deployments : Reconcile(d) \/ PodReady(d)
  \/ Finished

\* The program is one goroutine and its calls are answered; nothing is assumed of the
\* controllers, which may be slow or stuck.
Spec == Init /\ [][Next]_vars /\ WF_vars(Program)

-----------------------------------------------------------------------------
Deployed ==
  [exists : {TRUE}, spec : Nat, labels : SUBSET Nat, replicas : Nat, ready : Nat]

TypeOK ==
  /\ pc \in {"next", "cleanup", "policy", "idle-policy", "deploy", "scale", "wait",
             "services", "run", "teardown"}
  /\ cfg \in Configs
  /\ tests \in 0..MaxTests
  /\ target \in Deployments
  /\ attempts \in 0..MaxAttempts
  /\ policies \in [Prefixes -> SUBSET Nat]
  /\ services \subseteq Nat
  /\ dep \in [Deployments -> {Absent} \cup Deployed]
  /\ faults \in 0..MaxFaults
  /\ undisturbed \in BOOLEAN

\* Whatever earlier tests left behind, a test only runs with the number of policies of
\* each kind it asked for, both deployments at the size it asked for, and no service
\* missing.
RunsWithWhatItNeeds ==
  pc = "run" =>
    /\ \A p \in Prefixes : Cardinality(policies[p]) = Wanted(p)
    /\ \A d \in Deployments : dep[d].exists /\ dep[d].spec = Replicas(d)
    /\ Below(cfg.numServices) \subseteq services

\* A test that does not leave its standing config also starts from none, so when no call
\* has failed it runs with exactly what it asked for, labels included, even after tests
\* that left other resources or failed half way.
ExactAfterCleanup ==
  pc = "run" /\ undisturbed /\ ~cfg.leaveStandingConfig =>
    /\ services = Below(cfg.numServices)
    /\ \A p \in Prefixes : policies[p] = Below(Wanted(p))
    /\ \A d \in Deployments : dep[d].labels = Labels(d)

\* Such a test cannot be stopped by the leftovers of another: unless one of its own calls
\* fails or its pods do not come up in time, it gets to run.
LeftoversDoNotStopIt ==
  [][pc # "teardown" /\ pc' = "teardown" /\ undisturbed' /\ ~cfg.leaveStandingConfig =>
       pc = "run" \/ (pc = "wait" /\ attempts' = MaxAttempts)]_vars

\* The run of all tests comes to an end although pods may never come up: every wait is
\* bounded.
RunEnds == <>(pc = "next" /\ tests = MaxTests)

\* pkg/utils/k8s_utils.go:398: "WaitForDeployment waits for a deployment to be ready";
\* README.md:207: "Wait for those to come up."
StandingPodsAreUp ==
  pc = "run" => dep["standing-deployment"].ready = cfg.numPods

\* The steps of SetupStandingConfig, and the test after it.
Setup == {"policy", "idle-policy", "deploy", "scale", "wait", "services", "run"}

\* Where the policies of a kind, or the first deployment, have been dealt with.
HasPolicies(prefix) == pc \in Setup \ {"policy", prefix}

HasPods == target = "standing-svc" /\ pc \in Setup

Scaled(d) == dep[d].exists /\ dep[d].spec = Replicas(d)

\* What holds at each step on the way to RunsWithWhatItNeeds.
Progress ==
  /\ \A p \in Prefixes : IsFiniteSet(policies[p])
  /\ \A p \in Prefixes : HasPolicies(p) => Cardinality(policies[p]) = Wanted(p)
  /\ pc \in {"policy", "idle-policy"} => target = "standing-deployment"
  /\ HasPods => Scaled("standing-deployment")
  /\ pc = "scale" => dep[target].exists
  /\ pc = "wait" => attempts < MaxAttempts
  /\ pc \in {"wait", "services", "run"} => Scaled(target)
  /\ pc \in {"services", "run"} => target = "standing-svc"
  /\ pc = "run" => Below(cfg.numServices) \subseteq services

\* What holds after a complete cleanup while no call fails: what there is has been made by
\* this test.
Own ==
  /\ \A p \in Prefixes : policies[p] = IF HasPolicies(p) THEN Below(Wanted(p)) ELSE {}
  /\ \A d \in Deployments : dep[d] = Absent \/ dep[d].labels = Labels(d)
  /\ services = IF pc = "run" THEN Below(cfg.numServices) ELSE {}

\* The inductive invariant of this module.
StandingInv ==
  /\ TypeOK
  /\ Progress
  /\ pc \in Setup /\ undisturbed /\ ~cfg.leaveStandingConfig => Own

=============================================================================
