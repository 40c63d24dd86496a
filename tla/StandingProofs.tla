--------------------------- MODULE StandingProofs ---------------------------
(***************************************************************************)
(* What a test finds in its namespace when it runs, for every set of       *)
(* configs, every number of tests and every number of calls that fail.     *)
(***************************************************************************)
EXTENDS StandingConfig, FiniteSetTheorems, TLAPS

USE StandingAssumption

-----------------------------------------------------------------------------
(* Facts about numbers of policies.                                        *)

\* Below(n) has n elements.
LEMMA BelowCounts ==
  ASSUME NEW n \in Nat
  PROVE  /\ Below(n) \in SUBSET Nat
         /\ IsFiniteSet(Below(n))
         /\ Cardinality(Below(n)) = n
<1>1. Below(n) = 0..n - 1
  BY DEF Below
<1>2. IsFiniteSet(0..n - 1) /\ Cardinality(0..n - 1) = n
  <2>1. 0 \in Int /\ n - 1 \in Int
    OBVIOUS
  <2> QED
    BY <2>1, FS_Interval
<1> QED
  BY <1>1, <1>2

\* Creating the missing indexes from n on, or deleting those from the number wanted on,
\* gives the number wanted when none of them was (or all of them were) there.
LEMMA DifferenceCounts ==
  ASSUME NEW here, IsFiniteSet(here), NEW want \in Nat, NEW n \in Nat, n = Cardinality(here),
         (Below(want) \ Below(n)) \cap here = {},
         (Below(n) \ Below(want)) \subseteq here
  PROVE  LET result == (here \cup (Below(want) \ Below(n))) \ (Below(n) \ Below(want))
         IN  IsFiniteSet(result) /\ Cardinality(result) = want
<1> DEFINE extra == Below(want) \ Below(n)
           surplus == Below(n) \ Below(want)
           result == (here \cup extra) \ surplus
<1>1. ASSUME NEW a \in Nat, NEW b \in Nat, a <= b
      PROVE  IsFiniteSet(a..b - 1) /\ Cardinality(a..b - 1) = b - a
  <2>1. a \in Int /\ b - 1 \in Int
    OBVIOUS
  <2>2. IsFiniteSet(a..b - 1)
        /\ Cardinality(a..b - 1) = IF a > b - 1 THEN 0 ELSE (b - 1) - a + 1
    BY <2>1, FS_Interval
  <2> QED
    BY <1>1, <2>2
<1>2. ASSUME n <= want
      PROVE  IsFiniteSet(result) /\ Cardinality(result) = want
  <2>1. extra = n..want - 1 /\ surplus = {}
    BY <1>2 DEF Below
  <2>2. here \cap extra = {} /\ result = here \cup extra
    BY <2>1
  <2> HIDE DEF extra, surplus, result
  <2>3. IsFiniteSet(extra) /\ Cardinality(extra) = want - n
    BY <1>1, <1>2, <2>1, Zenon
  <2>4. /\ IsFiniteSet(here \cup extra)
        /\ Cardinality(here \cup extra) = Cardinality(here) + Cardinality(extra)
                                            - Cardinality(here \cap extra)
    BY <2>3, FS_Union
  <2>5. Cardinality(here \cap extra) = 0
    BY <2>2, FS_EmptySet
  <2> QED
    BY <2>2, <2>3, <2>4, <2>5
<1>3. ASSUME want <= n
      PROVE  IsFiniteSet(result) /\ Cardinality(result) = want
  <2>1. surplus = want..n - 1 /\ extra = {}
    BY <1>3 DEF Below
  <2>2. here \cap surplus = surplus /\ result = here \ surplus
    BY <2>1
  <2> HIDE DEF extra, surplus, result
  <2>3. IsFiniteSet(surplus) /\ Cardinality(surplus) = n - want
    BY <1>1, <1>3, <2>1, Zenon
  <2>4. /\ IsFiniteSet(here \ surplus)
        /\ Cardinality(here \ surplus) = Cardinality(here) - Cardinality(here \cap surplus)
    BY FS_Difference
  <2>5. Cardinality(here \cap surplus) = n - want /\ Cardinality(result) = Cardinality(here \ surplus)
    BY <2>2, <2>3, Zenon
  <2> QED
    BY <2>2, <2>4, <2>5
<1> QED
  BY <1>2, <1>3

\* The numbers that a config asks for.
LEMMA WantedIsNat ==
  ASSUME cfg \in Configs
  PROVE  /\ \A p \in Prefixes : Wanted(p) \in Nat
         /\ \A d \in Deployments : Replicas(d) \in Nat /\ Labels(d) \in SUBSET Nat
         /\ cfg.numServices \in Nat
         /\ cfg.leaveStandingConfig \in BOOLEAN
<1>1. /\ cfg.numPolicies \in Nat /\ cfg.numIdlePolicies \in Nat
      /\ cfg.numPods \in Nat /\ cfg.numServices \in Nat
      /\ cfg.leaveStandingConfig \in BOOLEAN
  BY DEF StandingAssumption
<1>2. Below(cfg.numPolicies) \in SUBSET Nat
  BY <1>1, BelowCounts
<1> QED
  BY <1>1, <1>2 DEF Wanted, Replicas, Labels, Prefixes, Deployments

\* The count of failures keeps its bound, and only a failure disturbs a test.
LEMMA FailuresAreCounted ==
  ASSUME TypeOK
  PROVE  /\ NoFault => faults' \in 0..MaxFaults /\ undisturbed' \in BOOLEAN
                       /\ undisturbed' = undisturbed
         /\ Fault => faults' \in 0..MaxFaults /\ undisturbed' = FALSE
<1>1. MaxFaults \in Nat /\ faults \in 0..MaxFaults /\ undisturbed \in BOOLEAN
  BY DEF TypeOK
<1>2. Fault => faults < MaxFaults /\ faults' = faults + 1 /\ undisturbed' = FALSE
  BY DEF Fault
<1> QED
  BY <1>1, <1>2 DEF NoFault

-----------------------------------------------------------------------------
(* The invariant is inductive: one lemma per action.                       *)

\* An empty namespace satisfies the invariant.
LEMMA InitEstablishesStandingInv == Init => StandingInv
<1> SUFFICES ASSUME Init PROVE StandingInv
  OBVIOUS
<1>1. TypeOK
  BY DEF Init, TypeOK, Prefixes, Deployments
<1>2. Progress
  <2>1. \A p \in Prefixes : IsFiniteSet(policies[p])
    BY FS_EmptySet DEF Init
  <2> QED
    BY <2>1 DEF Init, Progress, HasPolicies, HasPods, Setup
<1> QED
  BY <1>1, <1>2 DEF Init, StandingInv, Setup

\* The next test takes the namespace over, with a count of its own failures.
LEMMA NextTestPreserves == StandingInv /\ NextTest => StandingInv'
<1> SUFFICES ASSUME StandingInv, NextTest
             PROVE  StandingInv'
  OBVIOUS
<1>1. TypeOK'
  BY DEF NextTest, cluster, StandingInv, TypeOK
<1>2. Progress'
  BY DEF NextTest, cluster, StandingInv, Progress, HasPolicies, HasPods, Setup
<1> QED
  BY <1>1, <1>2 DEF NextTest, StandingInv, Setup

\* A cleanup may leave anything but keeps the types; a complete one leaves nothing.
LEMMA CleanupPreserves == StandingInv /\ Cleanup => StandingInv'
<1> SUFFICES ASSUME StandingInv, Cleanup
             PROVE  StandingInv'
  OBVIOUS
<1>0. /\ NoFault => faults' \in 0..MaxFaults /\ undisturbed' \in BOOLEAN
                    /\ undisturbed' = undisturbed
      /\ Fault => faults' \in 0..MaxFaults /\ undisturbed' = FALSE
  BY FailuresAreCounted DEF StandingInv
<1>1. /\ policies \in [Prefixes -> SUBSET Nat] /\ services \in SUBSET Nat
      /\ dep \in [Deployments -> {Absent} \cup Deployed]
      /\ \A p \in Prefixes : IsFiniteSet(policies[p])
  BY DEF StandingInv, TypeOK, Progress
<1>2. ASSUME NEW kept, DeleteAllBut(kept)
      PROVE  /\ policies' \in [Prefixes -> SUBSET Nat] /\ services' \in SUBSET Nat
             /\ dep' \in [Deployments -> {Absent} \cup Deployed]
             /\ \A p \in Prefixes : IsFiniteSet(policies'[p])
  <2>1. \A p \in Prefixes : policies'[p] \in SUBSET policies[p]
    BY <1>2 DEF DeleteAllBut
  <2>2. \A p \in Prefixes : IsFiniteSet(policies'[p])
    BY <1>1, <2>1, FS_Subset
  <2> QED
    BY <1>1, <1>2, <2>2 DEF DeleteAllBut
<1>3. /\ policies' \in [Prefixes -> SUBSET Nat] /\ services' \in SUBSET Nat
      /\ dep' \in [Deployments -> {Absent} \cup Deployed]
      /\ \A p \in Prefixes : IsFiniteSet(policies'[p])
  BY <1>1, <1>2 DEF Cleanup, cluster
<1>4. /\ pc' \in {"policy", "next"} /\ target' = "standing-deployment" /\ attempts' = 0
      /\ UNCHANGED <<cfg, tests>>
      /\ faults' \in 0..MaxFaults /\ undisturbed' \in BOOLEAN
  BY <1>0 DEF Cleanup, Goto
<1>5. TypeOK'
  BY <1>3, <1>4 DEF StandingInv, TypeOK, Deployments
<1>6. Progress'
  BY <1>3, <1>4 DEF Progress, HasPolicies, HasPods, Setup
<1>7. ASSUME undisturbed', ~cfg'.leaveStandingConfig, pc' \in Setup
      PROVE  Own'
  <2>1. DeleteAllBut({}) /\ pc' = "policy"
    BY <1>0, <1>4, <1>7 DEF Cleanup, Setup
  <2>2. /\ \A p \in Prefixes : policies'[p] = {}
        /\ \A d \in Deployments : dep'[d] = Absent
        /\ services' = {}
    BY <2>1 DEF DeleteAllBut
  <2> QED
    BY <2>1, <2>2 DEF Own, HasPolicies
<1> QED
  BY <1>5, <1>6, <1>7 DEF StandingInv

\* After a complete cleanup nothing of the kind is there, so that all indexes are missing.
LEMMA NothingInTheWay ==
  ASSUME StandingInv, NEW prefix \in Prefixes, pc = prefix, undisturbed,
         ~cfg.leaveStandingConfig
  PROVE  /\ policies[prefix] = {}
         /\ Below(Cardinality(policies[prefix])) = {}
<1>1. policies[prefix] = {}
  <2>1. Own /\ ~HasPolicies(prefix)
    BY DEF StandingInv, Setup, Prefixes, HasPolicies
  <2> QED
    BY <2>1 DEF Own
<1>2. Cardinality(policies[prefix]) = 0
  BY <1>1, FS_EmptySet
<1>3. Below(0) = {}
  BY DEF Below
<1> QED
  BY <1>1, <1>2, <1>3

\* A deployment of policies that succeeds leaves the number wanted, and in a clean
\* namespace it succeeds unless a call fails.
LEMMA DeployPoliciesPreserves ==
  ASSUME StandingInv, NEW prefix \in Prefixes, DeployPolicies(prefix)
  PROVE  StandingInv'
<1> DEFINE here == policies[prefix]
           n == Cardinality(here)
           want == Wanted(prefix)
           extra == Below(want) \ Below(n)
           surplus == Below(n) \ Below(want)
           result == (here \cup extra) \ surplus
           works == extra \cap here = {} /\ surplus \subseteq here
           next == IF prefix = "policy" THEN "idle-policy" ELSE "deploy"
           done(S) == [policies EXCEPT ![prefix] = S]
<1>0. /\ NoFault => faults' \in 0..MaxFaults /\ undisturbed' \in BOOLEAN
                    /\ undisturbed' = undisturbed
      /\ Fault => faults' \in 0..MaxFaults /\ undisturbed' = FALSE
  BY FailuresAreCounted DEF StandingInv
<1>1. /\ policies \in [Prefixes -> SUBSET Nat]
      /\ \A p \in Prefixes : IsFiniteSet(policies[p])
      /\ cfg \in Configs
  BY DEF StandingInv, TypeOK, Progress
<1>2. /\ here \in SUBSET Nat /\ IsFiniteSet(here) /\ n \in Nat
      /\ want \in Nat
      /\ Below(want) \in SUBSET Nat /\ IsFiniteSet(Below(want))
  BY <1>1, FS_CardinalityType, WantedIsNat, BelowCounts
<1>3. ASSUME NEW S, S \subseteq here \cup Below(want)
      PROVE  /\ done(S) \in [Prefixes -> SUBSET Nat]
             /\ \A p \in Prefixes : IsFiniteSet(done(S)[p])
             /\ done(S)[prefix] = S
             /\ \A p \in Prefixes \ {prefix} : done(S)[p] = policies[p]
  <2>1. IsFiniteSet(here \cup Below(want))
    BY <1>2, FS_Union
  <2>2. IsFiniteSet(S) /\ S \in SUBSET Nat
    BY <1>2, <1>3, <2>1, FS_Subset
  <2> HIDE DEF here
  <2> QED
    BY <1>1, <2>2
<1>4. /\ pc = prefix /\ UNCHANGED <<cfg, tests, target, attempts, services, dep>>
      /\ \/ works /\ policies' = done(result) /\ pc' = next /\ NoFault
         \/ ~works /\ policies' = done(result) /\ pc' = "teardown" /\ NoFault
         \/ /\ pc' = "teardown" /\ Fault
            /\ \E part \in SUBSET (extra \cup surplus) :
                 policies' = done((here \cup (extra \cap part)) \ (surplus \cap part))
  BY DEF DeployPolicies, Goto
<1>5. /\ policies' \in [Prefixes -> SUBSET Nat]
      /\ \A p \in Prefixes : IsFiniteSet(policies'[p])
      /\ \A p \in Prefixes \ {prefix} : policies'[p] = policies[p]
  <2>1. \E S \in SUBSET (here \cup Below(want)) : policies' = done(S)
    <3>1. result \in SUBSET (here \cup Below(want))
      OBVIOUS
    <3>2. \A part : (here \cup (extra \cap part)) \ (surplus \cap part)
                      \in SUBSET (here \cup Below(want))
      OBVIOUS
    <3> HIDE DEF here, extra, surplus, result, done
    <3> QED
      BY <1>4, <3>1, <3>2
  <2> HIDE DEF here, done
  <2> QED
    BY <1>3, <2>1
<1>6. TypeOK'
  BY <1>0, <1>4, <1>5 DEF StandingInv, TypeOK, Prefixes
<1>7. ASSUME pc' # "teardown"
      PROVE  works /\ policies'[prefix] = result /\ pc' = next /\ undisturbed' = undisturbed
  <2>1. works /\ policies' = done(result) /\ pc' = next /\ NoFault
    BY <1>4, <1>7
  <2>2. result \subseteq here \cup Below(want)
    OBVIOUS
  <2> QED
    BY <1>0, <1>3, <2>1, <2>2
<1>8. pc' # "teardown" => Cardinality(policies'[prefix]) = Wanted(prefix)
  <2>1. works => Cardinality(result) = want
    BY <1>2, DifferenceCounts
  <2> QED
    BY <1>7, <2>1
<1>9. Progress'
  <2>1. target' = "standing-deployment"
    BY <1>4 DEF StandingInv, Progress, Prefixes
  <2>2. ASSUME NEW p \in Prefixes, HasPolicies(p)'
        PROVE  Cardinality(policies'[p]) = Wanted(p)'
    <3>1. pc' # "teardown" /\ pc' = next
      BY <1>7, <2>2 DEF HasPolicies, Setup
    <3>2. CASE p = prefix
      BY <1>4, <1>8, <3>1, <3>2 DEF Wanted
    <3>3. CASE p # prefix
      <4>1. HasPolicies(p)
        BY <1>4, <2>2, <3>1, <3>3 DEF HasPolicies, Setup, Prefixes
      <4>2. Cardinality(policies[p]) = Wanted(p)
        BY <4>1 DEF StandingInv, Progress
      <4> QED
        BY <1>4, <1>5, <3>3, <4>2 DEF Wanted
    <3> QED
      BY <3>2, <3>3
  <2>3. pc' \in {"teardown", "idle-policy", "deploy"}
    BY <1>4
  <2> QED
    BY <1>5, <2>1, <2>2, <2>3 DEF Progress, HasPods
<1>10. ASSUME pc' \in Setup, undisturbed', ~cfg'.leaveStandingConfig
       PROVE  Own'
  <2>1. pc' # "teardown" /\ pc' = next /\ pc = prefix /\ undisturbed
    BY <1>4, <1>7, <1>10 DEF Setup
  <2>2. ~cfg.leaveStandingConfig
    BY <1>4, <1>10
  <2>3. Own
    BY <2>1, <2>2 DEF StandingInv, Setup, Prefixes
  <2>4. policies'[prefix] = Below(Wanted(prefix))
    <3>1. here = {} /\ Below(n) = {}
      BY <2>1, <2>2, NothingInTheWay
    <3>2. result = Below(want)
      BY <3>1
    <3> QED
      BY <1>7, <2>1, <3>2
  <2>5. ASSUME NEW p \in Prefixes
        PROVE  policies'[p] = IF HasPolicies(p)' THEN Below(Wanted(p))' ELSE {}
    <3>1. Below(Wanted(p))' = Below(Wanted(p))
      BY <1>4 DEF Below, Wanted
    <3>2. p = prefix => HasPolicies(p)'
      BY <2>1 DEF HasPolicies, Setup, Prefixes
    <3>3. p # prefix => (HasPolicies(p)' <=> HasPolicies(p))
      BY <2>1 DEF HasPolicies, Setup, Prefixes
    <3> QED
      BY <1>5, <2>3, <2>4, <3>1, <3>2, <3>3 DEF Own
  <2>6. \A d \in Deployments : dep'[d] = Absent \/ dep'[d].labels = Labels(d)'
    BY <1>4, <2>3 DEF Own, Labels, Below
  <2>7. services' = IF pc' = "run" THEN Below(cfg'.numServices) ELSE {}
    BY <1>4, <2>1, <2>3 DEF Own, Prefixes
  <2> QED
    BY <2>5, <2>6, <2>7 DEF Own
<1> QED
  BY <1>6, <1>9, <1>10 DEF StandingInv

\* A failure on the way ends the test, and leaves the namespace as it is.
LEMMA GiveUpPreserves == StandingInv /\ GiveUp => StandingInv'
<1> SUFFICES ASSUME StandingInv, GiveUp
             PROVE  StandingInv'
  OBVIOUS
<1>1. /\ pc' = "teardown" /\ UNCHANGED <<cfg, tests, target, attempts, policies, services, dep>>
      /\ faults' \in 0..MaxFaults /\ undisturbed' = FALSE
  BY FailuresAreCounted DEF StandingInv, GiveUp, Goto, cluster
<1>2. TypeOK'
  BY <1>1 DEF StandingInv, TypeOK
<1>3. Progress'
  BY <1>1 DEF StandingInv, Progress, HasPolicies, HasPods, Setup
<1> QED
  BY <1>1, <1>2, <1>3 DEF StandingInv

\* What the steps after the policies keep of them: nothing but pc matters to the policies,
\* and it stays among the steps that have dealt with both kinds.
LEMMA PoliciesAreKept ==
  ASSUME StandingInv, UNCHANGED <<cfg, policies>>,
         pc \in Setup \ Prefixes, pc' \in (Setup \ Prefixes) \cup {"teardown"}
  PROVE  /\ \A p \in Prefixes : IsFiniteSet(policies'[p])
         /\ \A p \in Prefixes : HasPolicies(p)' => Cardinality(policies'[p]) = Wanted(p)'
         /\ pc' \in Setup /\ Own =>
              \A p \in Prefixes :
                policies'[p] = IF HasPolicies(p)' THEN Below(Wanted(p))' ELSE {}
<1>1. \A p \in Prefixes : HasPolicies(p) /\ (pc' \in Setup => HasPolicies(p)')
  BY DEF HasPolicies, Prefixes, Setup
<1>2. \A p \in Prefixes : Wanted(p)' = Wanted(p) /\ Below(Wanted(p))' = Below(Wanted(p))
  BY DEF Wanted, Below
<1>3. \A p \in Prefixes : IsFiniteSet(policies'[p])
  BY DEF StandingInv, Progress
<1>4. \A p \in Prefixes : Cardinality(policies'[p]) = Wanted(p)'
  BY <1>1, <1>2 DEF StandingInv, Progress
<1>5. pc' \in Setup /\ Own =>
        \A p \in Prefixes : policies'[p] = IF HasPolicies(p)' THEN Below(Wanted(p))' ELSE {}
  BY <1>1, <1>2 DEF Own
<1> QED
  BY <1>3, <1>4, <1>5

\* Creating the deployment, or finding it there, makes it exist.
LEMMA GetOrCreateDeploymentPreserves == StandingInv /\ GetOrCreateDeployment => StandingInv'
<1> SUFFICES ASSUME StandingInv, GetOrCreateDeployment
             PROVE  StandingInv'
  OBVIOUS
<1> DEFINE new == [exists |-> TRUE, spec |-> Replicas(target), labels |-> Labels(target),
                   replicas |-> 0, ready |-> 0]
<1>1. /\ pc = "deploy" /\ pc' = "scale"
      /\ UNCHANGED <<cfg, tests, target, attempts, policies, services, faults, undisturbed>>
      /\ dep' = IF dep[target].exists THEN dep ELSE [dep EXCEPT ![target] = new]
  BY DEF GetOrCreateDeployment, Goto, NoFault
<1>2. /\ target \in Deployments /\ cfg \in Configs
      /\ dep \in [Deployments -> {Absent} \cup Deployed]
  BY DEF StandingInv, TypeOK
<1>3. new \in Deployed
  BY <1>2, WantedIsNat DEF Deployed
<1> HIDE DEF new
<1>4. /\ dep' \in [Deployments -> {Absent} \cup Deployed]
      /\ \A d \in Deployments : d # target => dep'[d] = dep[d]
      /\ dep'[target] = dep[target] \/ dep'[target] = new
  BY <1>1, <1>2, <1>3
<1>5. dep'[target].exists
  <2>1. new.exists
    BY DEF new
  <2> QED
    BY <1>1, <1>2, <2>1
<1>6. TypeOK'
  BY <1>1, <1>4 DEF StandingInv, TypeOK
<1>7. pc \in Setup \ Prefixes /\ pc' \in Setup \ Prefixes
  BY <1>1 DEF Setup, Prefixes
<1>8. Progress'
  <2>1. HasPods' => Scaled("standing-deployment")'
    <3>1. SUFFICES ASSUME HasPods' PROVE Scaled("standing-deployment")'
      OBVIOUS
    <3>2. HasPods /\ target = "standing-svc"
      BY <1>1, <1>7, <3>1 DEF HasPods
    <3>3. Scaled("standing-deployment")
      BY <3>2 DEF StandingInv, Progress
    <3>4. dep'["standing-deployment"] = dep["standing-deployment"]
      BY <1>4, <3>2 DEF Deployments
    <3> QED
      BY <1>1, <3>3, <3>4 DEF Scaled, Replicas
  <2> QED
    BY <1>1, <1>5, <1>7, <2>1, PoliciesAreKept DEF Progress
<1>9. ASSUME undisturbed', ~cfg'.leaveStandingConfig
      PROVE  Own'
  <2>1. Own
    BY <1>1, <1>7, <1>9 DEF StandingInv
  <2>2. \A d \in Deployments : Labels(d)' = Labels(d)
    BY <1>1 DEF Labels, Below
  <2>3. new.labels = Labels(target)
    BY DEF new
  <2>4. \A d \in Deployments : dep'[d] = Absent \/ dep'[d].labels = Labels(d)'
    BY <1>4, <2>1, <2>2, <2>3 DEF Own
  <2>5. services' = IF pc' = "run" THEN Below(cfg'.numServices) ELSE {}
    BY <1>1, <2>1 DEF Own
  <2> QED
    BY <1>1, <1>7, <2>1, <2>4, <2>5, PoliciesAreKept DEF Own
<1> QED
  BY <1>6, <1>8, <1>9 DEF StandingInv

\* What a step keeps that changes only the size or the status of one deployment.
LEMMA DeploymentsAreKept ==
  ASSUME StandingInv, NEW d \in Deployments, NEW r \in Deployed,
         dep[d].exists, r.labels = dep[d].labels, dep' = [dep EXCEPT ![d] = r],
         UNCHANGED cfg
  PROVE  /\ dep' \in [Deployments -> {Absent} \cup Deployed]
         /\ \A e \in Deployments : e # d => dep'[e] = dep[e]
         /\ dep'[d] = r /\ r.exists
         /\ Own => \A e \in Deployments : dep'[e] = Absent \/ dep'[e].labels = Labels(e)'
<1>1. dep \in [Deployments -> {Absent} \cup Deployed]
  BY DEF StandingInv, TypeOK
<1>2. /\ dep' \in [Deployments -> {Absent} \cup Deployed]
      /\ \A e \in Deployments : e # d => dep'[e] = dep[e]
      /\ dep'[d] = r
  BY <1>1
<1>3. dep[d] # Absent /\ r.exists
  <2>1. ~Absent.exists
    BY DEF Absent
  <2>2. r.exists
    BY DEF Deployed
  <2> QED
    BY <2>1, <2>2
<1>4. \A e \in Deployments : Labels(e)' = Labels(e)
  BY DEF Labels, Below
<1>5. Own => \A e \in Deployments : dep'[e] = Absent \/ dep'[e].labels = Labels(e)'
  BY <1>2, <1>3, <1>4 DEF Own
<1> QED
  BY <1>2, <1>3, <1>5

\* Scaling gives the deployment the size that this test asks for.
LEMMA ScaleDeploymentPreserves == StandingInv /\ ScaleDeployment => StandingInv'
<1> SUFFICES ASSUME StandingInv, ScaleDeployment
             PROVE  StandingInv'
  OBVIOUS
<1> DEFINE scaled == [dep[target] EXCEPT !.spec = Replicas(target)]
<1>1. /\ pc = "scale" /\ pc' = "wait" /\ attempts' = 0
      /\ UNCHANGED <<cfg, tests, target, policies, services, faults, undisturbed>>
      /\ dep' = [dep EXCEPT ![target] = scaled]
  BY DEF ScaleDeployment, Goto, NoFault
<1>2. /\ target \in Deployments /\ cfg \in Configs /\ MaxAttempts \in Nat
      /\ dep[target] \in Deployed
      /\ dep[target].exists
  <2>1. dep[target].exists
    BY <1>1 DEF StandingInv, Progress
  <2> QED
    BY <2>1 DEF StandingInv, TypeOK, Absent
<1>3. /\ scaled \in Deployed
      /\ scaled.spec = Replicas(target) /\ scaled.labels = dep[target].labels
  BY <1>2, WantedIsNat DEF Deployed
<1> HIDE DEF scaled
<1>4. /\ dep' \in [Deployments -> {Absent} \cup Deployed]
      /\ \A e \in Deployments : e # target => dep'[e] = dep[e]
      /\ dep'[target] = scaled /\ scaled.exists
      /\ Own => \A e \in Deployments : dep'[e] = Absent \/ dep'[e].labels = Labels(e)'
  BY <1>1, <1>2, <1>3, DeploymentsAreKept
<1>5. TypeOK'
  BY <1>1, <1>2, <1>4 DEF StandingInv, TypeOK
<1>6. pc \in Setup \ Prefixes /\ pc' \in Setup \ Prefixes
  BY <1>1 DEF Setup, Prefixes
<1>7. \A d \in Deployments : Replicas(d)' = Replicas(d)
  BY <1>1 DEF Replicas
<1>8. Scaled(target)'
  BY <1>1, <1>2, <1>3, <1>4, <1>7 DEF Scaled
<1>9. HasPods' => Scaled("standing-deployment")'
  <2>1. SUFFICES ASSUME HasPods' PROVE Scaled("standing-deployment")'
    OBVIOUS
  <2>2. HasPods /\ target = "standing-svc"
    BY <1>1, <1>6, <2>1 DEF HasPods
  <2>3. Scaled("standing-deployment") /\ "standing-deployment" \in Deployments
    BY <2>2 DEF StandingInv, Progress, Deployments
  <2> QED
    BY <1>4, <1>7, <2>2, <2>3 DEF Scaled
<1>10. Progress'
  BY <1>1, <1>2, <1>6, <1>8, <1>9, PoliciesAreKept DEF Progress, StandingAssumption
<1>11. ASSUME undisturbed', ~cfg'.leaveStandingConfig
       PROVE  Own'
  <2>1. Own
    BY <1>1, <1>6, <1>11 DEF StandingInv
  <2>2. services' = IF pc' = "run" THEN Below(cfg'.numServices) ELSE {}
    BY <1>1, <2>1 DEF Own
  <2> QED
    BY <1>1, <1>4, <1>6, <2>1, <2>2, PoliciesAreKept DEF Own
<1> QED
  BY <1>5, <1>10, <1>11 DEF StandingInv

\* A poll looks and counts.
LEMMA WaitForDeploymentPreserves == StandingInv /\ WaitForDeployment => StandingInv'
<1> SUFFICES ASSUME StandingInv, WaitForDeployment
             PROVE  StandingInv'
  OBVIOUS
<1>1. /\ pc = "wait"
      /\ UNCHANGED <<cfg, tests, policies, services, dep, faults, undisturbed>>
      /\ \/ /\ target' = "standing-svc" /\ attempts' = 0
            /\ pc' = IF target = "standing-svc" THEN "services" ELSE "deploy"
         \/ /\ target' = target /\ attempts' = attempts + 1
            /\ pc' = IF attempts + 1 = MaxAttempts THEN "teardown" ELSE "wait"
  BY DEF WaitForDeployment, Goto, NoFault, cluster
<1>2. attempts' \in 0..MaxAttempts
  <2>1. attempts \in 0..MaxAttempts /\ MaxAttempts \in Nat \ {0}
    BY DEF StandingInv, TypeOK
  <2>2. attempts < MaxAttempts
    BY <1>1 DEF StandingInv, Progress
  <2> QED
    BY <1>1, <2>1, <2>2
<1>3. TypeOK'
  BY <1>1, <1>2 DEF StandingInv, TypeOK, Deployments
<1>4. pc \in Setup \ Prefixes /\ pc' \in (Setup \ Prefixes) \cup {"teardown"}
  BY <1>1 DEF Setup, Prefixes
<1>5. Scaled(target) /\ \A d \in Deployments : Scaled(d)' = Scaled(d)
  BY <1>1 DEF StandingInv, Progress, Scaled, Replicas
<1>6. HasPods' => Scaled("standing-deployment")'
  <2>1. target \in Deployments
    BY DEF StandingInv, TypeOK
  <2>2. Scaled("standing-deployment")
    BY <1>1, <1>5, <2>1 DEF StandingInv, Progress, HasPods, Deployments, Setup
  <2> QED
    BY <1>5, <2>2 DEF Deployments
<1>7. Progress'
  <2>1. pc' \in {"wait", "services", "run"} => Scaled(target)'
    <3>1. pc' = "wait" => target' = target
      BY <1>1
    <3>2. pc' # "wait" => pc' \in {"services", "deploy", "teardown"}
      BY <1>1
    <3>3. pc' = "services" => target' = target
      BY <1>1
    <3>4. Scaled(target)' = (dep'[target'].exists /\ dep'[target'].spec = Replicas(target'))
      BY <1>1 DEF Scaled, Replicas
    <3> QED
      BY <1>1, <1>5, <3>1, <3>2, <3>3, <3>4 DEF Scaled, Replicas
  <2>2. pc' \in {"services", "run"} => target' = "standing-svc"
    BY <1>1
  <2>3. pc' \notin {"policy", "idle-policy", "scale", "run"}
    BY <1>1
  <2>4. pc' = "wait" => attempts' < MaxAttempts
    BY <1>1, <1>2 DEF StandingAssumption
  <2> QED
    BY <1>1, <1>4, <1>6, <2>1, <2>2, <2>3, <2>4, PoliciesAreKept DEF Progress
<1>8. ASSUME pc' \in Setup, undisturbed', ~cfg'.leaveStandingConfig
      PROVE  Own'
  <2>1. Own
    BY <1>1, <1>4, <1>8 DEF StandingInv
  <2>2. services' = IF pc' = "run" THEN Below(cfg'.numServices) ELSE {}
    BY <1>1, <2>1 DEF Own
  <2>3. \A d \in Deployments : dep'[d] = Absent \/ dep'[d].labels = Labels(d)'
    BY <1>1, <2>1 DEF Own, Labels, Below
  <2> QED
    BY <1>1, <1>4, <1>8, <2>1, <2>2, <2>3, PoliciesAreKept DEF Own
<1> QED
  BY <1>3, <1>7, <1>8 DEF StandingInv

\* The service loop adds the services wanted to those that are there.
LEMMA CreateServicesPreserves == StandingInv /\ CreateServices => StandingInv'
<1> SUFFICES ASSUME StandingInv, CreateServices
             PROVE  StandingInv'
  OBVIOUS
<1> DEFINE wanted == Below(cfg.numServices)
<1>0. /\ NoFault => faults' \in 0..MaxFaults /\ undisturbed' \in BOOLEAN
                    /\ undisturbed' = undisturbed
      /\ Fault => faults' \in 0..MaxFaults /\ undisturbed' = FALSE
  BY FailuresAreCounted DEF StandingInv
<1>1. /\ pc = "services" /\ UNCHANGED <<cfg, tests, target, attempts, policies, dep>>
      /\ \/ services' = services \cup wanted /\ pc' = "run" /\ undisturbed' = undisturbed
         \/ /\ \E part \in SUBSET wanted : services' = services \cup part
            /\ pc' = "teardown" /\ undisturbed' = FALSE
      /\ faults' \in 0..MaxFaults /\ undisturbed' \in BOOLEAN
  BY <1>0 DEF CreateServices, Goto
<1>2. wanted \in SUBSET Nat /\ services \in SUBSET Nat
  BY WantedIsNat, BelowCounts DEF StandingInv, TypeOK
<1>3. services' \in SUBSET Nat
  <2> HIDE DEF wanted
  <2> QED
    BY <1>1, <1>2
<1>4. TypeOK'
  BY <1>1, <1>3 DEF StandingInv, TypeOK
<1>5. pc \in Setup \ Prefixes /\ pc' \in (Setup \ Prefixes) \cup {"teardown"}
  BY <1>1 DEF Setup, Prefixes
<1>6. Scaled(target) /\ target = "standing-svc" /\ Scaled("standing-deployment")
  BY <1>1, <1>5 DEF StandingInv, Progress, HasPods
<1>7. \A d : Scaled(d) => Scaled(d)'
  BY <1>1 DEF Scaled, Replicas
<1>8. Below(cfg.numServices)' = wanted
  BY <1>1 DEF Below
<1>9. pc' = "run" => services' = services \cup wanted
  BY <1>1
<1>10. Progress'
  <2>1. pc' = "run" => (Below(cfg.numServices) \subseteq services)'
    BY <1>8, <1>9
  <2>2. pc' \in {"run", "teardown"} /\ target' = target
    BY <1>1
  <2>3. Scaled(target)' /\ Scaled("standing-deployment")'
    <3>1. Scaled(target)' = (dep'[target'].exists /\ dep'[target'].spec = Replicas(target'))
      BY <1>1 DEF Scaled, Replicas
    <3> QED
      BY <1>1, <1>6, <1>7, <3>1 DEF Scaled, Replicas
  <2> QED
    BY <1>5, <1>6, <2>1, <2>2, <2>3, PoliciesAreKept, <1>1 DEF Progress
<1>11. ASSUME pc' \in Setup, undisturbed', ~cfg'.leaveStandingConfig
       PROVE  Own'
  <2>1. Own /\ pc' = "run"
    BY <1>1, <1>5, <1>11 DEF StandingInv, Setup
  <2>2. services' = Below(cfg.numServices)'
    <3>1. services = {}
      BY <1>1, <2>1 DEF Own
    <3> QED
      BY <1>8, <1>9, <2>1, <3>1
  <2>3. \A d \in Deployments : dep'[d] = Absent \/ dep'[d].labels = Labels(d)'
    BY <1>1, <2>1 DEF Own, Labels, Below
  <2> QED
    BY <1>1, <1>5, <1>11, <2>1, <2>2, <2>3, PoliciesAreKept DEF Own
<1> QED
  BY <1>4, <1>10, <1>11 DEF StandingInv

\* The test itself changes none of the standing config.
LEMMA RunTestPreserves == StandingInv /\ RunTest => StandingInv'
<1> SUFFICES ASSUME StandingInv, RunTest
             PROVE  StandingInv'
  OBVIOUS
<1>1. /\ pc' = "teardown"
      /\ UNCHANGED <<cfg, tests, target, attempts, policies, services, dep, faults, undisturbed>>
  BY DEF RunTest, Goto, NoFault, cluster
<1>2. TypeOK'
  BY <1>1 DEF StandingInv, TypeOK
<1>3. Progress'
  BY <1>1 DEF StandingInv, Progress, HasPolicies, HasPods, Setup
<1> QED
  BY <1>1, <1>2, <1>3 DEF StandingInv, Setup

\* The controllers change the status of a deployment only.
LEMMA StatusPreserves ==
  ASSUME StandingInv, NEW d \in Deployments, NEW r \in Deployed,
         dep[d].exists, r.spec = dep[d].spec, r.labels = dep[d].labels,
         dep' = [dep EXCEPT ![d] = r],
         UNCHANGED <<policies, services, Program_unchanged>>
  PROVE  StandingInv'
<1>1. UNCHANGED <<pc, cfg, tests, target, attempts, policies, services, faults, undisturbed>>
  BY DEF Program_unchanged
<1>2. /\ dep' \in [Deployments -> {Absent} \cup Deployed]
      /\ \A e \in Deployments : e # d => dep'[e] = dep[e]
      /\ dep'[d] = r /\ r.exists
      /\ Own => \A e \in Deployments : dep'[e] = Absent \/ dep'[e].labels = Labels(e)'
  BY <1>1, DeploymentsAreKept
<1>3. TypeOK'
  BY <1>1, <1>2 DEF StandingInv, TypeOK
<1>4. \A e \in Deployments : /\ dep[e].exists => dep'[e].exists
                             /\ Scaled(e) => Scaled(e)'
  BY <1>1, <1>2 DEF Scaled, Replicas
<1>5. target \in Deployments /\ target' = target
  BY <1>1 DEF StandingInv, TypeOK
<1>6. \A p : HasPolicies(p)' = HasPolicies(p) /\ Wanted(p)' = Wanted(p)
             /\ Below(Wanted(p))' = Below(Wanted(p))
  BY <1>1 DEF HasPolicies, Wanted, Setup, Below
<1>7. Progress'
  <2>1. /\ \A p \in Prefixes : IsFiniteSet(policies'[p])
        /\ \A p \in Prefixes : HasPolicies(p)' => Cardinality(policies'[p]) = Wanted(p)'
    BY <1>1, <1>6 DEF StandingInv, Progress
  <2>2. HasPods' => Scaled("standing-deployment")'
    BY <1>1, <1>4 DEF StandingInv, Progress, HasPods, Setup, Deployments
  <2>3. pc' = "scale" => (dep[target].exists)'
    BY <1>1, <1>4, <1>5 DEF StandingInv, Progress
  <2>4. pc' \in {"wait", "services", "run"} => Scaled(target)'
    <3>1. Scaled(target)' = (dep'[target'].exists /\ dep'[target'].spec = Replicas(target'))
      BY <1>1 DEF Scaled, Replicas
    <3>2. pc' \in {"wait", "services", "run"} => Scaled(target)
      BY <1>1 DEF StandingInv, Progress
    <3> QED
      BY <1>1, <1>4, <1>5, <3>1, <3>2 DEF Scaled, Replicas
  <2>5. /\ pc' \in {"policy", "idle-policy"} => target' = "standing-deployment"
        /\ pc' = "wait" => attempts' < MaxAttempts
        /\ pc' \in {"services", "run"} => target' = "standing-svc"
        /\ pc' = "run" => (Below(cfg.numServices) \subseteq services)'
    BY <1>1 DEF StandingInv, Progress, Below
  <2> QED
    BY <2>1, <2>2, <2>3, <2>4, <2>5 DEF Progress
<1>8. ASSUME pc' \in Setup, undisturbed', ~cfg'.leaveStandingConfig
      PROVE  Own'
  <2>1. Own
    BY <1>1, <1>8 DEF StandingInv
  <2>2. \A p \in Prefixes : policies'[p] = IF HasPolicies(p)' THEN Below(Wanted(p))' ELSE {}
    BY <1>1, <1>6, <2>1 DEF Own
  <2>3. services' = IF pc' = "run" THEN Below(cfg.numServices)' ELSE {}
    BY <1>1, <2>1 DEF Own, Below
  <2> QED
    BY <1>2, <2>1, <2>2, <2>3 DEF Own
<1> QED
  BY <1>3, <1>7, <1>8 DEF StandingInv

\* The steps of the controllers keep the invariant.
LEMMA ControllersPreserve ==
  ASSUME StandingInv, NEW d \in Deployments, Reconcile(d) \/ PodReady(d)
  PROVE  StandingInv'
<1>1. dep[d].exists /\ dep[d] \in Deployed
  BY DEF StandingInv, TypeOK, Reconcile, PodReady, Absent
<1>2. CASE Reconcile(d)
  <2> DEFINE r == [dep[d] EXCEPT !.replicas = dep[d].spec,
                                 !.ready = IF @ < dep[d].spec THEN @ ELSE dep[d].spec]
  <2>1. r \in Deployed /\ r.spec = dep[d].spec /\ r.labels = dep[d].labels
    BY <1>1 DEF Deployed
  <2>2. dep' = [dep EXCEPT ![d] = r] /\ UNCHANGED <<policies, services, Program_unchanged>>
    BY <1>2 DEF Reconcile
  <2> HIDE DEF r
  <2> QED
    BY <1>1, <2>1, <2>2, StatusPreserves
<1>3. CASE PodReady(d)
  <2> DEFINE up == dep[d].ready + 1
             r == [dep[d] EXCEPT !.ready = up]
  <2>0. up \in Nat
    <3>1. dep[d].ready \in Nat
      BY <1>1 DEF Deployed
    <3> QED
      BY <3>1
  <2> HIDE DEF up
  <2>1. r \in Deployed /\ r.spec = dep[d].spec /\ r.labels = dep[d].labels
    BY <1>1, <2>0 DEF Deployed
  <2>2. dep' = [dep EXCEPT ![d] = r] /\ UNCHANGED <<policies, services, Program_unchanged>>
    BY <1>3 DEF PodReady, up
  <2> HIDE DEF r
  <2> QED
    BY <1>1, <2>1, <2>2, StatusPreserves
<1> QED
  BY <1>2, <1>3

\* A stuttering step keeps the invariant.
LEMMA StutteringPreserves == StandingInv /\ UNCHANGED vars => StandingInv'
<1> SUFFICES ASSUME StandingInv, UNCHANGED vars
             PROVE  StandingInv'
  OBVIOUS
<1>1. /\ UNCHANGED <<pc, cfg, tests, target, attempts, policies, services, dep, faults>>
      /\ UNCHANGED undisturbed
  BY DEF vars, cluster
<1>2. TypeOK'
  BY <1>1 DEF StandingInv, TypeOK
<1>3. \A p : HasPolicies(p)' = HasPolicies(p) /\ Wanted(p)' = Wanted(p)
             /\ Below(Wanted(p))' = Below(Wanted(p))
  BY <1>1 DEF HasPolicies, Wanted, Setup, Below
<1>4. \A d : Scaled(d)' = Scaled(d) /\ Labels(d)' = Labels(d)
  BY <1>1 DEF Scaled, Replicas, Labels, Below
<1>5. Progress'
  <2>1. /\ \A p \in Prefixes : IsFiniteSet(policies'[p])
        /\ \A p \in Prefixes : HasPolicies(p)' => Cardinality(policies'[p]) = Wanted(p)'
    BY <1>1, <1>3 DEF StandingInv, Progress
  <2>2. /\ HasPods' => Scaled("standing-deployment")'
        /\ pc' \in {"policy", "idle-policy"} => target' = "standing-deployment"
        /\ pc' = "scale" => (dep[target].exists)'
    BY <1>1, <1>4 DEF StandingInv, Progress, HasPods, Setup
  <2>3. pc' \in {"wait", "services", "run"} => Scaled(target)'
    BY <1>1 DEF StandingInv, Progress, Scaled, Replicas
  <2>4. /\ pc' = "wait" => attempts' < MaxAttempts
        /\ pc' \in {"services", "run"} => target' = "standing-svc"
        /\ pc' = "run" => (Below(cfg.numServices) \subseteq services)'
    BY <1>1 DEF StandingInv, Progress, Below
  <2> QED
    BY <2>1, <2>2, <2>3, <2>4 DEF Progress
<1>6. pc \in Setup /\ Own => Own'
  BY <1>1, <1>3, <1>4 DEF Own, Below
<1> QED
  BY <1>1, <1>2, <1>5, <1>6 DEF StandingInv, Setup

-----------------------------------------------------------------------------
(* The theorems.                                                           *)

\* The invariant holds of every execution.
LEMMA StandingInvHolds == Spec => []StandingInv
<1>1. ASSUME StandingInv, [Next]_vars
      PROVE  StandingInv'
  <2>1. CASE Program
    BY <1>1, <2>1, NextTestPreserves, CleanupPreserves, DeployPoliciesPreserves,
       GiveUpPreserves, GetOrCreateDeploymentPreserves, ScaleDeploymentPreserves,
       WaitForDeploymentPreserves, CreateServicesPreserves, RunTestPreserves
    DEF Program
  <2>2. CASE \E d \in Deployments : Reconcile(d) \/ PodReady(d)
    BY <1>1, <2>2, ControllersPreserve
  <2>3. CASE Finished \/ UNCHANGED vars
    BY <1>1, <2>3, StutteringPreserves DEF Finished
  <2> QED
    BY <1>1, <2>1, <2>2, <2>3 DEF Next
<1> QED
  BY <1>1, InitEstablishesStandingInv, PTL DEF Spec

\* The standing config keeps its types, whatever fails: the counters stay within their
\* bounds and what is in the namespace is made of indexes and sizes.
THEOREM StandingTypeCorrect == Spec => []TypeOK
<1>1. StandingInv => TypeOK
  BY DEF StandingInv
<1> QED
  BY <1>1, StandingInvHolds, PTL

\* Whatever earlier tests and failed cleanups left in the namespace, SetupStandingConfig
\* lets a test run only with the policies, the deployments and the services it asked for.
THEOREM StandingRunsWithWhatItNeeds == Spec => []RunsWithWhatItNeeds
<1>1. StandingInv => RunsWithWhatItNeeds
  <2>1. SUFFICES ASSUME StandingInv, pc = "run"
                 PROVE  /\ \A p \in Prefixes : Cardinality(policies[p]) = Wanted(p)
                        /\ \A d \in Deployments : dep[d].exists /\ dep[d].spec = Replicas(d)
                        /\ Below(cfg.numServices) \subseteq services
    BY DEF RunsWithWhatItNeeds
  <2>2. \A p \in Prefixes : Cardinality(policies[p]) = Wanted(p)
    BY <2>1 DEF StandingInv, Progress, HasPolicies, Setup, Prefixes
  <2>3. Scaled("standing-deployment") /\ Scaled("standing-svc")
    BY <2>1 DEF StandingInv, Progress, HasPods, Setup
  <2>4. Below(cfg.numServices) \subseteq services
    BY <2>1 DEF StandingInv, Progress
  <2> QED
    BY <2>2, <2>3, <2>4 DEF Scaled, Deployments
<1> QED
  BY <1>1, StandingInvHolds, PTL

\* A test that starts with a cleanup of its own and meets no failed call runs with exactly
\* what it asked for: nothing that cleanupNamespace should have deleted is left.
THEOREM StandingExactAfterCleanup == Spec => []ExactAfterCleanup
<1>1. StandingInv => ExactAfterCleanup
  <2>1. SUFFICES ASSUME StandingInv, pc = "run", undisturbed, ~cfg.leaveStandingConfig
                 PROVE  /\ services = Below(cfg.numServices)
                        /\ \A p \in Prefixes : policies[p] = Below(Wanted(p))
                        /\ \A d \in Deployments : dep[d].labels = Labels(d)
    BY DEF ExactAfterCleanup
  <2>2. Own
    BY <2>1 DEF StandingInv, Setup
  <2>3. services = Below(cfg.numServices)
    BY <2>1, <2>2 DEF Own
  <2>4. \A p \in Prefixes : policies[p] = Below(Wanted(p))
    BY <2>1, <2>2 DEF Own, HasPolicies, Setup, Prefixes
  <2>5. \A d \in Deployments : dep[d].exists
    BY <2>1 DEF StandingInv, Progress, HasPods, Scaled, Setup, Deployments
  <2>6. \A d \in Deployments : dep[d].labels = Labels(d)
    <3>1. ~Absent.exists
      BY DEF Absent
    <3> QED
      BY <2>2, <2>5, <3>1 DEF Own
  <2> QED
    BY <2>3, <2>4, <2>6
<1> QED
  BY <1>1, StandingInvHolds, PTL

\* Nothing that is in the namespace makes SetupStandingConfig of such a test fail: unless a
\* call of its own fails or its pods do not come up in time, it gets to run.
THEOREM StandingLeftoversDoNotStopIt == Spec => LeftoversDoNotStopIt
<1> DEFINE Stops == /\ pc # "teardown" /\ pc' = "teardown" /\ undisturbed'
                    /\ ~cfg.leaveStandingConfig
           Excused == pc = "run" \/ (pc = "wait" /\ attempts' = MaxAttempts)
<1>1. ASSUME StandingInv, [Next]_vars, Stops
      PROVE  Excused
  <2>1. pc # pc'
    BY <1>1
  <2>2. Fault => undisturbed' = FALSE
    BY DEF Fault
  <2>3. CASE NextTest \/ Cleanup
    BY <1>1, <2>3 DEF NextTest, Cleanup, Goto
  <2>4. ASSUME NEW prefix \in Prefixes, DeployPolicies(prefix)
        PROVE  FALSE
    <3> DEFINE here == policies[prefix]
               extra == Below(Wanted(prefix)) \ Below(Cardinality(here))
               surplus == Below(Cardinality(here)) \ Below(Wanted(prefix))
    <3>1. /\ pc = prefix /\ NoFault
          /\ ~(extra \cap here = {} /\ surplus \subseteq here)
      BY <1>1, <2>2, <2>4 DEF DeployPolicies, Goto, Prefixes
    <3>2. undisturbed
      BY <1>1, <3>1 DEF NoFault
    <3>3. here = {} /\ Below(Cardinality(here)) = {}
      BY <1>1, <3>1, <3>2, NothingInTheWay
    <3> QED
      BY <3>1, <3>3
  <2>5. CASE GiveUp
    BY <1>1, <2>2, <2>5 DEF GiveUp
  <2>6. CASE GetOrCreateDeployment \/ ScaleDeployment
    BY <1>1, <2>6 DEF GetOrCreateDeployment, ScaleDeployment, Goto
  <2>7. CASE WaitForDeployment
    BY <1>1, <2>7 DEF WaitForDeployment, Goto
  <2>8. CASE CreateServices
    BY <1>1, <2>2, <2>8 DEF CreateServices, Goto
  <2>9. CASE RunTest
    BY <2>9 DEF RunTest
  <2>10. CASE \E d \in Deployments : Reconcile(d) \/ PodReady(d)
    BY <2>1, <2>10 DEF Reconcile, PodReady, Program_unchanged
  <2>11. CASE Finished \/ UNCHANGED vars
    BY <2>1, <2>11 DEF Finished, vars
  <2> QED
    BY <1>1, <2>3, <2>4, <2>5, <2>6, <2>7, <2>8, <2>9, <2>10, <2>11 DEF Next, Program
<1>2. StandingInv /\ [Next]_vars => [Stops => Excused]_vars
  BY <1>1
<1> QED
  BY <1>2, StandingInvHolds, PTL DEF Spec, LeftoversDoNotStopIt

=============================================================================
