------------------------------ MODULE Policies ------------------------------
(***************************************************************************)
(* DeployPolicies and DeployIdlePolicies of pkg/policy/policy.go: bring    *)
(* the number of NetworkPolicies of a prefix to a given number, by         *)
(* counting the existing ones and creating or deleting the difference with *)
(* the worker pool.  A policy is identified by its prefix and index        *)
(* ("policy-00007"); the code counts names but creates and deletes by      *)
(* index, so the two agree only while the indexes in use have no gap.      *)
(*                                                                         *)
(* Each API call carries a one second deadline: an answer may be an error  *)
(* although the API server did what was asked.                             *)
(***************************************************************************)
EXTENDS WorkerPool

CONSTANTS
  Prefixes,       (* "policy" and "idle-policy"                            *)
  AlreadyExists,  (* the API server's answer to a create of a known name   *)
  NotFound,       (* its answer to a delete of an unknown name             *)
  Failed          (* any other error, a deadline that expired included     *)

ASSUME PoliciesAssumption ==
  /\ Errors = {AlreadyExists, NotFound, Failed}
  /\ "none" \notin Answers

VARIABLES
  policies,  (* per prefix, the indexes of the policies the API server has *)
  call,      (* the call in progress or last made: the prefix, the number  *)
             (* wanted, and the indexes that countPolicies listed          *)
  verdict,   (* what the last DeployPolicies that ended returned, "none"   *)
             (* before the first one and after a cleanup                   *)
  faulty     (* whether an API call has answered Failed so far             *)

vars == <<poolVars, policies, call, verdict, faulty>>

Indexes == Tasks     \* the bound on list lengths also bounds the policy indexes

Calls == [prefix : Prefixes, want : 0..MaxTasks, listed : SUBSET Indexes]

currentNumPolicies == Cardinality(call.listed)

Creating == call.want > currentNumPolicies

\* Mutant of IndexOf: the lowest indexes are deleted.
IndexFromZero(t) ==
  IF Creating THEN currentNumPolicies + t ELSE t

\* Entry t of the list of indexes: ascending when creating, descending when deleting.
IndexOf(t) ==
  IF Creating THEN currentNumPolicies + t ELSE currentNumPolicies - 1 - t

Init ==
  /\ PoolInit
  /\ policies = [p \in Prefixes |-> {}]
  /\ call \in [prefix : Prefixes, want : {0}, listed : {{}}]
  /\ verdict = "none"
  /\ faulty = FALSE

-----------------------------------------------------------------------------
\* GetOrCreateNS or the List of countPolicies fails: the error is returned at once.
DeployFailsEarly ==
  /\ main = "idle"
  /\ verdict' = Failed
  /\ faulty' = TRUE
  /\ UNCHANGED <<poolVars, policies, call>>

\* Mutant of Deploy: as many are created as wanted, whatever is there.
DeployAll(p, want) ==
  LET n == Cardinality(policies[p]) IN
  /\ main = "idle"
  /\ UNCHANGED <<policies, verdict, faulty>>
  /\ call' = [prefix |-> p, want |-> want, listed |-> policies[p]]
  /\ \/ want > n /\ Begin(want)
     \/ want < n /\ Begin(n - want)

\* The namespace is there and countPolicies has listed n policies of the prefix.
Deploy(p, want) ==
  LET n == Cardinality(policies[p]) IN
  /\ main = "idle"
  /\ UNCHANGED <<policies, verdict, faulty>>
  /\ call' = [prefix |-> p, want |-> want, listed |-> policies[p]]
  /\ \/ want > n /\ Begin(want - n)
     \/ want < n /\ Begin(n - want)

\* As many as wanted: nothing is called.
DeployNothing(p, want) ==
  /\ main = "idle"
  /\ want = Cardinality(policies[p])
  /\ call' = [prefix |-> p, want |-> want, listed |-> policies[p]]
  /\ verdict' = NoError
  /\ UNCHANGED <<poolVars, policies, faulty>>

Store(i) == [policies EXCEPT ![call.prefix] = @ \cup {i}]

Erase(i) == [policies EXCEPT ![call.prefix] = @ \ {i}]

\* Mutant of Succeeds: an index that is there already (or not any more) is no error.
SucceedsAnyway(t) ==
  /\ Answer(t, NoError)
  /\ policies' = IF Creating THEN Store(IndexOf(t)) ELSE Erase(IndexOf(t))
  /\ UNCHANGED <<call, verdict, faulty>>

\* createPolicy and DeletePolicy as the API server carries them out for a call that is
\* answered: refused when the name is (is not) there, else done.
Succeeds(t) ==
  LET i == IndexOf(t)
      known == i \in policies[call.prefix]
      refusal == IF Creating THEN AlreadyExists ELSE NotFound
  IN  /\ UNCHANGED <<call, verdict, faulty>>
      /\ \/ /\ known = Creating
            /\ Answer(t, refusal)
            /\ UNCHANGED policies
         \/ /\ known # Creating
            /\ Answer(t, NoError)
            /\ policies' = IF Creating THEN Store(i) ELSE Erase(i)

\* The call fails or its deadline expires; the API server may have done it all the same.
Fails(t) ==
  /\ Answer(t, Failed)
  /\ faulty' = TRUE
  /\ policies' \in {policies, IF Creating THEN Store(IndexOf(t)) ELSE Erase(IndexOf(t))}
  /\ UNCHANGED <<call, verdict>>

Return ==
  /\ Join
  /\ verdict' = result'
  /\ UNCHANGED <<policies, call, faulty>>

\* DeleteNetPolsInNamespace of the cleanup after a test: lists the policies, then deletes
\* one after the other and gives up at the first error.
Cleanup ==
  /\ main = "idle"
  /\ verdict' = "none"
  /\ \E kept \in [Prefixes -> SUBSET Indexes] :
       /\ \A p \in Prefixes : kept[p] \subseteq policies[p]
       /\ policies' = kept
       /\ faulty' = (faulty \/ \E p \in Prefixes : kept[p] # {})
  /\ UNCHANGED <<poolVars, call>>

PoolStep ==
  /\ \/ Dispatch
     \/ LoopExit
     \/ \E t \in Tasks : Release(t) \/ Done(t)
  /\ UNCHANGED <<policies, call, verdict, faulty>>

Next ==
  \/ DeployFailsEarly
  \/ \E p \in Prefixes, want \in 0..MaxTasks : Deploy(p, want) \/ DeployNothing(p, want)
  \/ \E t \in Tasks : Succeeds(t) \/ Fails(t)
  \/ Return
  \/ Cleanup
  \/ PoolStep

Spec == Init /\ [][Next]_vars

-----------------------------------------------------------------------------
TypeOK ==
  /\ PoolTypeOK
  /\ policies \in [Prefixes -> SUBSET Indexes]
  /\ call \in Calls
  /\ verdict \in Answers \cup {"none"}
  /\ faulty \in BOOLEAN

\* Between two calls, a nil verdict means that the number of policies of the prefix is the
\* number asked for.  It holds although earlier calls may have left gaps or lost answers:
\* a create that meets an existing name, or a delete that meets none, is an error.
CountIsRightOnSuccess ==
  main = "idle" /\ verdict = NoError => Cardinality(policies[call.prefix]) = call.want

Dense(S) == S = 0..Cardinality(S) - 1

\* As long as no API call has failed, the indexes in use are 0..n-1 between two calls, the
\* form that counting relies on and that the labels of the standing pods assume.
DenseWithoutFaults ==
  main = "idle" /\ ~faulty => \A p \in Prefixes : Dense(policies[p])

\* A bulk call moves the number of policies towards the number wanted and never past it,
\* even when answers are lost: no interleaving of the workers deletes too much.
NeverOvershoots ==
  main # "idle" =>
    LET n == Cardinality(policies[call.prefix]) IN
    IF Creating THEN n \in currentNumPolicies..call.want
                ELSE n \in call.want..currentNumPolicies

\* The indexes that the bulk call in progress creates or deletes.
Span == IF Creating THEN currentNumPolicies..call.want - 1
                    ELSE call.want..currentNumPolicies - 1

Here == policies[call.prefix]

\* What a bulk call has done to the policies listed at its start: it stays within Span,
\* and each nil answer stands for an index that it did create or delete itself.
Progress ==
  /\ num = IF Creating THEN call.want - currentNumPolicies
                        ELSE currentNumPolicies - call.want
  /\ IF Creating THEN call.listed \subseteq Here /\ Here \subseteq call.listed \cup Span
                 ELSE call.listed \ Span \subseteq Here /\ Here \subseteq call.listed
  /\ \A t \in Answered : errors[t] = NoError =>
       IF Creating THEN IndexOf(t) \in Here \ call.listed
                  ELSE IndexOf(t) \in call.listed \ Here

\* Without faults every call is answered nil, and the indexes stay without a gap.
Smooth ==
  /\ \A p \in Prefixes : main = "idle" \/ p # call.prefix => Dense(policies[p])
  /\ main # "idle" =>
       /\ Dense(call.listed)
       /\ \A t \in Answered : errors[t] = NoError
       /\ \A t \in Tasks : t < num /\ t \notin Answered =>
            (IndexOf(t) \in Here <=> ~Creating)

\* The inductive invariant of this module.
PolicyInv ==
  /\ PoolInv
  /\ TypeOK
  /\ main # "idle" => Progress
  /\ CountIsRightOnSuccess
  /\ ~faulty => Smooth

=============================================================================
