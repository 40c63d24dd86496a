-------------------------- MODULE MCStandingConfig --------------------------
(* StandingConfig with two configs that differ in every number: one leaves *)
(* its standing config up for the next test, the other does not.           *)
EXTENDS StandingConfig

Test(np, ni, pods, ns, leave) ==
  [numPolicies |-> np, numIdlePolicies |-> ni, numPods |-> pods,
   numServices |-> ns, leaveStandingConfig |-> leave]

MCConfigs ==
  {Test(2, 0, 2, 2, TRUE), Test(1, 1, 1, 1, TRUE), Test(3, 1, 1, 1, FALSE)}

=============================================================================
