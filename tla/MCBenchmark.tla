---------------------------- MODULE MCBenchmark ----------------------------
(* Benchmark with test configs that differ in kind, CPU limit, namespace   *)
(* and whether they leave their standing config up.                        *)
EXTENDS Benchmark

Test(kind, iterations, l, ns, leave) ==
  [kind |-> kind, iterations |-> iterations, cpuLimit |-> l, namespace |-> ns,
   leaveStandingConfig |-> leave]

MCConfigs ==
  {Test("perf", 2, "1", "testns1", FALSE),
   Test("perf", 0, Unset, "testns1", FALSE),
   Test("dnsperf", 1, Unset, "testns1", TRUE),
   Test("none", 1, "2", "testns2", TRUE)}

=============================================================================
