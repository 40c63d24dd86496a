----------------------------- MODULE MCPerfTest -----------------------------
\* PerfTest with tests of both kinds that leave their pods or delete them.
EXTENDS PerfTest

Test(k, modes, port, iterations, leave) ==
  [kind |-> k, modes |-> modes, port |-> port, iterations |-> iterations,
   leaveStandingConfig |-> leave]

MCConfigs ==
  {Test("iperf", {"direct", "service"}, 1, 2, FALSE),
   Test("iperf", {"service", "external"}, 1, 1, TRUE),
   Test("qperf", {"service", "external"}, 1, 1, FALSE),
   Test("qperf", {"external"}, 2, 1, TRUE)}
=============================================================================
