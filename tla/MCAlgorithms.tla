---------------------------- MODULE MCAlgorithms ----------------------------
\* The sequential algorithms side by side: each behaviour runs one of them.
EXTENDS Statistics, Capture, TestConfigs

VARIABLE subject

vars == <<subject, measurements, capture, config, verdict>>

\* n numbers in no particular order.
Scattered(n) == [i \in 1..n |-> (i * 37) % n]

MCNumbers == {0, 1, 3}
MCSeries == {Scattered(n) : n \in 1..30} \cup {Scattered(100), Scattered(101)}
MCConnections == {<<"client", "server">>, <<"other", "server">>, <<"server", "client">>}
MCSeqs == {1, 2}
MCPorts == {-1, 0, 1, 65535, 65536}
MCAmounts == {-1, 0, 1}

NoConfig == CHOOSE c \in Files : c.TestKind = "none"

Init ==
  \/ subject = "statistics" /\ StatisticsInit /\ CaptureInit /\ config = NoConfig /\ verdict = "read"
  \/ subject = "capture" /\ measurements = <<>> /\ CaptureInit /\ config = NoConfig /\ verdict = "read"
  \/ subject = "configs" /\ measurements = <<>> /\ CaptureInit /\ ConfigInit

Next ==
  \/ subject = "statistics" /\ Record /\ UNCHANGED <<subject, capture, config, verdict>>
  \/ subject = "capture" /\ Scan /\ UNCHANGED <<subject, measurements, config, verdict>>
  \/ subject = "configs" /\ defaultAndValidate /\ UNCHANGED <<subject, measurements, capture>>

Spec == Init /\ [][Next]_vars
=============================================================================
