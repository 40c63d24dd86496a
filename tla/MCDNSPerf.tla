----------------------------- MODULE MCDNSPerf -----------------------------
(* DNSPerf with two pods and a channel that holds one result.              *)
EXTENDS DNSPerf

CONSTANTS pod1, pod2

MCPods == {pod1, pod2}

MCModes == {[dnsPolicy |-> TRUE, stress |-> FALSE], [dnsPolicy |-> FALSE, stress |-> TRUE]}

=============================================================================
