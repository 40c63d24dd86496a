----------------------------- MODULE TestConfigs -----------------------------
(***************************************************************************)
(* defaultAndValidate of pkg/config/config.go, for one entry of the config *)
(* file, and what the packages that use the config ask of it.  Fields that *)
(* are only passed on are left out.                                        *)
(***************************************************************************)
EXTENDS Integers

CONSTANTS
  Nil,        (* a section that is not there                               *)
  Ports,      (* ports that a config file may give                         *)
  Amounts     (* numbers of pods and rates that a config file may give     *)

defaultControlPort == 32000
defaultTestPort == 32001

TestKinds == {"none", "dnsperf", "iperf", "thruput-latency", "ttfr"}
Dataplanes == {"", "iptables", "bpf", "nftables"}
DNSPerfModes == {"", "Inline", "NoDelay", "DelayDeniedPacket", "DelayDNSResponse"}

\* What the file may say; the tags of the fields exclude other kinds and modes.  "" and
\* FALSE stand for fields that are left out.
PerfSections(ports) ==
  [Direct : BOOLEAN, Service : BOOLEAN, External : BOOLEAN, ControlPort : ports,
   TestPort : ports, HasExternalIP : BOOLEAN]
PerfConfigs == PerfSections(Ports)
DNSConfigs == [Mode : DNSPerfModes, TestDNSPolicy : BOOLEAN]
TTFRConfigs == [TestPodsPerNode : Amounts, Rate : Amounts]

ASSUME TestConfigsAssumption ==
  /\ 0 \in Ports /\ Ports \subseteq Int /\ Amounts \subseteq Int
  /\ Nil \notin PerfSections(Int) \cup DNSConfigs \cup TTFRConfigs

Given(kinds, dataplanes, dns, perf, ttfr) ==
  [TestKind : kinds, Dataplane : dataplanes, DNSPerf : dns, Perf : perf, TTFRConfig : ttfr]

Files ==
  Given({"iperf", "thruput-latency"}, {""}, {Nil}, {Nil} \cup PerfConfigs, {Nil})
    \cup Given({"dnsperf"}, Dataplanes, {Nil} \cup DNSConfigs, {Nil}, {Nil})
    \cup Given({"ttfr"}, Dataplanes, {Nil}, {Nil}, {Nil} \cup TTFRConfigs)
    \cup Given({"none"}, Dataplanes, {Nil}, {Nil}, {Nil})

VARIABLES
  config,    (* the entry of the config file                               *)
  verdict    (* "read", "accepted" or "rejected"                           *)

ConfigInit == config \in Files /\ verdict = "read"

-----------------------------------------------------------------------------
IsPerf(c) == c.TestKind \in {"thruput-latency", "iperf"}

\* A config without a Perf section measures between pods.
PerfOf(c) ==
  IF c.Perf = Nil
  THEN [Direct |-> TRUE, Service |-> TRUE, External |-> FALSE, ControlPort |-> 0,
        TestPort |-> 0, HasExternalIP |-> FALSE]
  ELSE c.Perf

\* Mutant of Defaulted: the ports of a whole missing section only.
DefaultedSection(c) ==
  IF ~IsPerf(c) \/ c.Perf # Nil THEN c
  ELSE [c EXCEPT !.Perf = [PerfOf(c) EXCEPT !.ControlPort = defaultControlPort,
                                            !.TestPort = defaultTestPort]]

\* Ports default one by one; those of an external test cannot.
Defaulted(c) ==
  LET p == PerfOf(c)
      Or(port, default) == IF port = 0 /\ ~p.External THEN default ELSE port
  IN IF ~IsPerf(c) THEN c
     ELSE [c EXCEPT !.Perf = [p EXCEPT !.ControlPort = Or(@, defaultControlPort),
                                       !.TestPort = Or(@, defaultTestPort)]]

InRange(port) == port \in 1..65535

PerfIsValid(c) ==
  LET p == c.Perf
  IN /\ p.External => /\ p.HasExternalIP
                      /\ c.TestKind = "thruput-latency" => p.ControlPort # 0
                      /\ p.TestPort # 0
     /\ p.ControlPort # 0 => InRange(p.ControlPort)
     /\ InRange(p.TestPort)
     /\ p.Direct \/ p.Service \/ p.External

\* Mutant of DNSIsValid: bpf does without one of the modes.
DNSIsValidButOne(c) ==
  /\ c.DNSPerf # Nil
  /\ c.DNSPerf.TestDNSPolicy => c.DNSPerf.Mode # ""
  /\ c.Dataplane = "bpf" => c.DNSPerf.Mode # "DelayDeniedPacket"
  /\ c.Dataplane = "nftables" => c.DNSPerf.Mode # "Inline"

\* The section has to be there, and the mode one that the dataplane has.
DNSIsValid(c) ==
  /\ c.DNSPerf # Nil
  /\ c.DNSPerf.TestDNSPolicy => c.DNSPerf.Mode # ""
  /\ c.Dataplane = "bpf" => c.DNSPerf.Mode \notin {"DelayDeniedPacket", "DelayDNSResponse"}
  /\ c.Dataplane = "nftables" => c.DNSPerf.Mode # "Inline"

\* The tags of a section that is there are checked; the one that should ask a ttfr test for
\* its section names a field, TestType, that no config has, and asks for nothing.
TTFRIsValid(c) ==
  c.TTFRConfig # Nil => c.TTFRConfig.TestPodsPerNode >= 0 /\ c.TTFRConfig.Rate >= 0

IsValid(c) ==
  /\ c.TestKind = "dnsperf" => DNSIsValid(c)
  /\ TTFRIsValid(c)
  /\ IsPerf(c) => PerfIsValid(Defaulted(c))

defaultAndValidate ==
  /\ verdict = "read"
  /\ IF IsValid(config)
     THEN verdict' = "accepted" /\ config' = Defaulted(config)
     ELSE verdict' = "rejected" /\ UNCHANGED config

ConfigSpec == ConfigInit /\ [][defaultAndValidate]_<<config, verdict>>

-----------------------------------------------------------------------------
\* The modes that patchFelixConfig knows for the dataplane it finds in the Installation.
Supported(dataplane) ==
  CASE dataplane = "iptables" -> {"DelayDNSResponse", "DelayDeniedPacket", "Inline", "NoDelay"}
    [] dataplane = "bpf" -> {"Inline", "NoDelay"}
    [] dataplane = "nftables" -> {"DelayDNSResponse", "DelayDeniedPacket", "NoDelay"}

\* The ports that runOneTest puts into the test policy and the pods.
PortsUsed(c) ==
  IF c.TestKind = "iperf" THEN {c.Perf.TestPort} ELSE {c.Perf.ControlPort, c.Perf.TestPort}

\* Whoever runs an iperf or thruput-latency test needs something to measure, an address for
\* an external test, and ports that are ports.
PerfCanRun(c) ==
  /\ \A port \in PortsUsed(c) : InRange(port)
  /\ c.Perf.Direct \/ c.Perf.Service \/ c.Perf.External
  /\ c.Perf.External => c.Perf.HasExternalIP

\* A DNS test needs its section, with a mode if it tests a policy, and patchFelixConfig has
\* to know the mode, as far as the config says on which dataplane.
DNSCanRun(c) ==
  /\ c.DNSPerf # Nil
  /\ c.DNSPerf.TestDNSPolicy => c.DNSPerf.Mode # ""
  /\ c.Dataplane # "" /\ c.DNSPerf.Mode # "" => c.DNSPerf.Mode \in Supported(c.Dataplane)

\* RunTTFRTest reads its section without asking whether it is there, and its outer loop looks
\* at the clock only after starting a pod: without a pod for each node it never ends.  It
\* does not wait between its pods at a rate of 0; a negative rate means nothing.
TTFRCanRun(c) ==
  c.TTFRConfig # Nil /\ c.TTFRConfig.TestPodsPerNode >= 1 /\ c.TTFRConfig.Rate >= 0

\* Defaults fill in what can be, and the ports that the file gives are ports.
CanRun(c) ==
  LET given == IF c.Perf = Nil THEN {} ELSE {c.Perf.ControlPort, c.Perf.TestPort}
      d == Defaulted(c)
  IN /\ IsPerf(c) => PerfCanRun(d) /\ \A port \in given \ {0} : InRange(port)
     /\ c.TestKind = "dnsperf" => DNSCanRun(c)
     /\ c.TestKind = "ttfr" => TTFRCanRun(c)

\* The ttfr tests that the validation lets in although they cannot run: RunTTFRTest panics
\* for want of the section, or its loop goes round for ever.
Overlooked(c) ==
  /\ c.TestKind = "ttfr"
  /\ c.TTFRConfig = Nil \/ (c.TTFRConfig.TestPodsPerNode = 0 /\ c.TTFRConfig.Rate >= 0)

\* Apart from the ttfr tests that are overlooked, what is accepted can be run and only what
\* cannot is rejected: whichever ports the file gives, a test that does not use a port
\* outside the range, or that could have had a default for one it leaves out, runs
\* (README.md: the ports default per field), and the validation and patchFelixConfig, which
\* list the modes of a dataplane once each, agree.  A port that is given must be one, even
\* where the test does not use it.
ValidationMatchesUse ==
  verdict # "read" => (verdict = "accepted" <=> CanRun(config) \/ Overlooked(config))
=============================================================================
