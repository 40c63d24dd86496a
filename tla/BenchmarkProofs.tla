-------------------------- MODULE BenchmarkProofs --------------------------
(***************************************************************************)
(* Which configs are let in, whatever they say; what a run of any list of  *)
(* tests publishes, and what one test can leave to the next, for any       *)
(* number of failed calls, writes and slow rollouts.                       *)
(***************************************************************************)
EXTENDS Benchmark, TestConfigs, SequenceTheorems, TLAPS

-----------------------------------------------------------------------------
(* The validation of a config.                                             *)

\* A port that is left out, of a test that can have a default for it, gets the default.
PortOr(port, external, default) == IF port = 0 /\ ~external THEN default ELSE port

LEMMA SectionWithPorts ==
  ASSUME NEW p \in PerfSections(Int), NEW a, NEW b
  PROVE  [p EXCEPT !.ControlPort = a, !.TestPort = b] =
           [Direct |-> p.Direct, Service |-> p.Service, External |-> p.External,
            ControlPort |-> a, TestPort |-> b, HasExternalIP |-> p.HasExternalIP]
<1>1. ASSUME NEW direct, NEW service, NEW external, NEW control, NEW probe, NEW ip,
             p = [Direct |-> direct, Service |-> service, External |-> external,
                  ControlPort |-> control, TestPort |-> probe, HasExternalIP |-> ip]
      PROVE  [p EXCEPT !.ControlPort = a, !.TestPort = b] =
               [Direct |-> direct, Service |-> service, External |-> external,
                ControlPort |-> a, TestPort |-> b, HasExternalIP |-> ip]
  <2> DEFINE q == [Direct |-> direct, Service |-> service, External |-> external,
                   ControlPort |-> a, TestPort |-> probe, HasExternalIP |-> ip]
  <2>1. [p EXCEPT !.ControlPort = a] = q
    BY <1>1
  <2>2. [q EXCEPT !.TestPort = b] =
          [Direct |-> direct, Service |-> service, External |-> external,
           ControlPort |-> a, TestPort |-> b, HasExternalIP |-> ip]
    OBVIOUS
  <2>3. [p EXCEPT !.ControlPort = a, !.TestPort = b] =
          [[p EXCEPT !.ControlPort = a] EXCEPT !.TestPort = b]
    OBVIOUS
  <2> QED
    BY <2>1, <2>2, <2>3
<1>2. p = [Direct |-> p.Direct, Service |-> p.Service, External |-> p.External,
           ControlPort |-> p.ControlPort, TestPort |-> p.TestPort,
           HasExternalIP |-> p.HasExternalIP]
  BY DEF PerfSections
<1> QED
  BY <1>1, <1>2

\* What a perf test looks like in a file, and what the defaults make of it.
LEMMA DefaultsOfATest ==
  ASSUME NEW c \in Files, IsPerf(c)
  PROVE  LET p == PerfOf(c)
             d == Defaulted(c)
         IN /\ p \in PerfSections(Int) /\ (c.Perf # Nil => p = c.Perf)
            /\ c.Perf = Nil => p.ControlPort = 0 /\ p.TestPort = 0
            /\ d = [TestKind |-> c.TestKind, Dataplane |-> c.Dataplane, DNSPerf |-> c.DNSPerf,
                    Perf |-> d.Perf, TTFRConfig |-> Nil]
            /\ c.TTFRConfig = Nil
            /\ d.Perf =
                 [Direct |-> p.Direct, Service |-> p.Service, External |-> p.External,
                  ControlPort |-> PortOr(p.ControlPort, p.External, defaultControlPort),
                  TestPort |-> PortOr(p.TestPort, p.External, defaultTestPort),
                  HasExternalIP |-> p.HasExternalIP]
<1> DEFINE p == PerfOf(c)
           d == Defaulted(c)
           q == [p EXCEPT
                   !.ControlPort = PortOr(p.ControlPort, p.External, defaultControlPort),
                   !.TestPort = PortOr(p.TestPort, p.External, defaultTestPort)]
<1>1. c \in Given({"iperf", "thruput-latency"}, {""}, {Nil}, {Nil} \cup PerfConfigs, {Nil})
  BY DEF Files, Given, IsPerf
<1>2. p \in PerfSections(Int)
  <2>1. CASE c.Perf = Nil
    BY <2>1 DEF PerfOf, PerfSections
  <2>2. CASE c.Perf # Nil
    BY <1>1, <2>2, TestConfigsAssumption DEF PerfOf, PerfConfigs, PerfSections, Given
  <2> QED
    BY <2>1, <2>2
<1>3. (c.Perf # Nil => p = c.Perf) /\ (c.Perf = Nil => p.ControlPort = 0 /\ p.TestPort = 0)
  BY DEF PerfOf
<1>4. d = [c EXCEPT !.Perf = q]
  BY DEF Defaulted, PortOr
<1>5. q = [Direct |-> p.Direct, Service |-> p.Service, External |-> p.External,
           ControlPort |-> PortOr(p.ControlPort, p.External, defaultControlPort),
           TestPort |-> PortOr(p.TestPort, p.External, defaultTestPort),
           HasExternalIP |-> p.HasExternalIP]
  <2> HIDE DEF p
  <2> QED
    BY <1>2, SectionWithPorts
<1>6. /\ d = [TestKind |-> c.TestKind, Dataplane |-> c.Dataplane, DNSPerf |-> c.DNSPerf,
               Perf |-> q, TTFRConfig |-> Nil]
      /\ c.TTFRConfig = Nil
  <2> HIDE DEF q, d
  <2> QED
    BY <1>1, <1>4 DEF Given
<1> HIDE DEF p, q, d
<1>7. d.Perf = q
  BY <1>6
<1> QED
  BY <1>2, <1>3, <1>5, <1>6, <1>7 DEF p, d

\* What is there already is left alone.
LEMMA DefaultsAreKept ==
  ASSUME NEW c \in Files
  PROVE  /\ Defaulted(Defaulted(c)) = Defaulted(c)
         /\ Defaulted(c).TestKind = c.TestKind
         /\ ~IsPerf(c) => Defaulted(c) = c
<1>1. CASE ~IsPerf(c)
  BY <1>1 DEF Defaulted
<1>2. CASE IsPerf(c)
  <2> DEFINE p == PerfOf(c)
             d == Defaulted(c)
             q == d.Perf
  <2>1. /\ p \in PerfSections(Int)
        /\ d = [TestKind |-> c.TestKind, Dataplane |-> c.Dataplane, DNSPerf |-> c.DNSPerf,
                Perf |-> q, TTFRConfig |-> Nil]
        /\ q = [Direct |-> p.Direct, Service |-> p.Service, External |-> p.External,
                ControlPort |-> PortOr(p.ControlPort, p.External, defaultControlPort),
                TestPort |-> PortOr(p.TestPort, p.External, defaultTestPort),
                HasExternalIP |-> p.HasExternalIP]
    BY <1>2, DefaultsOfATest
  <2> HIDE DEF p, q, d
  <2>2. q \in PerfSections(Int) /\ q # Nil
    BY <2>1, TestConfigsAssumption
       DEF PerfSections, PortOr, defaultControlPort, defaultTestPort
  <2>3. IsPerf(d) /\ d.TestKind = c.TestKind /\ d.Perf = q
    BY <1>2, <2>1 DEF IsPerf
  <2>4. PerfOf(d) = q
    BY <2>2, <2>3 DEF PerfOf
  <2>5. /\ PortOr(q.ControlPort, q.External, defaultControlPort) = q.ControlPort
        /\ PortOr(q.TestPort, q.External, defaultTestPort) = q.TestPort
    BY <2>1 DEF PortOr
  <2>6. Defaulted(d) = [d EXCEPT !.Perf = [q EXCEPT !.ControlPort = q.ControlPort,
                                                    !.TestPort = q.TestPort]]
    BY <2>3, <2>4, <2>5 DEF Defaulted, PortOr
  <2>7. [q EXCEPT !.ControlPort = q.ControlPort, !.TestPort = q.TestPort] = q
    BY <2>2 DEF PerfSections
  <2>8. Defaulted(d) = d
    BY <2>1, <2>6, <2>7
  <2> QED
    BY <1>2, <2>3, <2>8 DEF d
<1> QED
  BY <1>1, <1>2

\* A perf test with its defaults is valid if whoever runs it can, and its ports are ports.
LEMMA PerfIsValidIffItCanRun ==
  ASSUME NEW c, NEW p \in PerfSections(Int), c.Perf = p,
         c.TestKind \in {"iperf", "thruput-latency"},
         ~p.External => p.ControlPort # 0
  PROVE  PerfIsValid(c) <=>
           PerfCanRun(c) /\ \A port \in {p.ControlPort, p.TestPort} \ {0} : InRange(port)
<1> DEFINE sound == /\ p.Direct \/ p.Service \/ p.External
                    /\ p.External => p.HasExternalIP
<1>1. /\ p.External \in BOOLEAN /\ p.HasExternalIP \in BOOLEAN
      /\ p.ControlPort \in Int /\ p.TestPort \in Int
  BY DEF PerfSections
<1>2. /\ InRange(p.ControlPort) => p.ControlPort # 0
      /\ InRange(p.TestPort) => p.TestPort # 0
  <2>1. ~InRange(0)
    BY DEF InRange
  <2> QED
    BY <2>1
<1>3. PerfIsValid(c) <=>
        /\ sound
        /\ p.External /\ c.TestKind = "thruput-latency" => p.ControlPort # 0
        /\ p.External => p.TestPort # 0
        /\ p.ControlPort # 0 => InRange(p.ControlPort)
        /\ InRange(p.TestPort)
  BY DEF PerfIsValid
<1>4. PerfCanRun(c) <=>
        /\ sound
        /\ InRange(p.TestPort)
        /\ c.TestKind = "thruput-latency" => InRange(p.ControlPort)
  BY DEF PerfCanRun, PortsUsed
<1>5. (\A port \in {p.ControlPort, p.TestPort} \ {0} : InRange(port)) <=>
        /\ p.ControlPort # 0 => InRange(p.ControlPort)
        /\ p.TestPort # 0 => InRange(p.TestPort)
  OBVIOUS
<1> HIDE DEF sound
<1> QED
  BY <1>2, <1>3, <1>4, <1>5

\* The modes that the validation refuses a dataplane are those that patchFelixConfig does not
\* know for it.
LEMMA DNSIsValidIffItCanRun ==
  ASSUME NEW c, c.DNSPerf \in {Nil} \cup DNSConfigs, c.Dataplane \in Dataplanes
  PROVE  DNSIsValid(c) <=> DNSCanRun(c)
<1>1. CASE c.DNSPerf = Nil
  BY <1>1 DEF DNSIsValid, DNSCanRun
<1>2. CASE c.DNSPerf # Nil
  <2>1. c.DNSPerf.Mode \in DNSPerfModes
    BY <1>2 DEF DNSConfigs
  <2>2. (c.Dataplane # "" /\ c.DNSPerf.Mode # "" => c.DNSPerf.Mode \in Supported(c.Dataplane))
          <=> /\ c.Dataplane = "bpf" =>
                   c.DNSPerf.Mode \notin {"DelayDeniedPacket", "DelayDNSResponse"}
              /\ c.Dataplane = "nftables" => c.DNSPerf.Mode # "Inline"
    <3>1. CASE c.Dataplane = ""
      BY <3>1
    <3>2. CASE c.Dataplane = "iptables"
      BY <2>1, <3>2 DEF Supported, DNSPerfModes
    <3>3. CASE c.Dataplane = "bpf"
      BY <2>1, <3>3 DEF Supported, DNSPerfModes
    <3>4. CASE c.Dataplane = "nftables"
      BY <2>1, <3>4 DEF Supported, DNSPerfModes
    <3> QED
      BY <3>1, <3>2, <3>3, <3>4 DEF Dataplanes
  <2> QED
    BY <2>2 DEF DNSIsValid, DNSCanRun
<1> QED
  BY <1>1, <1>2

\* What the ports of a test with its defaults are: one that the file leaves out is there
\* unless the test is external, and one that it gives is the same.
LEMMA PortsOfATest ==
  ASSUME NEW c \in Files, IsPerf(c)
  PROVE  LET p == PerfOf(c)
             q == Defaulted(c).Perf
         IN /\ q \in PerfSections(Int) /\ q # Nil
            /\ ~q.External => q.ControlPort # 0
            /\ p.ControlPort # 0 => q.ControlPort = p.ControlPort
            /\ p.TestPort # 0 => q.TestPort = p.TestPort
            /\ p.ControlPort = 0 /\ q.ControlPort # 0 => InRange(q.ControlPort)
            /\ c.Perf = Nil => p.ControlPort = 0 /\ p.TestPort = 0
            /\ c.Perf # Nil => p = c.Perf
<1> DEFINE p == PerfOf(c)
           q == Defaulted(c).Perf
<1>1. /\ p \in PerfSections(Int) /\ (c.Perf # Nil => p = c.Perf)
      /\ c.Perf = Nil => p.ControlPort = 0 /\ p.TestPort = 0
      /\ q = [Direct |-> p.Direct, Service |-> p.Service, External |-> p.External,
              ControlPort |-> PortOr(p.ControlPort, p.External, defaultControlPort),
              TestPort |-> PortOr(p.TestPort, p.External, defaultTestPort),
              HasExternalIP |-> p.HasExternalIP]
  BY DefaultsOfATest
<1> HIDE DEF p, q
<1>2. q \in PerfSections(Int) /\ q # Nil
  BY <1>1, TestConfigsAssumption
     DEF PerfSections, PortOr, defaultControlPort, defaultTestPort
<1>3. /\ ~q.External => q.ControlPort # 0
      /\ p.ControlPort # 0 => q.ControlPort = p.ControlPort
      /\ p.TestPort # 0 => q.TestPort = p.TestPort
      /\ p.ControlPort = 0 /\ q.ControlPort # 0 => InRange(q.ControlPort)
  <2>1. /\ q.ControlPort = PortOr(p.ControlPort, p.External, defaultControlPort)
        /\ q.TestPort = PortOr(p.TestPort, p.External, defaultTestPort)
        /\ q.External = p.External
    BY <1>1
  <2>2. InRange(defaultControlPort) /\ defaultControlPort # 0
    BY DEF InRange, defaultControlPort
  <2> QED
    BY <2>1, <2>2 DEF PortOr
<1> QED
  BY <1>1, <1>2, <1>3 DEF p, q

\* The tags ask of a section of a ttfr test that is there what the test needs, but for a pod.
LEMMA TTFRIsValidIffItCanRun ==
  ASSUME NEW c, c.TestKind = "ttfr", c.TTFRConfig \in {Nil} \cup TTFRConfigs
  PROVE  TTFRIsValid(c) <=> TTFRCanRun(c) \/ Overlooked(c)
<1>1. CASE c.TTFRConfig = Nil
  BY <1>1 DEF TTFRIsValid, Overlooked
<1>2. CASE c.TTFRConfig # Nil
  <2>1. c.TTFRConfig.TestPodsPerNode \in Int /\ c.TTFRConfig.Rate \in Int
    BY <1>2, TestConfigsAssumption DEF TTFRConfigs
  <2> QED
    BY <1>2, <2>1 DEF TTFRIsValid, TTFRCanRun, Overlooked
<1> QED
  BY <1>1, <1>2

\* The validation says what the test needs, of a config as the file has it and of one with
\* its defaults.
LEMMA ValidIffItCanRun ==
  ASSUME NEW c \in Files
  PROVE  /\ IsValid(c) <=> CanRun(c) \/ Overlooked(c)
         /\ IsValid(c) => CanRun(Defaulted(c)) \/ Overlooked(Defaulted(c))
<1> DEFINE d == Defaulted(c)
<1>1. /\ c.DNSPerf \in {Nil} \cup DNSConfigs /\ c.Dataplane \in Dataplanes
      /\ c.TestKind \in {"iperf", "thruput-latency", "dnsperf", "none", "ttfr"}
      /\ c.TTFRConfig \in {Nil} \cup TTFRConfigs /\ (c.TestKind # "ttfr" => c.TTFRConfig = Nil)
  BY DEF Files, Given, Dataplanes
<1>2. Defaulted(d) = d /\ d.TestKind = c.TestKind /\ (~IsPerf(c) => d = c)
  BY DefaultsAreKept
<1>3. CASE ~IsPerf(c)
  <2>1. DNSIsValid(c) <=> DNSCanRun(c)
    BY <1>1, DNSIsValidIffItCanRun
  <2>2. c.TestKind = "ttfr" => (TTFRIsValid(c) <=> TTFRCanRun(c) \/ Overlooked(c))
    BY <1>1, TTFRIsValidIffItCanRun
  <2>3. c.TestKind # "ttfr" => TTFRIsValid(c) /\ ~Overlooked(c)
    BY <1>1 DEF TTFRIsValid, Overlooked
  <2>4. IsValid(c) <=> CanRun(c) \/ Overlooked(c)
    BY <1>3, <2>1, <2>2, <2>3 DEF IsValid, CanRun, Overlooked
  <2> QED
    BY <1>2, <1>3, <2>4
<1>4. CASE IsPerf(c)
  <2> DEFINE p == PerfOf(c)
             q == d.Perf
             ports == {q.ControlPort, q.TestPort} \ {0}
             given == IF c.Perf = Nil THEN {} ELSE {c.Perf.ControlPort, c.Perf.TestPort}
  <2>1. /\ q \in PerfSections(Int) /\ q # Nil
        /\ ~q.External => q.ControlPort # 0
        /\ p.ControlPort # 0 => q.ControlPort = p.ControlPort
        /\ p.TestPort # 0 => q.TestPort = p.TestPort
        /\ p.ControlPort = 0 /\ q.ControlPort # 0 => InRange(q.ControlPort)
        /\ c.Perf = Nil => p.ControlPort = 0 /\ p.TestPort = 0
        /\ c.Perf # Nil => p = c.Perf
    BY <1>4, PortsOfATest
  <2>2. /\ IsPerf(d) /\ c.TestKind \notin {"dnsperf", "ttfr"}
        /\ d.TestKind \in {"iperf", "thruput-latency"}
        /\ TTFRIsValid(c) /\ ~Overlooked(c) /\ ~Overlooked(d)
    BY <1>1, <1>2, <1>4 DEF IsPerf, TTFRIsValid, Overlooked
  <2>3. PerfIsValid(d) <=> PerfCanRun(d) /\ \A port \in ports : InRange(port)
    BY <2>1, <2>2, PerfIsValidIffItCanRun
  <2>4. PerfCanRun(d) => InRange(q.TestPort)
    BY <2>2 DEF PerfCanRun, PortsUsed
  <2> HIDE DEF q, p, d
  <2>5. given \ {0} = {p.ControlPort, p.TestPort} \ {0}
    BY <2>1
  <2>6. PerfCanRun(d) => ((\A port \in given \ {0} : InRange(port))
                            <=> \A port \in ports : InRange(port))
    BY <2>1, <2>4, <2>5
  <2>7. IsValid(c) <=> PerfIsValid(d)
    BY <1>4, <2>2 DEF IsValid, d
  <2>8. CanRun(c) <=> PerfCanRun(d) /\ \A port \in given \ {0} : InRange(port)
    BY <1>4, <2>2 DEF CanRun, d
  <2>9. CanRun(d) <=> PerfCanRun(d) /\ \A port \in ports : InRange(port)
    BY <1>2, <2>1, <2>2 DEF CanRun, q
  <2> QED
    BY <2>2, <2>3, <2>6, <2>7, <2>8, <2>9 DEF d
<1> QED
  BY <1>3, <1>4

\* Whatever ports, numbers of pods and rates a file gives, the validation and what the tests
\* need agree, but for the ttfr tests that it overlooks.
THEOREM AcceptedConfigsCanRun == ConfigSpec => []ValidationMatchesUse
<1> DEFINE Inv == (verdict = "read" => config \in Files) /\ ValidationMatchesUse
<1>1. ConfigInit => Inv
  BY DEF ConfigInit, ValidationMatchesUse
<1>2. Inv /\ [defaultAndValidate]_<<config, verdict>> => Inv'
  <2> SUFFICES ASSUME Inv, [defaultAndValidate]_<<config, verdict>> PROVE Inv'
    OBVIOUS
  <2>1. CASE defaultAndValidate
    <3>1. config \in Files
      BY <2>1 DEF defaultAndValidate
    <3>2. CASE IsValid(config)
      <4>1. verdict' = "accepted" /\ config' = Defaulted(config)
        BY <2>1, <3>2 DEF defaultAndValidate
      <4>2. CanRun(config') \/ Overlooked(config')
        BY <3>1, <3>2, <4>1, ValidIffItCanRun
      <4> QED
        BY <4>1, <4>2 DEF ValidationMatchesUse
    <3>3. CASE ~IsValid(config)
      <4>1. verdict' = "rejected" /\ config' = config
        BY <2>1, <3>3 DEF defaultAndValidate
      <4>2. ~CanRun(config') /\ ~Overlooked(config')
        BY <3>1, <3>3, <4>1, ValidIffItCanRun
      <4> QED
        BY <4>1, <4>2 DEF ValidationMatchesUse
    <3> QED
      BY <3>2, <3>3
  <2>2. CASE UNCHANGED <<config, verdict>>
    BY <2>2 DEF ValidationMatchesUse
  <2> QED
    BY <2>1, <2>2
<1>3. Inv => ValidationMatchesUse
  OBVIOUS
<1> QED
  BY <1>1, <1>2, <1>3, PTL DEF ConfigSpec

-----------------------------------------------------------------------------
(* The driver.                                                             *)

USE BenchmarkAssumption

-----------------------------------------------------------------------------
(* The types.                                                              *)

\* The config of the test in progress.
LEMMA ConfigOfTheTest ==
  ASSUME TypeOK, current > 0
  PROVE  /\ current \in 1..Length
         /\ cfg \in Configs
         /\ cfg.kind \in Kinds /\ cfg.iterations \in Nat
         /\ cfg.cpuLimit \in Limits \cup {Unset} /\ cfg.namespace \in Namespaces
<1>1. current \in 1..Length
  BY DEF TypeOK, BenchmarkAssumption
<1>2. tests[current] \in Configs
  BY <1>1 DEF TypeOK
<1> QED
  BY <1>1, <1>2 DEF BenchmarkAssumption, cfg

\* However a call ends, the counts keep their bounds and only the test in progress is marked.
LEMMA LuckHasItsType ==
  ASSUME TypeOK, current > 0, Fault \/ Slow \/ Smoothly
  PROVE  /\ faults' \in 0..MaxFaults /\ slow' \in 0..MaxSlow
         /\ disturbed' \in SUBSET (1..Length)
         /\ disturbed \subseteq disturbed' /\ disturbed' \subseteq disturbed \cup {current}
         /\ Slow \/ Smoothly => disturbed' = disturbed
         /\ Fault => current \in disturbed'
<1>1. current \in 1..Length
  BY ConfigOfTheTest
<1>2. /\ MaxFaults \in Nat /\ MaxSlow \in Nat
      /\ faults \in 0..MaxFaults /\ slow \in 0..MaxSlow /\ disturbed \in SUBSET (1..Length)
  BY DEF TypeOK, BenchmarkAssumption
<1>3. CASE Fault
  BY <1>1, <1>2, <1>3 DEF Fault, Slow, Smoothly, luck
<1>4. CASE Slow
  BY <1>1, <1>2, <1>4 DEF Fault, Slow, Smoothly, luck
<1>5. CASE Smoothly
  BY <1>1, <1>2, <1>5 DEF Fault, Slow, Smoothly, luck
<1> QED
  BY <1>3, <1>4, <1>5

\* The results of a test that is abandoned or concluded are results.
LEMMA ResultsHaveTheirType ==
  ASSUME TypeOK
  PROVE  /\ \A n \in 0..Length : NewResult(n) \in Results
         /\ Abandon => thisResult' \in Results
         /\ \A error, data \in BOOLEAN : Finish(error, data) => thisResult' \in Results
<1>1. thisResult \in Results
  BY DEF TypeOK
<1> QED
  BY <1>1 DEF NewResult, Abandon, Finish, Results

\* The initial states are typed.
LEMMA InitHasItsTypes == Init => TypeOK
<1> SUFFICES ASSUME Init PROVE TypeOK
  OBVIOUS
<1>1. Length \in Nat /\ MaxFaults \in Nat /\ MaxWriteFaults \in Nat /\ MaxSlow \in Nat
  BY DEF BenchmarkAssumption
<1>2. thisResult \in Results
  BY <1>1 DEF Init, NewResult, Results
<1>3. /\ results \in Seq(Results) /\ file \in Seq(Results)
      /\ uploads \in Seq(1..Length) /\ junit \in Seq(BOOLEAN)
  BY DEF Init
<1>4. /\ iteration \in Nat /\ measured \in 0..iteration /\ current \in 0..Length
      /\ limitOf \in 0..Length
      /\ faults \in 0..MaxFaults /\ writeFaults \in 0..MaxWriteFaults /\ slow \in 0..MaxSlow
  BY <1>1 DEF Init
<1>5. /\ leftovers \in [Namespaces -> SUBSET (1..Length)]
      /\ deleted \in [Namespaces -> SUBSET (1..Length)] /\ disturbed \subseteq 1..Length
  BY DEF Init
<1> QED
  BY <1>2, <1>3, <1>4, <1>5 DEF Init, TypeOK

\* The loop over the iterations, or leaving it, keeps the type of its counts.
LEMMA CountsHaveTheirType ==
  ASSUME TypeOK, UNCHANGED <<iteration, measured>> \/ (iteration' = 0 /\ measured' = 0)
  PROVE  iteration' \in Nat /\ measured' \in 0..iteration'
<1>1. iteration \in Nat /\ measured \in 0..iteration
  BY DEF TypeOK
<1> QED
  BY <1>1

\* The Installation holds a limit, of the test in progress where it has changed.
LEMMA LimitHasItsType ==
  ASSUME TypeOK, current > 0, NEW l \in Limits \cup {Unset}, SetLimit(l)
  PROVE  limit' \in Limits \cup {Unset} /\ limitOf' \in 0..Length
<1>1. current \in 1..Length /\ limitOf \in 0..Length
  BY ConfigOfTheTest DEF TypeOK
<1> QED
  BY <1>1 DEF SetLimit

\* Whatever a cleanup deletes.
LEMMA CleanupHasItsType ==
  ASSUME TypeOK, current > 0, CleanupNamespace
  PROVE  /\ deleted' \in [Namespaces -> SUBSET (1..Length)]
         /\ UNCHANGED leftovers
         /\ Fault \/ Smoothly
<1>1. /\ leftovers \in [Namespaces -> SUBSET (1..Length)]
      /\ deleted \in [Namespaces -> SUBSET (1..Length)] /\ cfg.namespace \in Namespaces
  BY ConfigOfTheTest DEF TypeOK
<1>2. UNCHANGED leftovers /\ (Fault \/ Smoothly)
  BY DEF CleanupNamespace
<1>3. \/ UNCHANGED deleted
      \/ \E asked \in SUBSET leftovers[cfg.namespace] :
           deleted' = [deleted EXCEPT ![cfg.namespace] = @ \cup asked]
  BY DEF CleanupNamespace
<1> QED
  BY <1>1, <1>2, <1>3

\* Each step keeps the types.
LEMMA StepKeepsTypes ==
  ASSUME TypeOK, pc \notin {"next", "done"} => current > 0, Step
  PROVE  TypeOK'
<1>0. /\ Length \in Nat /\ MaxWriteFaults \in Nat
      /\ current > 0 /\ (Fault \/ Slow \/ Smoothly) =>
           /\ faults' \in 0..MaxFaults /\ slow' \in 0..MaxSlow
           /\ disturbed' \in SUBSET (1..Length)
  BY LuckHasItsType DEF BenchmarkAssumption
<1>1. CASE NextTest
  <2>1. current' \in 1..Length /\ thisResult' = NewResult(current')
    <3>1. /\ current < Length /\ current' = current + 1
          /\ thisResult' = NewResult(current + 1)
      BY <1>1 DEF NextTest
    <3>2. current \in 0..Length
      BY DEF TypeOK
    <3> QED
      BY <1>0, <3>1, <3>2
  <2>2. current' \in 0..Length /\ thisResult' \in Results
    BY <1>0, <2>1, ResultsHaveTheirType
  <2> QED
    BY <1>0, <1>1, <2>2 DEF NextTest, TypeOK, reports, cluster, resources, luck
<1>2. CASE CleanupBefore
  <2>1. /\ CleanupNamespace /\ pc' = "configure" /\ current > 0
        /\ UNCHANGED <<run, test, reports, limit, limitOf, expired>>
    BY <1>2 DEF CleanupBefore
  <2> QED
    BY <1>0, <2>1, CleanupHasItsType DEF TypeOK, run, test, reports
<1>3. CASE ConfigureCluster
  <2>1. /\ current > 0 /\ (Fault \/ Slow \/ Smoothly)
        /\ UNCHANGED <<iteration, measured>> \/ (iteration' = 0 /\ measured' = 0)
        /\ UNCHANGED <<run, reports, resources, expired>>
        /\ pc' \in {"setup", "teardown"}
        /\ thisResult' = thisResult \/ Abandon
    BY <1>3 DEF ConfigureCluster, Abandon, test
  <2>2. limit' \in Limits \cup {Unset} /\ limitOf' \in 0..Length
    <3>1. SetLimit(cfg.cpuLimit) \/ UNCHANGED <<limit, limitOf>>
      BY <1>3 DEF ConfigureCluster
    <3> QED
      BY <2>1, <3>1, ConfigOfTheTest, LimitHasItsType DEF TypeOK
  <2>3. thisResult' \in Results
    BY <2>1, ResultsHaveTheirType DEF TypeOK
  <2>4. iteration' \in Nat /\ measured' \in 0..iteration'
    BY <1>0, <2>1, CountsHaveTheirType
  <2> QED
    BY <1>0, <2>1, <2>2, <2>3, <2>4 DEF TypeOK, run, reports, resources
<1>4. CASE SetupStandingConfig
  <2>1. /\ current > 0 /\ (Fault \/ Smoothly)
        /\ UNCHANGED <<iteration, measured>> \/ (iteration' = 0 /\ measured' = 0)
        /\ UNCHANGED <<run, reports, deleted, limit, limitOf, expired>>
        /\ pc' \in {"prepare", "teardown"}
        /\ thisResult' = thisResult \/ Abandon
        /\ leftovers' = [leftovers EXCEPT ![cfg.namespace] = @ \cup {current}]
    BY <1>4 DEF SetupStandingConfig, Abandon, test
  <2>2. leftovers' \in [Namespaces -> SUBSET (1..Length)]
    BY <2>1, ConfigOfTheTest DEF TypeOK
  <2>3. thisResult' \in Results
    BY <2>1, ResultsHaveTheirType DEF TypeOK
  <2>4. iteration' \in Nat /\ measured' \in 0..iteration'
    BY <1>0, <2>1, CountsHaveTheirType
  <2> QED
    BY <1>0, <2>1, <2>2, <2>3, <2>4 DEF TypeOK, run, reports, resources
<1>5. CASE Prepare
  <2>1. /\ current > 0 /\ (Fault \/ Smoothly)
        /\ UNCHANGED <<iteration, measured>> \/ (iteration' = 0 /\ measured' = 0)
        /\ UNCHANGED <<run, reports, cluster, expired>>
        /\ pc' \in {"measure", "teardown"}
        /\ thisResult' = thisResult \/ Abandon
    BY <1>5 DEF Prepare, Abandon, test
  <2>2. thisResult' \in Results
    BY <2>1, ResultsHaveTheirType DEF TypeOK
  <2>3. iteration' \in Nat /\ measured' \in 0..iteration'
    BY <1>0, <2>1, CountsHaveTheirType
  <2> QED
    BY <1>0, <2>1, <2>2, <2>3 DEF TypeOK, run, reports, cluster, resources
<1>6. CASE Measure
  <2>1. /\ current > 0 /\ (Fault \/ Smoothly)
        /\ UNCHANGED <<run, pc, thisResult, reports, cluster, expired>>
        /\ iteration' = iteration + 1 /\ measured' \in {measured, measured + 1}
    BY <1>6 DEF Measure
  <2>2. iteration' \in Nat /\ measured' \in 0..iteration'
    <3>1. iteration \in Nat /\ measured \in 0..iteration
      BY DEF TypeOK
    <3> QED
      BY <2>1, <3>1
  <2> QED
    BY <1>0, <2>1, <2>2 DEF TypeOK, run, reports, cluster, resources
<1>7. CASE Conclude
  <2>0. \E error, data \in BOOLEAN : Finish(error, data)
    <3>1. (cfg.iterations > 0) \in BOOLEAN
      OBVIOUS
    <3> QED
      BY <1>7, <3>1, Zenon DEF Conclude
  <2>1. /\ current > 0 /\ (Fault \/ Smoothly)
        /\ UNCHANGED <<iteration, measured>> \/ (iteration' = 0 /\ measured' = 0)
        /\ UNCHANGED <<run, reports, cluster, expired>>
        /\ pc' = "teardown"
        /\ \E error, data \in BOOLEAN : Finish(error, data)
    BY <1>7, <2>0 DEF Conclude, Finish
  <2>2. thisResult' \in Results
    BY <2>1, ResultsHaveTheirType
  <2>3. iteration' \in Nat /\ measured' \in 0..iteration'
    BY <1>0, <2>1, CountsHaveTheirType
  <2> QED
    BY <1>0, <2>1, <2>2, <2>3 DEF TypeOK, run, reports, cluster, resources
<1>8. CASE ResetLimit
  <2>1. /\ current > 0 /\ (Fault \/ Slow \/ Smoothly)
        /\ UNCHANGED <<run, test, reports, resources>>
        /\ pc' = "cleanup" /\ expired' \in {expired, TRUE}
        /\ SetLimit(Unset) \/ UNCHANGED <<limit, limitOf>>
    BY <1>8 DEF ResetLimit
  <2>2. limit' \in Limits \cup {Unset} /\ limitOf' \in 0..Length
    BY <2>1, LimitHasItsType DEF TypeOK
  <2> QED
    BY <1>0, <2>1, <2>2 DEF TypeOK, run, test, reports, resources
<1>9. CASE CleanupAfter
  <2>1. /\ CleanupNamespace /\ pc' = "record" /\ current > 0 /\ expired' = FALSE
        /\ UNCHANGED <<run, test, reports, limit, limitOf>>
    BY <1>9 DEF CleanupAfter
  <2> QED
    BY <1>0, <2>1, CleanupHasItsType DEF TypeOK, run, test, reports
<1>10. CASE Record
  <2>1. results' \in Seq(Results)
    BY <1>10 DEF Record, TypeOK
  <2> QED
    BY <1>10, <2>1 DEF Record, TypeOK, run, test, cluster, resources, luck
<1>11. CASE Upload
  <2>1. uploads' \in Seq(1..Length)
    <3>1. current \in 1..Length
      BY <1>11, ConfigOfTheTest DEF Upload
    <3>2. Append(uploads, current) \in Seq(1..Length)
      BY <3>1, AppendProperties DEF TypeOK
    <3> QED
      BY <1>11, <3>2 DEF Upload, TypeOK
  <2> QED
    BY <1>11, <2>1 DEF Upload, TypeOK, run, test, cluster, resources, luck
<1>12. CASE WriteResultToFile
  <2>1. file' \in Seq(Results)
    <3>1. file' = results \/ file' = file \/ file' = <<>>
      BY <1>12 DEF WriteResultToFile
    <3>2. results \in Seq(Results) /\ file \in Seq(Results) /\ <<>> \in Seq(Results)
      BY EmptySeq DEF TypeOK
    <3> QED
      BY <3>1, <3>2, Zenon
  <2>2. writeFaults' \in 0..MaxWriteFaults
    <3>1. writeFaults \in 0..MaxWriteFaults
      BY DEF TypeOK
    <3>2. \/ UNCHANGED writeFaults
          \/ writeFaults < MaxWriteFaults /\ writeFaults' = writeFaults + 1
      BY <1>12 DEF WriteResultToFile
    <3> QED
      BY <1>0, <3>1, <3>2
  <2> QED
    BY <1>12, <2>1, <2>2 DEF WriteResultToFile, TypeOK, run, test, cluster, resources, luck
<1>13. CASE WriteJUnitReport
  <2>1. junit' \in Seq(BOOLEAN)
    <3>1. \A r, c : IsTestFailed(r, c) \in BOOLEAN
      BY DEF IsTestFailed
    <3>2. Len(results) \in Nat
      BY DEF TypeOK
    <3>3. junit' \in [1..Len(results) -> BOOLEAN] \/ junit' = junit
      BY <1>13, <3>1, Zenon DEF WriteJUnitReport
    <3>4. junit \in Seq(BOOLEAN)
      BY DEF TypeOK
    <3> QED
      BY <3>2, <3>3, <3>4, IsASeq
  <2> QED
    BY <1>13, <2>1 DEF WriteJUnitReport, TypeOK, run, test, cluster, resources, luck
<1> QED
  BY <1>1, <1>2, <1>3, <1>4, <1>5, <1>6, <1>7, <1>8, <1>9, <1>10, <1>11, <1>12, <1>13
  DEF Step

-----------------------------------------------------------------------------
(* The results, and what is published of them.                             *)

\* Steps within a test before its result is recorded.
Running == {"before", "configure", "setup", "prepare", "measure", "teardown", "cleanup"}

\* Such a step leaves all that has been recorded and published, and Recorded then rests on
\* the result of the test alone.
LEMMA RunningKeepsRecords ==
  ASSUME TypeOK, Recorded, Uploaded, FileIsAPrefix, UNCHANGED <<run, reports>>,
         pc \in Running, pc' \in Running \cup {"record"},
         thisResult'.test = current, Sound(thisResult'),
         pc' \in {"before", "configure", "setup", "prepare", "measure"} =>
           thisResult'.status = "failed"
  PROVE  Recorded' /\ Uploaded' /\ FileIsAPrefix'
<1>1. UNCHANGED <<tests, current, results, uploads, file>>
  BY DEF run, reports
<1>2. pc \notin {"next", "done", "upload", "write"} /\ pc' \notin {"next", "done", "upload", "write"}
  BY DEF Running
<1>3. \A r : Sound(r)' = Sound(r')
  BY <1>1 DEF Sound
<1>4. Recorded'
  BY <1>1, <1>2 DEF Recorded, Sound
<1>5. Uploaded'
  BY <1>1, <1>2 DEF Uploaded
<1>6. FileIsAPrefix'
  BY <1>1 DEF FileIsAPrefix
<1> QED
  BY <1>4, <1>5, <1>6

\* A result that is given up, or not yet complete, is a failure of the test in progress.
LEMMA AbandonedIsAFailure ==
  ASSUME TypeOK, Recorded, pc \in {"before", "configure", "setup", "prepare", "measure"},
         UNCHANGED thisResult \/ Abandon
  PROVE  thisResult'.test = current /\ thisResult'.status = "failed" /\ Sound(thisResult')
<1>1. thisResult \in Results /\ thisResult.status = "failed" /\ thisResult.test = current
  BY DEF TypeOK, Recorded
<1>2. thisResult'.test = current /\ thisResult'.status = "failed"
  BY <1>1 DEF Abandon, Results
<1> QED
  BY <1>2 DEF Sound

\* A success is concluded only with the measurements that its config asked for.
LEMMA ConclusionsAreSound ==
  ASSUME TypeOK, Recorded, Conclude
  PROVE  thisResult'.test = current /\ Sound(thisResult')
<1>1. /\ current > 0 /\ cfg.kind \in Kinds /\ cfg.iterations \in Nat
      /\ thisResult \in Results /\ thisResult.test = current
      /\ measured \in 0..iteration /\ iteration \in Nat
  <2>1. current > 0
    BY DEF Recorded, Conclude
  <2> QED
    BY <2>1, ConfigOfTheTest DEF TypeOK, Recorded
<1>2. \A error, data : Finish(error, data) =>
         /\ thisResult'.test = current /\ thisResult'.data = data
         /\ thisResult'.status = IF error THEN "failed" ELSE "success"
  BY <1>1 DEF Finish, Results
<1>3. thisResult'.test = current
  BY <1>2 DEF Conclude
<1>4. ASSUME thisResult'.status = "success", cfg.kind = "perf"
      PROVE  thisResult'.data <=> cfg.iterations > 0
  <2>1. CASE measured = 0
    <3>1. Finish(cfg.iterations > 0, FALSE)
      BY <1>2, <1>4, <2>1 DEF Conclude
    <3> QED
      BY <1>2, <1>4, <3>1
  <2>2. CASE measured # 0
    <3>1. Finish(FALSE, TRUE) /\ iteration = cfg.iterations
      BY <1>2, <1>4, <2>2 DEF Conclude
    <3>2. cfg.iterations > 0
      BY <1>1, <2>2, <3>1
    <3> QED
      BY <1>2, <3>1, <3>2
  <2> QED
    BY <2>1, <2>2
<1> QED
  BY <1>3, <1>4 DEF Sound, cfg

\* Each step keeps the records, what is in ElasticSearch and what is in the file.
LEMMA StepKeepsRecords ==
  ASSUME TypeOK, Recorded, Uploaded, FileIsAPrefix, Step
  PROVE  Recorded' /\ Uploaded' /\ FileIsAPrefix'
<1>0. /\ Length \in Nat /\ current \in 0..Length /\ thisResult \in Results
      /\ results \in Seq(Results) /\ Len(results) \in Nat /\ DOMAIN results = 1..Len(results)
      /\ uploads \in Seq(1..Length) /\ Len(uploads) \in Nat /\ DOMAIN uploads = 1..Len(uploads)
      /\ file \in Seq(Results) /\ Len(file) \in Nat /\ DOMAIN file = 1..Len(file)
  BY LenProperties DEF TypeOK, BenchmarkAssumption
<1>1. CASE NextTest
  <2>1. /\ pc = "next" /\ pc' = "before" /\ current' = current + 1
        /\ UNCHANGED <<tests, results, uploads, file>>
        /\ thisResult'.test = current' /\ thisResult'.status = "failed"
    BY <1>1 DEF NextTest, NewResult, reports
  <2>2. Recorded'
    BY <1>0, <2>1 DEF Recorded, Sound
  <2>3. Uploaded'
    BY <1>0, <2>1 DEF Uploaded, Recorded
  <2>4. FileIsAPrefix'
    BY <2>1 DEF FileIsAPrefix
  <2> QED
    BY <2>2, <2>3, <2>4
<1>2. CASE CleanupBefore \/ ConfigureCluster \/ SetupStandingConfig \/ Prepare \/ Measure
  <2>1. /\ pc \in {"before", "configure", "setup", "prepare", "measure"}
        /\ UNCHANGED <<run, reports>>
        /\ UNCHANGED thisResult \/ Abandon
        /\ pc' \in Running
    BY <1>2 DEF CleanupBefore, ConfigureCluster, SetupStandingConfig, Prepare, Measure, test,
       Abandon, Running
  <2>2. pc \in Running
    BY <2>1 DEF Running
  <2> QED
    BY <2>1, <2>2, AbandonedIsAFailure, RunningKeepsRecords
<1>3. CASE Conclude
  <2>1. pc \in Running /\ pc' = "teardown" /\ UNCHANGED <<run, reports>>
    BY <1>3 DEF Conclude, Finish, Running
  <2>2. pc' \in Running
    BY <2>1 DEF Running
  <2> QED
    BY <1>3, <2>1, <2>2, ConclusionsAreSound, RunningKeepsRecords
<1>4. CASE ResetLimit \/ CleanupAfter
  <2>1. /\ pc \in Running /\ pc' \in {"cleanup", "record"} /\ UNCHANGED <<run, reports>>
        /\ UNCHANGED thisResult
    BY <1>4 DEF ResetLimit, CleanupAfter, Running, test
  <2>2. pc' \in Running \cup {"record"} /\ thisResult.test = current /\ Sound(thisResult)
    BY <2>1 DEF Running, Recorded
  <2> QED
    BY <2>1, <2>2, RunningKeepsRecords
<1>5. CASE Record
  <2>1. /\ pc = "record" /\ results' = Append(results, thisResult)
        /\ UNCHANGED <<tests, current, thisResult, uploads, file>>
        /\ pc' = IF thisResult.complete THEN "upload" ELSE "next"
    BY <1>5 DEF Record, run, test
  <2>2. /\ current > 0 /\ Len(results) = current - 1
        /\ thisResult.test = current /\ Sound(thisResult)
    BY <2>1 DEF Recorded
  <2>3. /\ Len(results') = current /\ DOMAIN results' = 1..current
        /\ results'[current] = thisResult
        /\ \A k \in DOMAIN results : results'[k] = results[k]
    BY <1>0, <2>1, <2>2, AppendProperties
  <2>4. Recorded'
    <3>1. \A k \in DOMAIN results' : results'[k].test = k /\ Sound(results'[k])
      <4>1. \A k \in DOMAIN results' : k = current \/ k \in DOMAIN results
        BY <1>0, <2>2, <2>3
      <4>2. \A k \in DOMAIN results : results[k].test = k /\ Sound(results[k])
        BY DEF Recorded
      <4> QED
        BY <2>2, <2>3, <4>1, <4>2
    <3> QED
      BY <2>1, <2>2, <2>3, <3>1 DEF Recorded, Sound
  <2>5. Uploaded'
    BY <1>0, <2>1, <2>2, <2>3 DEF Uploaded
  <2>6. FileIsAPrefix'
    BY <1>0, <2>1, <2>2, <2>3 DEF FileIsAPrefix
  <2> QED
    BY <2>4, <2>5, <2>6
<1>6. CASE Upload
  <2>1. /\ pc = "upload" /\ pc' = "write"
        /\ UNCHANGED <<tests, current, thisResult, results, file>>
        /\ uploads' = uploads \/ uploads' = Append(uploads, current)
    BY <1>6 DEF Upload, run, test
  <2>2. Recorded'
    BY <2>1 DEF Recorded, Sound
  <2>3. Uploaded'
    <3>1. current \in DOMAIN results /\ results[current].complete
      BY <1>0, <2>1 DEF Recorded
    <3>2. CASE uploads' = Append(uploads, current)
      <4>1. /\ DOMAIN uploads' = 1..Len(uploads) + 1
            /\ uploads'[Len(uploads) + 1] = current
            /\ \A k \in DOMAIN uploads : uploads'[k] = uploads[k]
        BY <1>0, <3>1, <3>2, AppendProperties
      <4>2. \A k \in DOMAIN uploads : uploads[k] < current
        BY <2>1 DEF Uploaded
      <4>3. \A k \in DOMAIN uploads' :
               uploads'[k] \in DOMAIN results /\ results[uploads'[k]].complete
        BY <1>0, <3>1, <4>1, SMTT(20) DEF Uploaded
      <4>4. ASSUME NEW j \in DOMAIN uploads', NEW k \in DOMAIN uploads', j < k
            PROVE  uploads'[j] < uploads'[k]
        <5>1. j \in DOMAIN uploads
          BY <1>0, <4>1, <4>4
        <5>2. CASE k \in DOMAIN uploads
          BY <4>1, <4>4, <5>1, <5>2 DEF Uploaded
        <5>3. CASE k \notin DOMAIN uploads
          <6>1. k = Len(uploads) + 1
            BY <1>0, <4>1, <5>3
          <6> QED
            BY <4>1, <4>2, <5>1, <6>1
        <5> QED
          BY <5>2, <5>3
      <4> QED
        BY <2>1, <4>3, <4>4 DEF Uploaded
    <3>3. CASE uploads' = uploads
      BY <2>1, <3>3 DEF Uploaded
    <3> QED
      BY <2>1, <3>2, <3>3
  <2>4. FileIsAPrefix'
    BY <2>1 DEF FileIsAPrefix
  <2> QED
    BY <2>2, <2>3, <2>4
<1>7. CASE WriteResultToFile
  <2>1. /\ pc = "write" /\ pc' = "next"
        /\ UNCHANGED <<tests, current, thisResult, results, uploads>>
        /\ file' = results \/ file' = file \/ file' = <<>>
    BY <1>7 DEF WriteResultToFile, run, test
  <2>2. Recorded'
    BY <2>1 DEF Recorded, Sound
  <2>3. Uploaded'
    BY <2>1 DEF Uploaded
  <2>4. FileIsAPrefix'
    <3>1. CASE file' = results
      <4>1. current > 0 /\ Len(results) = current /\ results[current].complete
        BY <2>1 DEF Recorded
      <4>2. \A k \in DOMAIN results : results[k].test = k
        BY DEF Recorded
      <4> QED
        BY <1>0, <2>1, <3>1, <4>1, <4>2 DEF FileIsAPrefix
    <3>2. CASE file' = file
      BY <2>1, <3>2 DEF FileIsAPrefix
    <3>3. CASE file' = <<>>
      <4>1. Len(file') = 0 /\ DOMAIN file' = {}
        BY <3>3
      <4> QED
        BY <1>0, <2>1, <3>3, <4>1 DEF FileIsAPrefix
    <3> QED
      BY <2>1, <3>1, <3>2, <3>3
  <2> QED
    BY <2>2, <2>3, <2>4
<1>8. CASE WriteJUnitReport
  <2>1. /\ pc = "next" /\ pc' = "done"
        /\ UNCHANGED <<tests, current, thisResult, results, uploads, file>>
    BY <1>8 DEF WriteJUnitReport, run, test
  <2> QED
    BY <2>1 DEF Recorded, Sound, Uploaded, FileIsAPrefix
<1> QED
  BY <1>1, <1>2, <1>3, <1>4, <1>5, <1>6, <1>7, <1>8 DEF Step

-----------------------------------------------------------------------------
(* What a test leaves to the next.                                         *)

\* Steps that have nothing to do with the limit, the namespaces or the luck of a test.
LEMMA ReportingKeepsTheCluster ==
  ASSUME LimitKept, NamespaceKept, UNCHANGED <<tests, current, cluster, expired, disturbed>>,
         pc \in {"record", "upload", "write", "next"},
         pc' \in {"upload", "write", "next", "done"}
  PROVE  LimitKept' /\ NamespaceKept'
<1>1. UNCHANGED <<limit, limitOf, leftovers, deleted>>
  BY DEF cluster, resources
<1>2. LimitKept'
  BY <1>1 DEF LimitKept, LimitExcused, InTest
<1>3. NamespaceKept'
  BY <1>1 DEF NamespaceKept, InTest
<1> QED
  BY <1>2, <1>3

\* A test keeps the limit it has been given while it is measured, and hands none on.
LEMMA StepKeepsLimits ==
  ASSUME TypeOK, pc \notin {"next", "done"} => current > 0, LimitKept, Step
  PROVE  LimitKept'
<1> DEFINE From == {"setup", "prepare", "measure", "teardown"}
<1>0. /\ current > 0 /\ (Fault \/ Slow \/ Smoothly) => disturbed \subseteq disturbed'
      /\ current > 0 => cfg.cpuLimit \in Limits \cup {Unset}
      /\ Unset \notin Limits
  BY LuckHasItsType, ConfigOfTheTest DEF BenchmarkAssumption
<1>1. CASE NextTest
  BY <1>1 DEF NextTest, cluster, resources, luck, LimitKept, LimitExcused, InTest
<1>2. CASE CleanupBefore \/ CleanupAfter
  <2>1. /\ pc \in {"before", "cleanup"} /\ pc' \in {"configure", "record"} /\ current > 0
        /\ CleanupNamespace /\ UNCHANGED <<limit, limitOf>>
    BY <1>2 DEF CleanupBefore, CleanupAfter
  <2>2. disturbed \subseteq disturbed'
    BY <1>0, <2>1, CleanupHasItsType
  <2>3. LimitExcused'
    BY <2>1, <2>2 DEF LimitKept, LimitExcused
  <2> QED
    BY <2>1, <2>3 DEF LimitKept, InTest
<1>3. CASE ConfigureCluster
  <2>1. /\ pc = "configure" /\ pc' \in {"setup", "teardown"} /\ current > 0
        /\ UNCHANGED <<tests, current>> /\ (Fault \/ Slow \/ Smoothly)
        /\ UNCHANGED <<limit, limitOf>> \/ (cfg.cpuLimit # Unset /\ SetLimit(cfg.cpuLimit))
        /\ pc' = "setup" /\ cfg.cpuLimit # Unset => SetLimit(cfg.cpuLimit)
    BY <1>3 DEF ConfigureCluster, Abandon, run
  <2>2. LimitExcused /\ cfg' = cfg /\ disturbed \subseteq disturbed'
    BY <1>0, <2>1 DEF LimitKept, cfg
  <2>3. LimitExcused' \/ (cfg.cpuLimit # Unset /\ limitOf' = current)
    BY <2>1, <2>2 DEF LimitExcused, SetLimit
  <2>4. InTest' /\ cfg.cpuLimit # Unset => limit' = cfg.cpuLimit
    BY <2>1 DEF InTest, SetLimit
  <2> QED
    BY <2>1, <2>2, <2>3, <2>4 DEF LimitKept
<1>4. CASE SetupStandingConfig \/ Prepare \/ Measure \/ Conclude
  <2>1. /\ pc \in {"setup", "prepare", "measure"} /\ pc' \in From /\ current > 0
        /\ UNCHANGED <<tests, current, limit, limitOf>> /\ (Fault \/ Smoothly)
    BY <1>4 DEF SetupStandingConfig, Prepare, Measure, Conclude, Abandon, Finish, run, cluster,
       resources
  <2>2. cfg' = cfg /\ disturbed \subseteq disturbed'
    BY <1>0, <2>1 DEF cfg
  <2>3. LimitExcused => LimitExcused'
    BY <2>1, <2>2 DEF LimitExcused
  <2> QED
    BY <2>1, <2>2, <2>3 DEF LimitKept, InTest
<1>5. CASE ResetLimit
  <2>1. /\ pc = "teardown" /\ pc' = "cleanup" /\ current > 0 /\ UNCHANGED <<tests, current>>
        /\ (Fault \/ Slow \/ Smoothly)
    BY <1>5 DEF ResetLimit, run
  <2>2. disturbed \subseteq disturbed' /\ (Fault => current \in disturbed')
    BY <1>0, <2>1, LuckHasItsType
  <2>3. LimitExcused \/ (cfg.cpuLimit # Unset /\ limitOf = current)
    BY <2>1 DEF LimitKept
  <2>4. LimitExcused'
    <3>1. CASE SetLimit(Unset)
      BY <3>1 DEF SetLimit, LimitExcused
    <3>2. CASE ~SetLimit(Unset)
      <4>1. UNCHANGED <<limit, limitOf>> /\ (cfg.cpuLimit = Unset \/ Fault)
        BY <1>5, <3>2 DEF ResetLimit
      <4> QED
        BY <2>2, <2>3, <4>1 DEF LimitExcused
    <3> QED
      BY <3>1, <3>2
  <2> QED
    BY <2>1, <2>4 DEF LimitKept, InTest
<1>6. CASE Record \/ Upload \/ WriteResultToFile \/ WriteJUnitReport
  BY <1>6 DEF Record, Upload, WriteResultToFile, WriteJUnitReport, run, cluster, resources, luck,
     LimitKept, LimitExcused, InTest
<1> QED
  BY <1>1, <1>2, <1>3, <1>4, <1>5, <1>6 DEF Step

\* A cleanup without a failed call of its own leaves nothing in the namespace that it has not
\* deleted, and nothing but the test itself puts anything there until the test is over.
LEMMA StepKeepsNamespaces ==
  ASSUME TypeOK, pc \notin {"next", "done"} => current > 0, NamespaceKept, Step
  PROVE  NamespaceKept'
<1> DEFINE Fresh == ~cfg.leaveStandingConfig /\ current \notin disturbed =>
                      leftovers[cfg.namespace] \subseteq deleted[cfg.namespace] \cup {current}
<1>0. /\ leftovers \in [Namespaces -> SUBSET (1..Length)]
      /\ deleted \in [Namespaces -> SUBSET (1..Length)]
      /\ current > 0 => cfg.namespace \in Namespaces
      /\ current > 0 /\ (Fault \/ Slow \/ Smoothly) => disturbed \subseteq disturbed'
      /\ current > 0 /\ Fault => current \in disturbed'
  BY LuckHasItsType, ConfigOfTheTest DEF TypeOK
<1>1. CASE NextTest
  BY <1>1 DEF NextTest, NamespaceKept, InTest
<1>2. CASE CleanupBefore
  <2>1. /\ pc = "before" /\ pc' = "configure" /\ current > 0 /\ CleanupNamespace
        /\ UNCHANGED <<tests, current, expired>> /\ ~expired
    BY <1>2 DEF CleanupBefore, NamespaceKept, run
  <2>2. cfg' = cfg
    BY <2>1 DEF cfg
  <2>3. Fresh'
    <3>1. SUFFICES ASSUME ~cfg'.leaveStandingConfig, current' \notin disturbed'
                   PROVE  leftovers'[cfg'.namespace] \subseteq deleted'[cfg'.namespace]
      OBVIOUS
    <3>2. ~Fault /\ ~cfg.leaveStandingConfig
      BY <1>0, <2>1, <2>2, <3>1
    <3>3. /\ UNCHANGED leftovers
          /\ deleted' = [deleted EXCEPT ![cfg.namespace] = @ \cup leftovers[cfg.namespace]]
      BY <2>1, <3>2 DEF CleanupNamespace
    <3> QED
      BY <1>0, <2>1, <2>2, <3>3
  <2> QED
    BY <2>1, <2>3 DEF NamespaceKept, InTest
<1>3. CASE ConfigureCluster \/ Prepare \/ Measure \/ Conclude
  <2>1. /\ pc \in {"configure", "prepare", "measure"} /\ current > 0 /\ pc' # "configure"
        /\ UNCHANGED <<tests, current, expired, leftovers, deleted>> /\ (Fault \/ Slow \/ Smoothly)
    BY <1>3 DEF ConfigureCluster, Prepare, Measure, Conclude, Abandon, Finish, run, cluster,
       resources
  <2>2. cfg' = cfg /\ disturbed \subseteq disturbed'
    BY <1>0, <2>1 DEF cfg
  <2> QED
    BY <2>1, <2>2 DEF NamespaceKept, InTest
<1>4. CASE SetupStandingConfig
  <2>1. /\ pc = "setup" /\ current > 0 /\ pc' \in {"prepare", "teardown"}
        /\ UNCHANGED <<tests, current, expired, deleted>> /\ (Fault \/ Smoothly)
        /\ leftovers' = [leftovers EXCEPT ![cfg.namespace] = @ \cup {current}]
    BY <1>4 DEF SetupStandingConfig, Abandon, run
  <2>2. cfg' = cfg /\ disturbed \subseteq disturbed'
    BY <1>0, <2>1 DEF cfg
  <2>3. leftovers'[cfg.namespace] = leftovers[cfg.namespace] \cup {current}
    BY <1>0, <2>1
  <2> QED
    BY <2>1, <2>2, <2>3 DEF NamespaceKept, InTest
<1>5. CASE ResetLimit \/ CleanupAfter
  <2>1. /\ pc' \in {"cleanup", "record"} /\ (expired' => pc' = "cleanup")
    BY <1>5 DEF ResetLimit, CleanupAfter, NamespaceKept
  <2> QED
    BY <2>1 DEF NamespaceKept, InTest
<1>6. CASE Record \/ Upload \/ WriteResultToFile \/ WriteJUnitReport
  BY <1>6 DEF Record, Upload, WriteResultToFile, WriteJUnitReport, NamespaceKept, InTest
<1> QED
  BY <1>1, <1>2, <1>3, <1>4, <1>5, <1>6 DEF Step

-----------------------------------------------------------------------------
(* The theorems.                                                           *)

LEMMA BenchmarkInvHolds == Spec => []BenchmarkInv
<1>1. Init => BenchmarkInv
  <2>1. SUFFICES ASSUME Init PROVE BenchmarkInv
    OBVIOUS
  <2>2. Recorded /\ Uploaded /\ FileIsAPrefix
    BY <2>1 DEF Init, NewResult, Recorded, Sound, Uploaded, FileIsAPrefix
  <2>3. LimitKept /\ NamespaceKept
    BY <2>1 DEF Init, LimitKept, LimitExcused, NamespaceKept, InTest
  <2> QED
    BY <2>1, <2>2, <2>3, InitHasItsTypes DEF BenchmarkInv
<1>2. ASSUME BenchmarkInv, [Next]_vars
      PROVE  BenchmarkInv'
  <2>1. CASE Step
    <3>1. pc \notin {"next", "done"} => current > 0
      BY <1>2 DEF BenchmarkInv, Recorded
    <3> QED
      BY <1>2, <2>1, <3>1, StepKeepsTypes, StepKeepsRecords, StepKeepsLimits, StepKeepsNamespaces
      DEF BenchmarkInv
  <2>2. CASE UNCHANGED vars
    <3>1. UNCHANGED <<tests, current, pc, thisResult, iteration, measured, results, uploads,
                      file, junit, writeFaults, limit, limitOf, leftovers, deleted, expired,
                      disturbed, faults, slow>>
      BY <2>2 DEF vars, run, test, reports, cluster, resources, luck
    <3>2. TypeOK'
      BY <1>2, <3>1 DEF BenchmarkInv, TypeOK
    <3>3. Recorded' /\ Uploaded' /\ FileIsAPrefix'
      BY <1>2, <3>1 DEF BenchmarkInv, Recorded, Sound, Uploaded, FileIsAPrefix
    <3>4. LimitKept'
      BY <1>2, <3>1 DEF BenchmarkInv, LimitKept, LimitExcused, InTest, cfg
    <3>5. NamespaceKept'
      BY <1>2, <3>1 DEF BenchmarkInv, NamespaceKept, InTest, cfg
    <3> QED
      BY <3>2, <3>3, <3>4, <3>5 DEF BenchmarkInv
  <2> QED
    BY <1>2, <2>1, <2>2 DEF Next, Done
<1> QED
  BY <1>1, <1>2, PTL DEF Spec

\* Every variable of the driver keeps its type: no counter exceeds its bound, and only tests
\* of the list are recorded, uploaded or blamed.
THEOREM BenchmarkTypeCorrect == Spec => []TypeOK
<1>1. BenchmarkInv => TypeOK
  BY DEF BenchmarkInv
<1> QED
  BY <1>1, BenchmarkInvHolds, PTL

\* ElasticSearch only ever receives results of tests that completed, in order and once.
THEOREM OnlyCompleteResultsAreUploaded == Spec => []UploadsAreComplete
<1>1. BenchmarkInv => UploadsAreComplete
  <2>1. SUFFICES ASSUME BenchmarkInv PROVE UploadsAreComplete
    OBVIOUS
  <2>2. \A k \in DOMAIN uploads :
          /\ results[uploads[k]].complete /\ results[uploads[k]].test = uploads[k]
          /\ Sound(results[uploads[k]])
    BY <2>1 DEF BenchmarkInv, Uploaded, Recorded
  <2>3. \A j, k \in DOMAIN uploads : j < k => uploads[j] < uploads[k]
    BY <2>1 DEF BenchmarkInv, Uploaded
  <2> QED
    BY <2>2, <2>3 DEF UploadsAreComplete, Sound
<1> QED
  BY <1>1, BenchmarkInvHolds, PTL

\* The results file is a prefix of the results and ends with a complete one, however many
\* writes fail.
THEOREM ResultsFileIsAPrefix == Spec => []FileIsAPrefix
<1>1. BenchmarkInv => FileIsAPrefix
  BY DEF BenchmarkInv
<1> QED
  BY <1>1, BenchmarkInvHolds, PTL

\* A test is measured under its own CPU limit, and under none of an earlier test unless a
\* call failed during that one.
THEOREM LimitsAreOwn == Spec => []LimitIsOwn
<1>1. BenchmarkInv => LimitIsOwn
  BY DEF BenchmarkInv, LimitKept, LimitExcused, LimitIsOwn, InTest
<1> QED
  BY <1>1, BenchmarkInvHolds, PTL

\* A test that cleans up is measured in a namespace where whatever may be left of another
\* test has been deleted, unless a call of its own failed.
THEOREM NamespacesAreFresh == Spec => []NamespaceIsFresh
<1>1. BenchmarkInv => NamespaceIsFresh
  BY DEF BenchmarkInv, NamespaceKept, NamespaceIsFresh
<1> QED
  BY <1>1, BenchmarkInvHolds, PTL

-----------------------------------------------------------------------------
(* The run implements Driver.                                              *)

Outcomes == [test : 0..Length, complete : BOOLEAN, error : BOOLEAN]

\* One result more is one outcome more.
LEMMA OutcomesFollowResults ==
  ASSUME NEW rs \in Seq(Results), NEW r \in Results
  PROVE  /\ [k \in DOMAIN Append(rs, r) |-> outcomeOf(Append(rs, r)[k])] =
              Append([k \in DOMAIN rs |-> outcomeOf(rs[k])], outcomeOf(r))
         /\ Len([k \in DOMAIN rs |-> outcomeOf(rs[k])]) = Len(rs)
<1> DEFINE n == Len(rs)
           of == [k \in 1..n |-> outcomeOf(rs[k])]
           longer == [k \in 1..(n + 1) |-> outcomeOf(Append(rs, r)[k])]
<1>1. /\ n \in Nat /\ DOMAIN rs = 1..n
      /\ DOMAIN Append(rs, r) = 1..(n + 1)
      /\ \A k \in 1..n : Append(rs, r)[k] = rs[k]
      /\ Append(rs, r)[n + 1] = r
  BY AppendProperties, LenProperties
<1>2. \A k \in 1..n : outcomeOf(rs[k]) \in Outcomes
  <2>1. \A k \in 1..n : rs[k] \in Results
    BY <1>1, ElementOfSeq
  <2> QED
    BY <2>1 DEF Results, outcomeOf, Outcomes
<1>3. outcomeOf(r) \in Outcomes
  BY DEF Results, outcomeOf, Outcomes
<1>4. of \in Seq(Outcomes) /\ Len(of) = n
  <2>1. of \in [1..n -> Outcomes]
    BY <1>2
  <2> HIDE DEF of, n
  <2>2. of \in Seq(Outcomes)
    BY <1>1, <2>1, SeqDef
  <2> QED
    BY <1>1, <2>1, <2>2, LenProperties
<1> DEFINE last == outcomeOf(r)
           more == Append(of, last)
<1>5. more = longer
  <2>1. /\ DOMAIN more = 1..(n + 1)
        /\ \A k \in 1..n : more[k] = of[k]
        /\ more[n + 1] = last
    <3> HIDE DEF of, n, last
    <3> QED
      BY <1>3, <1>4, AppendProperties, LenProperties DEF last
  <2>2. more \in Seq(Outcomes)
    <3> HIDE DEF of, last
    <3> QED
      BY <1>3, <1>4, AppendProperties DEF last
  <2>3. \A k \in 1..(n + 1) : more[k] = longer[k]
    <3> HIDE DEF n, more
    <3>1. ASSUME NEW k \in 1..n PROVE more[k] = longer[k]
      BY <1>1, <2>1
    <3>2. more[n + 1] = longer[n + 1]
      BY <1>1, <2>1
    <3>3. 1..(n + 1) = 1..n \cup {n + 1}
      BY <1>1
    <3> QED
      BY <3>1, <3>2, <3>3
  <2>4. more = [k \in 1..(n + 1) |-> more[k]]
    <3> HIDE DEF more, n
    <3> QED
      BY <2>1, <2>2, LenProperties
  <2> QED
    BY <2>3, <2>4
<1> QED
  BY <1>1, <1>4, <1>5

\* The initial states are those of Driver.
LEMMA DriverStarts == Init => Run!Init
<1> SUFFICES ASSUME Init PROVE Run!Init
  OBVIOUS
<1>1. /\ thisResult = NewResult(0) /\ results = <<>>
      /\ uploads = <<>> /\ file = <<>> /\ junit = <<>> /\ pc = "next"
  BY DEF Init
<1>2. outcomes = <<>>
  BY <1>1 DEF outcomes
<1>3. phase = "between" /\ Len(file) = 0
  BY <1>1 DEF phase
<1>4. outcomeOf(thisResult) = Run!Outcome(0, TRUE, FALSE)
  BY <1>1 DEF outcomeOf, NewResult, Run!Outcome
<1> QED
  BY <1>1, <1>2, <1>3, <1>4 DEF Run!Init

\* What a test does to the cluster, until it ends, is invisible; so is the first half of its
\* teardown.
Unseen == UNCHANGED <<phase, outcomeOf(thisResult), outcomes, uploads, Len(file), junit>>

\* A test that is given up, or concluded, ends, as the same test.
LEMMA RunningIsRunning ==
  ASSUME TypeOK,
         CleanupBefore \/ ConfigureCluster \/ SetupStandingConfig \/ Prepare \/ Measure \/ Conclude
  PROVE  Run!End \/ Unseen
<1> DEFINE Ended ==
      \E completed, failed \in BOOLEAN :
        outcomeOf(thisResult)' = Run!Outcome(outcomeOf(thisResult).test, completed, failed)
<1>1. UNCHANGED <<outcomes, uploads, Len(file), junit>>
  BY DEF CleanupBefore, ConfigureCluster, SetupStandingConfig, Prepare, Measure, Conclude,
         run, reports, outcomes
<1>2. phase = "running" /\ thisResult \in Results
  BY DEF CleanupBefore, ConfigureCluster, SetupStandingConfig, Prepare, Measure, Conclude,
         phase, TypeOK
<1>3. \/ pc' \in {"configure", "setup", "prepare", "measure"} /\ thisResult' = thisResult
      \/ pc' = "teardown" /\ Ended
  <2>1. Abandon => pc' = "teardown" /\ Ended
    BY <1>2 DEF Abandon, Results, outcomeOf, Run!Outcome
  <2>2. ASSUME NEW e \in BOOLEAN, NEW d \in BOOLEAN, Finish(e, d)
        PROVE  pc' = "teardown" /\ Ended
    <3>1. outcomeOf(thisResult)' = Run!Outcome(thisResult.test, thisResult.complete, e)
      BY <1>2, <2>2 DEF Finish, Results, outcomeOf, Run!Outcome
    <3>2. thisResult.complete \in BOOLEAN /\ outcomeOf(thisResult).test = thisResult.test
      BY <1>2 DEF Results, outcomeOf
    <3> QED
      BY <2>2, <3>1, <3>2 DEF Finish
  <2> HIDE DEF Ended
  <2>3. CASE CleanupBefore
    BY <2>3 DEF CleanupBefore, test
  <2>4. CASE ConfigureCluster
    BY <2>1, <2>4 DEF ConfigureCluster, test
  <2>5. CASE SetupStandingConfig
    BY <2>1, <2>5 DEF SetupStandingConfig, test
  <2>6. CASE Prepare
    BY <2>1, <2>6 DEF Prepare, test
  <2>7. CASE Measure
    BY <2>7 DEF Measure
  <2>8. CASE Conclude
    <3>1. (cfg.iterations > 0) \in BOOLEAN
      OBVIOUS
    <3>2. PICK e \in BOOLEAN, d \in BOOLEAN : Finish(e, d)
      BY <2>8, <3>1 DEF Conclude
    <3> QED
      BY <2>2, <3>2
  <2> QED
    BY <2>3, <2>4, <2>5, <2>6, <2>7, <2>8
<1>4. CASE pc' \in {"configure", "setup", "prepare", "measure"} /\ thisResult' = thisResult
  <2>1. phase' = "running"
    BY <1>4 DEF phase
  <2> QED
    BY <1>1, <1>2, <1>4, <2>1 DEF Unseen
<1>5. CASE pc' = "teardown" /\ Ended
  <2>1. phase' = "ended"
    BY <1>5 DEF phase
  <2> QED
    BY <1>1, <1>2, <1>5, <2>1 DEF Run!End
<1> QED
  BY <1>3, <1>4, <1>5

LEMMA TestBeginsOnce == BenchmarkInv /\ NextTest => Run!Begin
<1> SUFFICES ASSUME BenchmarkInv, NextTest PROVE Run!Begin
  OBVIOUS
<1>1. phase = "between" /\ phase' = "running"
  BY DEF NextTest, phase
<1>2. outcomeOf(thisResult).test = current
  BY DEF BenchmarkInv, Recorded, outcomeOf
<1>3. outcomeOf(thisResult)' = Run!Outcome(current + 1, TRUE, FALSE)
  BY DEF NextTest, NewResult, outcomeOf, Run!Outcome
<1>4. UNCHANGED <<outcomes, uploads, Len(file), junit>>
  BY DEF NextTest, reports, outcomes
<1> QED
  BY <1>1, <1>2, <1>3, <1>4 DEF NextTest, Run!Begin

LEMMA TeardownIsTearDown == ResetLimit \/ CleanupAfter => Run!TearDown \/ Unseen
<1> SUFFICES ASSUME ResetLimit \/ CleanupAfter PROVE Run!TearDown \/ Unseen
  OBVIOUS
<1>1. UNCHANGED <<outcomeOf(thisResult), outcomes, uploads, Len(file), junit>>
  BY DEF ResetLimit, CleanupAfter, run, test, reports, outcomes, outcomeOf
<1>2. CASE ResetLimit
  <2>1. phase = "ended" /\ phase' = "ended"
    BY <1>2 DEF ResetLimit, phase
  <2> QED
    BY <1>1, <2>1 DEF Unseen
<1>3. CASE CleanupAfter
  <2>1. phase = "ended" /\ phase' = "torn down"
    BY <1>3 DEF CleanupAfter, phase
  <2> QED
    BY <1>1, <2>1 DEF Run!TearDown
<1> QED
  BY <1>2, <1>3

LEMMA RecordIsRecord == TypeOK /\ Record => Run!Record
<1> SUFFICES ASSUME TypeOK, Record PROVE Run!Record
  OBVIOUS
<1>1. results \in Seq(Results) /\ thisResult \in Results
  BY DEF TypeOK
<1>2. outcomes' = Append(outcomes, outcomeOf(thisResult))
  <2>1. results' = Append(results, thisResult)
    BY DEF Record
  <2>2. outcomes' = [k \in DOMAIN results' |-> outcomeOf(results'[k])]
    BY DEF outcomes, outcomeOf
  <2> QED
    BY <1>1, <2>1, <2>2, OutcomesFollowResults DEF outcomes
<1>3. /\ phase = "torn down"
      /\ phase' = IF outcomeOf(thisResult).complete THEN "recorded" ELSE "between"
  BY DEF Record, phase, outcomeOf
<1>4. UNCHANGED <<outcomeOf(thisResult), uploads, Len(file), junit>>
  BY DEF Record, run, test, outcomeOf
<1> QED
  BY <1>2, <1>3, <1>4 DEF Run!Record

LEMMA UploadIsPublish == BenchmarkInv /\ Upload => Run!Publish
<1> SUFFICES ASSUME BenchmarkInv, Upload PROVE Run!Publish
  OBVIOUS
<1>1. phase = "recorded" /\ phase' = "published"
  BY DEF Upload, phase
<1>2. UNCHANGED <<outcomeOf(thisResult), outcomes, Len(file), junit>>
  BY DEF Upload, run, test, outcomes, outcomeOf
<1>3. outcomeOf(thisResult).test = current
  BY DEF BenchmarkInv, Recorded, outcomeOf
<1> QED
  BY <1>1, <1>2, <1>3 DEF Upload, Run!Publish

LEMMA WriteIsSave == TypeOK /\ WriteResultToFile => Run!Save
<1> SUFFICES ASSUME TypeOK, WriteResultToFile PROVE Run!Save
  OBVIOUS
<1>1. phase = "published" /\ phase' = "between"
  BY DEF WriteResultToFile, phase
<1>2. UNCHANGED <<outcomeOf(thisResult), outcomes, uploads, junit>>
  BY DEF WriteResultToFile, run, test, outcomes, outcomeOf
<1>3. results \in Seq(Results) /\ thisResult \in Results
  BY DEF TypeOK
<1>4. Len(outcomes) = Len(results)
  BY <1>3, OutcomesFollowResults DEF outcomes
<1>5. file' \in {results, file, <<>>}
  BY DEF WriteResultToFile
<1>6. Len(file') \in {Len(outcomes), Len(file), 0}
  BY <1>4, <1>5, EmptySeq
<1> QED
  BY <1>1, <1>2, <1>6 DEF Run!Save

\* The report, if there is one, is about all tests and calls each one with an error a failure.
LEMMA ReportIsReport == BenchmarkInv /\ WriteJUnitReport => Run!Report
<1> SUFFICES ASSUME BenchmarkInv, WriteJUnitReport PROVE Run!Report
  OBVIOUS
<1>1. phase = "between" /\ phase' = "reported"
  BY DEF WriteJUnitReport, phase
<1>2. UNCHANGED <<outcomeOf(thisResult), outcomes, uploads, Len(file)>>
  BY DEF WriteJUnitReport, run, test, outcomes, outcomeOf
<1>3. results \in Seq(Results) /\ thisResult \in Results
  BY DEF BenchmarkInv, TypeOK
<1>4. Len(outcomes) = Len(results)
  BY <1>3, OutcomesFollowResults DEF outcomes
<1>5. outcomeOf(thisResult).test = Length
  BY DEF BenchmarkInv, Recorded, outcomeOf, WriteJUnitReport
<1> DEFINE n == Len(results)
           failed(k) == IsTestFailed(results[k], tests[k])
<1>6. n \in Nat /\ DOMAIN results = 1..n
  BY <1>3, LenProperties
<1>7. junit' = [k \in 1..n |-> failed(k)] \/ UNCHANGED junit
  BY DEF WriteJUnitReport
<1>8. \A k \in 1..n : failed(k) \in BOOLEAN
  BY DEF IsTestFailed
<1>9. \A k \in 1..n : outcomes[k].error => failed(k)
  BY <1>6 DEF outcomes, outcomeOf, IsTestFailed
<1>10. \/ /\ junit' \in [1..n -> BOOLEAN]
          /\ \A k \in 1..n : outcomes[k].error => junit'[k]
       \/ UNCHANGED junit
  <2> HIDE DEF n, failed
  <2> QED
    BY <1>7, <1>8, <1>9
<1> QED
  BY <1>1, <1>2, <1>4, <1>5, <1>10 DEF Run!Report

\* Initial states map to initial states, and every step of the driver is a step of Driver or
\* invisible there, whatever calls and writes fail and whether a report is asked for or not.
THEOREM BenchmarkImplementsDriver ==
  Spec => Run!Init /\ [][Run!Next]_(Run!driverVars)
<1>1. ASSUME BenchmarkInv, [Next]_vars
      PROVE  [Run!Next]_(Run!driverVars)
  <2>1. Unseen => [Run!Next]_(Run!driverVars)
    BY DEF Unseen, Run!driverVars
  <2>2. UNCHANGED vars => Unseen
    BY DEF vars, run, test, reports, Unseen, phase, outcomes, outcomeOf
  <2>3. TypeOK
    BY <1>1 DEF BenchmarkInv
  <2>4. CASE Step
    <3>1. NextTest => Run!Next
      BY <1>1, TestBeginsOnce DEF Run!Next
    <3>2. CleanupBefore \/ ConfigureCluster \/ SetupStandingConfig \/ Prepare \/ Measure
            \/ Conclude => Run!Next \/ Unseen
      BY <2>3, RunningIsRunning DEF Run!Next
    <3>3. ResetLimit \/ CleanupAfter => Run!Next \/ Unseen
      BY TeardownIsTearDown DEF Run!Next
    <3>4. Record \/ Upload \/ WriteResultToFile \/ WriteJUnitReport => Run!Next
      BY <1>1, <2>3, RecordIsRecord, UploadIsPublish, WriteIsSave, ReportIsReport DEF Run!Next
    <3> QED
      BY <2>1, <2>4, <3>1, <3>2, <3>3, <3>4 DEF Step
  <2> QED
    BY <1>1, <2>1, <2>2, <2>4 DEF Next, Done
<1> QED
  BY <1>1, DriverStarts, BenchmarkInvHolds, PTL DEF Spec
=============================================================================
