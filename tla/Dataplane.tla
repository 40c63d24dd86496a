----------------------------- MODULE Dataplane -----------------------------
(***************************************************************************)
(* ConfigureCluster (pkg/cluster/cluster.go) and the functions of          *)
(* pkg/cluster/cluster_internal.go that it calls: before each test the     *)
(* encapsulation, the dataplane and the DNS policy mode of the cluster are *)
(* changed to what the test config asks for, one API call after the other, *)
(* and last the CPU limit of calico-node, which the teardown in            *)
(* cmd/benchmark.go removes again.  A call that fails, carried out or not, *)
(* ends ConfigureCluster where it is, and the next test finds the cluster  *)
(* as it was left.                                                         *)
(***************************************************************************)
EXTENDS Naturals

CONSTANTS
  Requests,  (* what test configs ask for: encap, dataplane, DNS mode and  *)
             (* CPU limit                                                  *)
  Limits,    (* CPU limits that can be set                                 *)
  MaxTests,  (* bound: calls of ConfigureCluster                           *)
  MaxFaults  (* bound: calls and waits that fail                           *)

Dataplanes == {"iptables", "nftables", "bpf"}
Encaps == {"none", "vxlan", "ipip"}
DNSModes == {"Inline", "NoDelay", "DelayDeniedPacket", "DelayDNSResponse"}
Unset == "unset"
Managed == "managed"
NoLimit == "0"    \* asks to remove the limit; in the Installation: there is none

AllRequests ==
  [encap : Encaps \cup {Unset}, dataplane : Dataplanes \cup {Unset},
   dnsMode : DNSModes \cup {Unset}, cpuLimit : Limits \cup {NoLimit, Unset}]

ASSUME DataplaneAssumption ==
  /\ Requests \subseteq AllRequests
  /\ Limits \cap {NoLimit, Unset} = {}
  /\ {MaxTests, MaxFaults} \subseteq Nat

VARIABLES
  pc,           (* where ConfigureCluster is; "ready" and "failed": it has returned; *)
                (* "reset wait", "idle": where the teardown is, and after it *)
  request,      (* the test config                                         *)
  tests,        (* calls of ConfigureCluster so far                        *)
  installation, (* encap, dataplane and CPU limit in the Installation      *)
  settled,      (* Available has been read after the Installation changed  *)
  proxyOn,      (* kube-proxy's DaemonSet selects the nodes                *)
  proxyMode,    (* the mode in kube-proxy's ConfigMap                      *)
  proxyRuns,    (* the mode its pods were last started with                *)
  felix,        (* the DNS policy mode of Felix, per dataplane             *)
  residue,      (* the dataplanes whose rules may be on the nodes          *)
  ippool,       (* the encap of the IPPool, which Calico before v3.28 needs *)
                (* patched; Managed: the operator follows the Installation *)
  faults        (* calls and waits that failed so far                      *)

proxy == <<proxyOn, proxyMode, proxyRuns>>
vars == <<pc, request, tests, installation, settled, proxy, felix, residue, ippool, faults>>

Init ==
  /\ pc = "idle"
  /\ request = [encap |-> Unset, dataplane |-> Unset, dnsMode |-> Unset, cpuLimit |-> Unset]
  /\ tests = 0
  /\ installation \in [encap : {"vxlan"}, dataplane : Dataplanes,
                     cpuLimit : Limits \cup {NoLimit}]
  /\ settled = TRUE
  /\ proxyOn = (installation.dataplane # "bpf")
  /\ proxyMode = IF installation.dataplane = "nftables" THEN "nftables" ELSE "iptables"
  /\ proxyRuns = proxyMode
  /\ felix = [d \in Dataplanes |-> "NoDelay"]
  /\ residue = {installation.dataplane}
  /\ ippool \in {Managed, installation.encap}
  /\ faults = 0

Goto(label) == pc' = label /\ UNCHANGED <<request, tests>>

Smoothly == UNCHANGED faults

Fault == faults < MaxFaults /\ faults' = faults + 1

Fail == Goto("failed") /\ Fault

-----------------------------------------------------------------------------
\* The tests between two calls do not change what is modelled here.
NextTest ==
  /\ pc = "idle"
  /\ tests < MaxTests
  /\ tests' = tests + 1
  /\ request' \in Requests
  /\ pc' = "encap"
  /\ UNCHANGED <<installation, settled, proxy, felix, residue, ippool, faults>>

AfterEncap == IF ippool = Managed THEN "encap wait" ELSE "ippool"

\* Mutant of UpdateEncap: it returns at once when no encapsulation is asked for.
UpdateEncapIfAsked ==
  /\ pc = "encap"
  /\ UNCHANGED <<proxy, felix, residue, ippool>>
  /\ \/ /\ request.encap = Unset
        /\ UNCHANGED <<installation, settled>>
        /\ Goto("dataplane") /\ Smoothly
     \/ /\ request.encap # Unset
        /\ installation' = [installation EXCEPT !.encap = request.encap]
        /\ settled' = FALSE
        /\ Goto(AfterEncap) /\ Smoothly

\* updateEncap up to its wait: patchInstallation, if an encapsulation is asked for.
UpdateEncap ==
  /\ pc = "encap"
  /\ UNCHANGED <<proxy, felix, residue, ippool>>
  /\ \/ /\ request.encap = Unset
        /\ UNCHANGED <<installation, settled>>
        /\ Goto(AfterEncap) /\ Smoothly
     \/ /\ request.encap # Unset
        /\ installation' = [installation EXCEPT !.encap = request.encap]
        /\ settled' = FALSE
        /\ (Goto(AfterEncap) /\ Smoothly) \/ Fail
     \/ /\ request.encap # Unset
        /\ Fail
        /\ UNCHANGED <<installation, settled>>

\* patchIPPool, for Calico before v3.28.  Where no encapsulation is asked for the patch is
\* empty, and what the API server makes of that is open.
PatchIPPool ==
  /\ pc = "ippool"
  /\ UNCHANGED <<installation, settled, proxy, felix, residue>>
  /\ \/ /\ ippool' = IF request.encap = Unset THEN ippool ELSE request.encap
        /\ (Goto("encap wait") /\ Smoothly) \/ Fail
     \/ UNCHANGED ippool /\ Fail
     \/ request.encap = Unset /\ UNCHANGED ippool /\ Goto("failed") /\ Smoothly

\* waitForTigeraStatus: Available is read in time, or not.
WaitForTigeraStatus(label, then) ==
  /\ pc = label
  /\ UNCHANGED <<installation, proxy, felix, residue, ippool>>
  /\ \/ settled' = TRUE /\ Goto(then) /\ Smoothly
     \/ UNCHANGED settled /\ Fail

\* Mutants of ChooseDataplane: every dataplane returns early before the mode of kube-proxy
\* is looked at, and enableBPF leaves kube-proxy enabled until later.
ReturnEarly ==
  /\ pc = "dataplane"
  /\ Goto(CASE request.dataplane \in {Unset, installation.dataplane} -> "felix"
            [] request.dataplane = "bpf" -> "proxy off"
            [] OTHER -> "proxy mode")
  /\ Smoothly
  /\ UNCHANGED <<installation, settled, proxy, felix, residue, ippool>>

InstallBPFFirst ==
  /\ pc = "dataplane"
  /\ Goto(CASE request.dataplane \in {Unset, installation.dataplane} -> "felix"
            [] request.dataplane = "bpf" -> "install"
            [] OTHER -> "proxy mode")
  /\ Smoothly
  /\ UNCHANGED <<installation, settled, proxy, felix, residue, ippool>>

\* The dispatch of ConfigureCluster, with the Get and the early return of enableBPF.
ChooseDataplane ==
  /\ pc = "dataplane"
  /\ UNCHANGED <<installation, settled, proxy, felix, residue, ippool>>
  /\ \/ /\ Goto(CASE request.dataplane = Unset -> "felix"
                 [] request.dataplane = "bpf" ->
                      IF installation.dataplane = "bpf" THEN "felix" ELSE "proxy off"
                 [] OTHER -> "proxy mode")
        /\ Smoothly
     \/ request.dataplane = "bpf" /\ Fail

\* enableBPF: the ConfigMap with the API server's address, then kube-proxy is disabled.
DisableKubeProxy ==
  /\ pc = "proxy off"
  /\ UNCHANGED <<installation, settled, proxyMode, proxyRuns, felix, residue, ippool>>
  /\ \/ proxyOn' = FALSE /\ Goto("install") /\ Smoothly
     \/ proxyOn' \in {proxyOn, FALSE} /\ Fail

\* setKubeProxyMode for enableIptables and enableNftables: the ConfigMap, if it names
\* another mode ...
SetKubeProxyMode ==
  /\ pc = "proxy mode"
  /\ UNCHANGED <<installation, settled, proxyOn, proxyRuns, felix, residue, ippool>>
  /\ \/ /\ proxyMode = request.dataplane
        /\ UNCHANGED proxyMode
        /\ Goto("compare") /\ Smoothly
     \/ /\ proxyMode # request.dataplane
        /\ proxyMode' = request.dataplane
        /\ (Goto("proxy restart") /\ Smoothly) \/ Fail
     \/ UNCHANGED proxyMode /\ Fail

\* ... and only then the pods are deleted, which the DaemonSet starts anew.
RestartKubeProxy ==
  /\ pc = "proxy restart"
  /\ UNCHANGED <<installation, settled, proxyOn, proxyMode, felix, residue, ippool>>
  /\ \/ proxyRuns' = proxyMode /\ Goto("compare") /\ Smoothly
     \/ UNCHANGED proxyRuns /\ Fail

\* The early return of enableIptables and enableNftables.
AlreadyEnabled ==
  /\ pc = "compare"
  /\ Goto(IF installation.dataplane = request.dataplane THEN "felix" ELSE "install")
  /\ Smoothly
  /\ UNCHANGED <<installation, settled, proxy, felix, residue, ippool>>

\* The patch of the Installation.  enableNftables patches a second field afterwards: it is
\* one more call that may fail when the dataplane is already changed.
PatchInstallation ==
  /\ pc = "install"
  /\ UNCHANGED <<proxy, felix, ippool>>
  /\ \/ /\ installation' = [installation EXCEPT !.dataplane = request.dataplane]
        /\ settled' = FALSE
        /\ residue' = residue \cup {request.dataplane}
        /\ \/ Goto(IF request.dataplane = "bpf" THEN "wait" ELSE "proxy on") /\ Smoothly
           \/ Fail
     \/ Fail /\ UNCHANGED <<installation, settled, residue, ippool>>

\* Mutant of EnableKubeProxy: it does nothing.
LeaveKubeProxy ==
  /\ pc = "proxy on"
  /\ Goto("wait") /\ Smoothly
  /\ UNCHANGED <<installation, settled, proxy, felix, residue, ippool>>

\* kube-proxy's node selector is removed, which starts pods with the current ConfigMap.
EnableKubeProxy ==
  /\ pc = "proxy on"
  /\ UNCHANGED <<installation, settled, proxyMode, felix, residue, ippool>>
  /\ \/ /\ proxyOn' = TRUE
        /\ proxyRuns' = IF proxyOn THEN proxyRuns ELSE proxyMode
        /\ (Goto("wait") /\ Smoothly) \/ Fail
     \/ UNCHANGED <<proxyOn, proxyRuns>> /\ Fail

\* wipeIPTables and wipeNFTables flush the other kind of rules; a failure is only logged.
Wipe ==
  /\ pc = "wipe"
  /\ \/ /\ residue' = CASE request.dataplane = "nftables" -> residue \ {"iptables"}
                        [] request.dataplane = "iptables" -> residue \ {"nftables"}
                        [] OTHER -> residue
        /\ Smoothly
     \/ request.dataplane # "bpf" /\ UNCHANGED residue /\ Fault
  /\ Goto("felix")
  /\ UNCHANGED <<installation, settled, proxy, felix, ippool>>

Supported(d) ==
  CASE d = "iptables" -> DNSModes
    [] d = "bpf" -> {"Inline", "NoDelay"}
    [] d = "nftables" -> DNSModes \ {"Inline"}

\* patchFelixConfig, for a dnsperf test that names a mode.
PatchFelixConfig ==
  /\ pc = "felix"
  /\ UNCHANGED <<installation, settled, proxy, residue, ippool>>
  /\ \/ /\ request.dnsMode = Unset
        /\ UNCHANGED felix
        /\ Goto("limit") /\ Smoothly
     \/ /\ request.dnsMode \in Supported(installation.dataplane)
        /\ felix' = [felix EXCEPT ![installation.dataplane] = request.dnsMode]
        /\ \/ Goto(IF request.dnsMode = "Inline" THEN "felix wait" ELSE "limit") /\ Smoothly
           \/ Fail
     \/ /\ request.dnsMode \notin Supported(installation.dataplane) \cup {Unset}
        /\ UNCHANGED felix
        /\ Goto("failed") /\ Smoothly
     \/ /\ request.dnsMode # Unset
        /\ UNCHANGED felix
        /\ Fail

\* After a change to Inline the logs of calico-node tell whether the kernel supports it.
CheckInline ==
  /\ pc = "felix log"
  /\ Goto("limit") \/ Goto("failed")
  /\ Smoothly
  /\ UNCHANGED <<installation, settled, proxy, felix, residue, ippool>>

\* SetCalicoNodeCPULimit up to its wait, with the limit of the config if it names one: the
\* Installation is updated unless it says so already, which skips the wait as well.
SetCalicoNodeCPULimit ==
  /\ pc = "limit"
  /\ UNCHANGED <<proxy, felix, residue, ippool>>
  /\ \/ /\ request.cpuLimit \in {Unset, installation.cpuLimit}
        /\ UNCHANGED <<installation, settled>>
        /\ Goto("ready") /\ Smoothly
     \/ /\ request.cpuLimit \notin {Unset, installation.cpuLimit}
        /\ installation' = [installation EXCEPT !.cpuLimit = request.cpuLimit]
        /\ settled' = FALSE
        /\ (Goto("limit wait") /\ Smoothly) \/ Fail
     \/ /\ request.cpuLimit # Unset
        /\ Fail
        /\ UNCHANGED <<installation, settled>>

\* The test is over, if it has run at all: the deferred teardown removes the limit, however
\* ConfigureCluster has ended; its errors are logged and the next test follows.
ResetCPULimit ==
  /\ pc \in {"ready", "failed"}
  /\ UNCHANGED <<proxy, felix, residue, ippool>>
  /\ \/ /\ request.cpuLimit = Unset \/ installation.cpuLimit = NoLimit
        /\ UNCHANGED <<installation, settled>>
        /\ Goto("idle") /\ Smoothly
     \/ /\ request.cpuLimit # Unset /\ installation.cpuLimit # NoLimit
        /\ installation' = [installation EXCEPT !.cpuLimit = NoLimit]
        /\ settled' = FALSE
        /\ (Goto("reset wait") /\ Smoothly) \/ (Goto("idle") /\ Fault)
     \/ /\ request.cpuLimit # Unset
        /\ Goto("idle") /\ Fault
        /\ UNCHANGED <<installation, settled>>

\* Its wait, which may meet the deadline of the teardown.
AwaitReset ==
  /\ pc = "reset wait"
  /\ Goto("idle")
  /\ UNCHANGED <<installation, proxy, felix, residue, ippool>>
  /\ \/ settled' = TRUE /\ Smoothly
     \/ UNCHANGED settled /\ Fault

Finished ==
  /\ pc = "idle"
  /\ tests = MaxTests
  /\ UNCHANGED vars

Next ==
  \/ NextTest
  \/ UpdateEncap
  \/ PatchIPPool
  \/ WaitForTigeraStatus("encap wait", "dataplane")
  \/ ChooseDataplane
  \/ DisableKubeProxy
  \/ SetKubeProxyMode
  \/ RestartKubeProxy
  \/ AlreadyEnabled
  \/ PatchInstallation
  \/ EnableKubeProxy
  \/ WaitForTigeraStatus("wait", "wipe")
  \/ Wipe
  \/ PatchFelixConfig
  \/ WaitForTigeraStatus("felix wait", "felix log")
  \/ CheckInline
  \/ SetCalicoNodeCPULimit
  \/ WaitForTigeraStatus("limit wait", "ready")
  \/ ResetCPULimit
  \/ AwaitReset
  \/ Finished

Spec == Init /\ [][Next]_vars

-----------------------------------------------------------------------------
TypeOK ==
  /\ pc \in {"encap", "ippool", "encap wait", "dataplane", "proxy off", "proxy mode",
             "proxy restart", "compare", "install", "proxy on", "wait", "wipe", "felix", "felix wait",
             "felix log", "limit", "limit wait", "ready", "failed", "reset wait", "idle"}
  /\ request \in AllRequests
  /\ tests \in 0..MaxTests /\ faults \in 0..MaxFaults
  /\ installation \in [encap : Encaps, dataplane : Dataplanes, cpuLimit : Limits \cup {NoLimit}]
  /\ settled \in BOOLEAN /\ proxyOn \in BOOLEAN
  /\ proxyMode \in Dataplanes /\ proxyRuns \in Dataplanes
  /\ felix \in [Dataplanes -> DNSModes]
  /\ residue \subseteq Dataplanes
  /\ ippool \in Encaps \cup {Managed}

\* When ConfigureCluster succeeds the cluster has what the config asks for, wherever the
\* calls before it have stopped: the early returns skip nothing of the Installation, of the
\* mode of kube-proxy or of Felix.
ReadyAsRequested ==
  pc = "ready" =>
    /\ request.encap \in {Unset, installation.encap}
    /\ ippool \in {Managed, request.encap} \/ request.encap = Unset
    /\ request.dataplane \in {Unset, installation.dataplane}
    /\ request.dataplane \in {"iptables", "nftables"} => proxyMode = request.dataplane
    /\ request.dnsMode \in {Unset, felix[installation.dataplane]}
    /\ request.cpuLimit \in {Unset, installation.cpuLimit}

\* kube-proxy is never selected while Calico's BPF dataplane is installed, at no step of any
\* change and after no failure: it is disabled before and enabled after.
NeverBPFWithKubeProxy == installation.dataplane = "bpf" => ~proxyOn

\* No test runs before the operator has reported Available after the last change of the
\* Installation, even when that change was made for an earlier test whose wait failed, and
\* the early return for a CPU limit that is set already skips the wait of this one.
SettledBeforeTheTest == pc = "ready" => settled

\* As long as nothing failed, switching back and forth leaves exactly one service proxy,
\* its pods in the configured mode, and no rules of the other of iptables and nftables.
CoherentWithoutFaults ==
  pc = "ready" /\ faults = 0 =>
    /\ proxyOn <=> installation.dataplane # "bpf"
    /\ proxyOn => proxyRuns = proxyMode
    /\ ippool \in {Managed, installation.encap}
    /\ installation.dataplane = "nftables" => "iptables" \notin residue
    /\ installation.dataplane = "iptables" => "nftables" \notin residue

\* The steps of ConfigureCluster after which a part of the cluster is as requested.
PoolDone == pc \notin {"encap", "ippool", "failed", "reset wait", "idle"}

EncapDone == pc \notin {"encap", "failed", "reset wait", "idle"}

FelixDone == pc \in {"felix wait", "felix log", "limit", "limit wait", "ready"}

DataplaneDone == FelixDone \/ pc \in {"proxy on", "wait", "wipe", "felix"}

ModeDone == DataplaneDone \/ pc \in {"proxy restart", "compare", "install"}

WaitPending == pc \in {"encap", "ippool", "encap wait", "proxy on", "wait",
                       "limit wait", "failed", "reset wait", "idle"}

\* What holds at each step on the way to the four properties above.
Progress ==
  /\ EncapDone => request.encap \in {Unset, installation.encap}
  /\ PoolDone => ippool \in {Managed, request.encap} \/ request.encap = Unset
  /\ DataplaneDone => request.dataplane \in {Unset, installation.dataplane}
  /\ ModeDone /\ request.dataplane \in {"iptables", "nftables"} =>
       proxyMode = request.dataplane
  /\ FelixDone => request.dnsMode \in {Unset, felix[installation.dataplane]}
  /\ pc \in {"limit wait", "ready"} => request.cpuLimit \in {Unset, installation.cpuLimit}
  /\ WaitPending \/ settled
  /\ pc = "proxy off" => request.dataplane = "bpf"
  /\ pc \in {"proxy mode", "proxy restart", "compare", "proxy on"} =>
       request.dataplane \in {"iptables", "nftables"}
  /\ pc \in {"install", "wait", "wipe"} => request.dataplane # Unset
  /\ pc = "install" /\ request.dataplane = "bpf" => ~proxyOn

\* What holds at each step while nothing has failed.
Coherent ==
  /\ pc # "proxy on" => (proxyOn => installation.dataplane # "bpf")
  /\ pc # "proxy on" /\ ~(pc = "install" /\ request.dataplane = "bpf") =>
       (installation.dataplane # "bpf" => proxyOn)
  /\ proxyOn /\ pc # "proxy restart" => proxyRuns = proxyMode
  /\ pc # "ippool" \/ request.encap = Unset => ippool \in {Managed, installation.encap}
  /\ pc \in {"proxy on", "wait", "wipe"} \/
       ~("iptables" \in residue /\ installation.dataplane = "nftables")
  /\ pc \in {"proxy on", "wait", "wipe"} \/
       ~("nftables" \in residue /\ installation.dataplane = "iptables")

\* The inductive invariant of this module.
DataplaneInv ==
  /\ TypeOK
  /\ NeverBPFWithKubeProxy
  /\ Progress
  /\ faults = 0 => Coherent

=============================================================================
