-------------------------- MODULE DataplaneProofs --------------------------
(***************************************************************************)
(* What ConfigureCluster guarantees for every set of test configs, every   *)
(* number of tests and every number of calls that fail.                    *)
(***************************************************************************)
EXTENDS Dataplane, TLAPS

USE DataplaneAssumption

\* The count of failures keeps its bound, and it is zero only while nothing has failed.
LEMMA FailuresAreCounted ==
  ASSUME TypeOK
  PROVE  /\ Smoothly => faults' \in 0..MaxFaults /\ (faults' = 0 => faults = 0)
         /\ Fault => faults' \in 0..MaxFaults /\ faults' # 0
<1>1. MaxFaults \in Nat /\ faults \in 0..MaxFaults
  BY DEF TypeOK
<1>2. Smoothly => faults' = faults
  BY DEF Smoothly
<1>3. Fault => faults < MaxFaults /\ faults' = faults + 1
  BY DEF Fault
<1> QED
  BY <1>1, <1>2, <1>3

-----------------------------------------------------------------------------
(* The invariant is inductive: one lemma per action.                       *)

\* A cluster whose dataplane and kube-proxy agree satisfies the invariant.
LEMMA InitEstablishesDataplaneInv == Init => DataplaneInv
<1> SUFFICES ASSUME Init PROVE DataplaneInv
  OBVIOUS
<1>1. installation \in [encap : {"vxlan"}, dataplane : Dataplanes,
                        cpuLimit : Limits \cup {NoLimit}]
  BY DEF Init
<1>2. proxyOn \in BOOLEAN /\ (proxyOn <=> installation.dataplane # "bpf")
  BY DEF Init
<1>3. TypeOK
  BY <1>1, <1>2 DEF Init, TypeOK, AllRequests, Dataplanes, Encaps, DNSModes, Unset
<1>4. NeverBPFWithKubeProxy
  BY <1>2 DEF NeverBPFWithKubeProxy
<1>5. Progress
  BY <1>1 DEF Init, Progress, WaitPending, EncapDone, PoolDone, DataplaneDone, FelixDone,
                ModeDone, Unset
<1>6. Coherent
  BY <1>1, <1>2 DEF Init, Coherent, Dataplanes
<1> QED
  BY <1>3, <1>4, <1>5, <1>6 DEF DataplaneInv

\* The next test takes over whatever ConfigureCluster has left.
LEMMA NextTestPreserves == DataplaneInv /\ NextTest => DataplaneInv'
<1> SUFFICES ASSUME DataplaneInv, NextTest
             PROVE  DataplaneInv'
  OBVIOUS
<1>1. TypeOK'
  <2>1. tests' \in 0..MaxTests
    <3>1. MaxTests \in Nat /\ tests \in 0..MaxTests
      BY DEF DataplaneInv, TypeOK
    <3> QED
      BY <3>1 DEF NextTest
  <2>2. request' \in AllRequests
    BY DEF NextTest
  <2> QED
    BY <2>1, <2>2 DEF NextTest, proxy, DataplaneInv, TypeOK
<1>2. NeverBPFWithKubeProxy'
  BY DEF NextTest, proxy, DataplaneInv, TypeOK,
         NeverBPFWithKubeProxy, Progress
<1>3. Progress'
  BY DEF NextTest, proxy, DataplaneInv, TypeOK,
         Progress, AllRequests, Dataplanes, Unset,
         EncapDone, DataplaneDone, FelixDone, PoolDone, ModeDone, WaitPending,
         NoLimit
<1>4. ASSUME faults' = 0 PROVE Coherent'
  BY <1>4 DEF NextTest, proxy, DataplaneInv, TypeOK,
         NeverBPFWithKubeProxy, Progress, Coherent, AllRequests, Dataplanes, Unset
<1> QED
  BY <1>1, <1>2, <1>3, <1>4 DEF DataplaneInv

\* A change of the encapsulation leaves the wait to come.
LEMMA UpdateEncapPreserves == DataplaneInv /\ UpdateEncap => DataplaneInv'
<1> SUFFICES ASSUME DataplaneInv, UpdateEncap
             PROVE  DataplaneInv'
  OBVIOUS
<1>0. /\ Smoothly => faults' \in 0..MaxFaults /\ (faults' = 0 => faults = 0)
      /\ Fault => faults' \in 0..MaxFaults /\ faults' # 0
  BY FailuresAreCounted DEF DataplaneInv
<1>1. TypeOK'
  BY <1>0 DEF UpdateEncap, AfterEncap, Goto, Fail, proxy, DataplaneInv, TypeOK,
         AllRequests, Dataplanes, Encaps, DNSModes, Unset
<1>2. NeverBPFWithKubeProxy'
  BY DEF UpdateEncap, AfterEncap, Goto, Fail, proxy, DataplaneInv, TypeOK,
         NeverBPFWithKubeProxy, Progress
<1>3. Progress'
  BY DEF UpdateEncap, AfterEncap, Goto, Fail, proxy, DataplaneInv, TypeOK,
         Progress, AllRequests, Dataplanes, Unset,
         EncapDone, DataplaneDone, FelixDone, PoolDone, ModeDone, WaitPending,
         NoLimit
<1>4. ASSUME faults' = 0 PROVE Coherent'
  BY <1>4, <1>0 DEF UpdateEncap, AfterEncap, Goto, Fail, proxy, DataplaneInv, TypeOK,
         NeverBPFWithKubeProxy, Progress, Coherent, AllRequests, Dataplanes, Unset
<1> QED
  BY <1>1, <1>2, <1>3, <1>4 DEF DataplaneInv

\* The IPPool follows the Installation.
LEMMA PatchIPPoolPreserves == DataplaneInv /\ PatchIPPool => DataplaneInv'
<1> SUFFICES ASSUME DataplaneInv, PatchIPPool
             PROVE  DataplaneInv'
  OBVIOUS
<1>0. /\ Smoothly => faults' \in 0..MaxFaults /\ (faults' = 0 => faults = 0)
      /\ Fault => faults' \in 0..MaxFaults /\ faults' # 0
  BY FailuresAreCounted DEF DataplaneInv
<1>1. TypeOK'
  <2>1. pc' \in {"encap wait", "failed"} /\ faults' \in 0..MaxFaults
    BY <1>0 DEF PatchIPPool, Goto, Fail
  <2>2. ippool' \in Encaps \cup {Managed}
    BY DEF PatchIPPool, DataplaneInv, TypeOK, AllRequests
  <2>3. UNCHANGED <<request, tests, installation, settled, proxyOn, proxyMode, proxyRuns,
                    felix, residue>>
    BY DEF PatchIPPool, proxy, Goto, Fail
  <2> QED
    BY <2>1, <2>2, <2>3 DEF DataplaneInv, TypeOK
<1>2. NeverBPFWithKubeProxy'
  BY DEF PatchIPPool, Goto, Fail, proxy, DataplaneInv, TypeOK,
         NeverBPFWithKubeProxy, Progress
<1>3. Progress'
  BY DEF PatchIPPool, Goto, Fail, proxy, DataplaneInv, TypeOK,
         Progress, AllRequests, Dataplanes, Unset,
         EncapDone, DataplaneDone, FelixDone, PoolDone, ModeDone, WaitPending,
         NoLimit
<1>4. ASSUME faults' = 0 PROVE Coherent'
  <2>1. faults = 0 /\ Coherent
    BY <1>4, <1>0 DEF PatchIPPool, Fail, DataplaneInv
  <2>2. request.encap \in {Unset, installation.encap}
    BY DEF PatchIPPool, DataplaneInv, Progress, EncapDone
  <2>3. UNCHANGED <<request, installation, proxyOn, proxyMode, proxyRuns, residue>>
    BY DEF PatchIPPool, Goto, Fail, proxy
  <2>4. ippool' \in {Managed, installation'.encap}
    BY <1>4, <1>0, <2>1, <2>2, <2>3 DEF PatchIPPool, Goto, Fail, Coherent
  <2>5. pc = "ippool" /\ pc' \in {"encap wait", "failed"}
    BY DEF PatchIPPool, Goto, Fail
  <2> QED
    BY <2>1, <2>3, <2>4, <2>5 DEF Coherent
<1> QED
  BY <1>1, <1>2, <1>3, <1>4 DEF DataplaneInv

\* The wait of updateEncap settles the Installation, also after an earlier test.
LEMMA EncapWaitPreserves ==
  DataplaneInv /\ WaitForTigeraStatus("encap wait", "dataplane") => DataplaneInv'
<1> SUFFICES ASSUME DataplaneInv, WaitForTigeraStatus("encap wait", "dataplane")
             PROVE  DataplaneInv'
  OBVIOUS
<1>0. /\ Smoothly => faults' \in 0..MaxFaults /\ (faults' = 0 => faults = 0)
      /\ Fault => faults' \in 0..MaxFaults /\ faults' # 0
  BY FailuresAreCounted DEF DataplaneInv
<1>1. TypeOK'
  BY <1>0 DEF WaitForTigeraStatus, Goto, Fail, proxy, DataplaneInv, TypeOK
<1>2. NeverBPFWithKubeProxy'
  BY DEF WaitForTigeraStatus, Goto, Fail, proxy, DataplaneInv, TypeOK,
         NeverBPFWithKubeProxy, Progress
<1>3. Progress'
  BY DEF WaitForTigeraStatus, Goto, Fail, proxy, DataplaneInv, TypeOK,
         Progress, AllRequests, Dataplanes, Unset,
         EncapDone, DataplaneDone, FelixDone, PoolDone, ModeDone, WaitPending,
         NoLimit
<1>4. ASSUME faults' = 0 PROVE Coherent'
  BY <1>4, <1>0 DEF WaitForTigeraStatus, Goto, Fail, proxy, DataplaneInv, TypeOK,
         NeverBPFWithKubeProxy, Progress, Coherent, AllRequests, Dataplanes, Unset
<1> QED
  BY <1>1, <1>2, <1>3, <1>4 DEF DataplaneInv

\* The early return of enableBPF is right about the dataplane.
LEMMA ChooseDataplanePreserves == DataplaneInv /\ ChooseDataplane => DataplaneInv'
<1> SUFFICES ASSUME DataplaneInv, ChooseDataplane
             PROVE  DataplaneInv'
  OBVIOUS
<1>0. /\ Smoothly => faults' \in 0..MaxFaults /\ (faults' = 0 => faults = 0)
      /\ Fault => faults' \in 0..MaxFaults /\ faults' # 0
  BY FailuresAreCounted DEF DataplaneInv
<1>1. TypeOK'
  <2>1. pc' \in {"felix", "proxy off", "proxy mode", "failed"}
    BY DEF ChooseDataplane, Goto, Fail
  <2> QED
    BY <1>0, <2>1 DEF ChooseDataplane, Goto, Fail, proxy, DataplaneInv, TypeOK
<1>2. NeverBPFWithKubeProxy'
  BY DEF ChooseDataplane, Goto, Fail, proxy, DataplaneInv, TypeOK,
         NeverBPFWithKubeProxy, Progress
<1>3. Progress'
  BY DEF ChooseDataplane, Goto, Fail, proxy, DataplaneInv, TypeOK,
         Progress, AllRequests, Dataplanes, Unset,
         EncapDone, DataplaneDone, FelixDone, PoolDone, ModeDone, WaitPending,
         NoLimit
<1>4. ASSUME faults' = 0 PROVE Coherent'
  BY <1>4, <1>0 DEF ChooseDataplane, Goto, Fail, proxy, DataplaneInv, TypeOK,
         NeverBPFWithKubeProxy, Progress, Coherent, AllRequests, Dataplanes, Unset
<1> QED
  BY <1>1, <1>2, <1>3, <1>4 DEF DataplaneInv

\* kube-proxy is disabled while another dataplane is installed.
LEMMA DisableKubeProxyPreserves == DataplaneInv /\ DisableKubeProxy => DataplaneInv'
<1> SUFFICES ASSUME DataplaneInv, DisableKubeProxy
             PROVE  DataplaneInv'
  OBVIOUS
<1>0. /\ Smoothly => faults' \in 0..MaxFaults /\ (faults' = 0 => faults = 0)
      /\ Fault => faults' \in 0..MaxFaults /\ faults' # 0
  BY FailuresAreCounted DEF DataplaneInv
<1>1. TypeOK'
  BY <1>0 DEF DisableKubeProxy, Goto, Fail, proxy, DataplaneInv, TypeOK
<1>2. NeverBPFWithKubeProxy'
  BY DEF DisableKubeProxy, Goto, Fail, proxy, DataplaneInv, TypeOK,
         NeverBPFWithKubeProxy, Progress
<1>3. Progress'
  BY DEF DisableKubeProxy, Goto, Fail, proxy, DataplaneInv, TypeOK,
         Progress, AllRequests, Dataplanes, Unset,
         EncapDone, DataplaneDone, FelixDone, PoolDone, ModeDone, WaitPending,
         NoLimit
<1>4. ASSUME faults' = 0 PROVE Coherent'
  BY <1>4, <1>0 DEF DisableKubeProxy, Goto, Fail, proxy, DataplaneInv, TypeOK,
         NeverBPFWithKubeProxy, Progress, Coherent, AllRequests, Dataplanes, Unset
<1> QED
  BY <1>1, <1>2, <1>3, <1>4 DEF DataplaneInv

\* The ConfigMap names the dataplane asked for before the Installation does.
LEMMA SetKubeProxyModePreserves == DataplaneInv /\ SetKubeProxyMode => DataplaneInv'
<1> SUFFICES ASSUME DataplaneInv, SetKubeProxyMode
             PROVE  DataplaneInv'
  OBVIOUS
<1>0. /\ Smoothly => faults' \in 0..MaxFaults /\ (faults' = 0 => faults = 0)
      /\ Fault => faults' \in 0..MaxFaults /\ faults' # 0
  BY FailuresAreCounted DEF DataplaneInv
<1>1. TypeOK'
  <2>1. pc' \in {"compare", "proxy restart", "failed"} /\ faults' \in 0..MaxFaults
    BY <1>0 DEF SetKubeProxyMode, Goto, Fail
  <2>2. request.dataplane \in {"iptables", "nftables"}
    BY DEF SetKubeProxyMode, DataplaneInv, Progress
  <2>3. proxyMode' \in Dataplanes
    BY <2>2 DEF SetKubeProxyMode, DataplaneInv, TypeOK, Dataplanes
  <2>4. UNCHANGED <<request, tests, installation, settled, proxyOn, proxyRuns, felix, residue,
                  ippool>>
    BY DEF SetKubeProxyMode, Goto, Fail
  <2> QED
    BY <2>1, <2>3, <2>4 DEF DataplaneInv, TypeOK
<1>2. NeverBPFWithKubeProxy'
  BY DEF SetKubeProxyMode, Goto, Fail, proxy, DataplaneInv, TypeOK,
         NeverBPFWithKubeProxy, Progress
<1>3. Progress'
  BY DEF SetKubeProxyMode, Goto, Fail, proxy, DataplaneInv, TypeOK,
         Progress, AllRequests, Dataplanes, Unset,
         EncapDone, DataplaneDone, FelixDone, PoolDone, ModeDone, WaitPending,
         NoLimit
<1>4. ASSUME faults' = 0 PROVE Coherent'
  BY <1>4, <1>0 DEF SetKubeProxyMode, Goto, Fail, proxy, DataplaneInv, TypeOK,
         NeverBPFWithKubeProxy, Progress, Coherent, AllRequests, Dataplanes, Unset
<1> QED
  BY <1>1, <1>2, <1>3, <1>4 DEF DataplaneInv

\* Its pods catch up with the ConfigMap.
LEMMA RestartKubeProxyPreserves == DataplaneInv /\ RestartKubeProxy => DataplaneInv'
<1> SUFFICES ASSUME DataplaneInv, RestartKubeProxy
             PROVE  DataplaneInv'
  OBVIOUS
<1>0. /\ Smoothly => faults' \in 0..MaxFaults /\ (faults' = 0 => faults = 0)
      /\ Fault => faults' \in 0..MaxFaults /\ faults' # 0
  BY FailuresAreCounted DEF DataplaneInv
<1>1. TypeOK'
  BY <1>0 DEF RestartKubeProxy, Goto, Fail, proxy, DataplaneInv, TypeOK
<1>2. NeverBPFWithKubeProxy'
  BY DEF RestartKubeProxy, Goto, Fail, proxy, DataplaneInv, TypeOK,
         NeverBPFWithKubeProxy, Progress
<1>3. Progress'
  BY DEF RestartKubeProxy, Goto, Fail, proxy, DataplaneInv, TypeOK,
         Progress, AllRequests, Dataplanes, Unset,
         EncapDone, DataplaneDone, FelixDone, PoolDone, ModeDone, WaitPending,
         NoLimit
<1>4. ASSUME faults' = 0 PROVE Coherent'
  BY <1>4, <1>0 DEF RestartKubeProxy, Goto, Fail, proxy, DataplaneInv, TypeOK,
         NeverBPFWithKubeProxy, Progress, Coherent, AllRequests, Dataplanes, Unset
<1> QED
  BY <1>1, <1>2, <1>3, <1>4 DEF DataplaneInv

\* The early returns of enableIptables and enableNftables are right about the dataplane.
LEMMA AlreadyEnabledPreserves == DataplaneInv /\ AlreadyEnabled => DataplaneInv'
<1> SUFFICES ASSUME DataplaneInv, AlreadyEnabled
             PROVE  DataplaneInv'
  OBVIOUS
<1>0. /\ Smoothly => faults' \in 0..MaxFaults /\ (faults' = 0 => faults = 0)
      /\ Fault => faults' \in 0..MaxFaults /\ faults' # 0
  BY FailuresAreCounted DEF DataplaneInv
<1>1. TypeOK'
  BY <1>0 DEF AlreadyEnabled, Goto, Fail, proxy, DataplaneInv, TypeOK,
         AllRequests, Dataplanes, Encaps, DNSModes, Unset
<1>2. NeverBPFWithKubeProxy'
  BY DEF AlreadyEnabled, Goto, Fail, proxy, DataplaneInv, TypeOK,
         NeverBPFWithKubeProxy, Progress
<1>3. Progress'
  BY DEF AlreadyEnabled, Goto, Fail, proxy, DataplaneInv, TypeOK,
         Progress, AllRequests, Dataplanes, Unset,
         EncapDone, DataplaneDone, FelixDone, PoolDone, ModeDone, WaitPending,
         NoLimit
<1>4. ASSUME faults' = 0 PROVE Coherent'
  BY <1>4, <1>0 DEF AlreadyEnabled, Goto, Fail, proxy, DataplaneInv, TypeOK,
         NeverBPFWithKubeProxy, Progress, Coherent, AllRequests, Dataplanes, Unset
<1> QED
  BY <1>1, <1>2, <1>3, <1>4 DEF DataplaneInv

\* BPF is installed only by enableBPF, which has disabled kube-proxy.
LEMMA PatchInstallationPreserves == DataplaneInv /\ PatchInstallation => DataplaneInv'
<1> SUFFICES ASSUME DataplaneInv, PatchInstallation
             PROVE  DataplaneInv'
  OBVIOUS
<1>0. /\ Smoothly => faults' \in 0..MaxFaults /\ (faults' = 0 => faults = 0)
      /\ Fault => faults' \in 0..MaxFaults /\ faults' # 0
  BY FailuresAreCounted DEF DataplaneInv
<1>1. TypeOK'
  <2>1. pc' \in {"wait", "proxy on", "failed"} /\ faults' \in 0..MaxFaults
    BY <1>0 DEF PatchInstallation, Goto, Fail
  <2>2. request.dataplane \in Dataplanes
    BY DEF PatchInstallation, DataplaneInv, Progress, TypeOK, AllRequests
  <2>3. /\ installation' \in [encap : Encaps, dataplane : Dataplanes,
                           cpuLimit : Limits \cup {NoLimit}]
        /\ settled' \in BOOLEAN
        /\ residue' \subseteq Dataplanes
    BY <2>2 DEF PatchInstallation, DataplaneInv, TypeOK
  <2>4. UNCHANGED <<request, tests, proxyOn, proxyMode, proxyRuns, felix, ippool>>
    BY DEF PatchInstallation, proxy, Goto, Fail
  <2> QED
    BY <2>1, <2>3, <2>4 DEF DataplaneInv, TypeOK
<1>2. NeverBPFWithKubeProxy'
  BY DEF PatchInstallation, Goto, Fail, proxy, DataplaneInv, TypeOK,
         NeverBPFWithKubeProxy, Progress
<1>3. Progress'
  BY DEF PatchInstallation, Goto, Fail, proxy, DataplaneInv, TypeOK,
         Progress, AllRequests, Dataplanes, Unset,
         EncapDone, DataplaneDone, FelixDone, PoolDone, ModeDone, WaitPending,
         NoLimit
<1>4. ASSUME faults' = 0 PROVE Coherent'
  BY <1>4, <1>0 DEF PatchInstallation, Goto, Fail, proxy, DataplaneInv, TypeOK,
         NeverBPFWithKubeProxy, Progress, Coherent, AllRequests, Dataplanes, Unset
<1> QED
  BY <1>1, <1>2, <1>3, <1>4 DEF DataplaneInv

\* kube-proxy is enabled once the Installation no longer names BPF.
LEMMA EnableKubeProxyPreserves == DataplaneInv /\ EnableKubeProxy => DataplaneInv'
<1> SUFFICES ASSUME DataplaneInv, EnableKubeProxy
             PROVE  DataplaneInv'
  OBVIOUS
<1>0. /\ Smoothly => faults' \in 0..MaxFaults /\ (faults' = 0 => faults = 0)
      /\ Fault => faults' \in 0..MaxFaults /\ faults' # 0
  BY FailuresAreCounted DEF DataplaneInv
<1>1. TypeOK'
  BY <1>0 DEF EnableKubeProxy, Goto, Fail, proxy, DataplaneInv, TypeOK
<1>2. NeverBPFWithKubeProxy'
  <2>1. request.dataplane = installation.dataplane /\ installation.dataplane # "bpf"
    BY DEF EnableKubeProxy, DataplaneInv, Progress, DataplaneDone, Unset
  <2> QED
    BY <2>1 DEF EnableKubeProxy, Goto, Fail, proxy, NeverBPFWithKubeProxy
<1>3. Progress'
  BY DEF EnableKubeProxy, Goto, Fail, proxy, DataplaneInv, TypeOK,
         Progress, AllRequests, Dataplanes, Unset,
         EncapDone, DataplaneDone, FelixDone, PoolDone, ModeDone, WaitPending,
         NoLimit
<1>4. ASSUME faults' = 0 PROVE Coherent'
  <2>1. faults = 0 /\ ~Fault
    BY <1>4, <1>0 DEF EnableKubeProxy, Fail
  <2>2. /\ pc' = "wait" /\ proxyOn' /\ installation' = installation
        /\ proxyMode' = proxyMode
        /\ proxyRuns' = IF proxyOn THEN proxyRuns ELSE proxyMode
    BY <2>1 DEF EnableKubeProxy, Fail, Goto
  <2>3. installation.dataplane # "bpf"
    BY DEF EnableKubeProxy, DataplaneInv, Progress, DataplaneDone, Unset
  <2>4. proxyRuns' = proxyMode'
    BY <2>1, <2>2 DEF EnableKubeProxy, DataplaneInv, Coherent
  <2>5. ippool' \in {Managed, installation'.encap}
    BY <2>1, <2>2 DEF EnableKubeProxy, DataplaneInv, Coherent
  <2> QED
    BY <2>2, <2>3, <2>4, <2>5 DEF Coherent
<1> QED
  BY <1>1, <1>2, <1>3, <1>4 DEF DataplaneInv

\* The wait after a change of the dataplane.
LEMMA DataplaneWaitPreserves == DataplaneInv /\ WaitForTigeraStatus("wait", "wipe") => DataplaneInv'
<1> SUFFICES ASSUME DataplaneInv, WaitForTigeraStatus("wait", "wipe")
             PROVE  DataplaneInv'
  OBVIOUS
<1>0. /\ Smoothly => faults' \in 0..MaxFaults /\ (faults' = 0 => faults = 0)
      /\ Fault => faults' \in 0..MaxFaults /\ faults' # 0
  BY FailuresAreCounted DEF DataplaneInv
<1>1. TypeOK'
  BY <1>0 DEF WaitForTigeraStatus, Goto, Fail, proxy, DataplaneInv, TypeOK
<1>2. NeverBPFWithKubeProxy'
  BY DEF WaitForTigeraStatus, Goto, Fail, proxy, DataplaneInv, TypeOK,
         NeverBPFWithKubeProxy, Progress
<1>3. Progress'
  BY DEF WaitForTigeraStatus, Goto, Fail, proxy, DataplaneInv, TypeOK,
         Progress, AllRequests, Dataplanes, Unset,
         EncapDone, DataplaneDone, FelixDone, PoolDone, ModeDone, WaitPending,
         NoLimit
<1>4. ASSUME faults' = 0 PROVE Coherent'
  BY <1>4, <1>0 DEF WaitForTigeraStatus, Goto, Fail, proxy, DataplaneInv, TypeOK,
         NeverBPFWithKubeProxy, Progress, Coherent, AllRequests, Dataplanes, Unset
<1> QED
  BY <1>1, <1>2, <1>3, <1>4 DEF DataplaneInv

\* Flushing rules changes nothing of the configuration.
LEMMA WipePreserves == DataplaneInv /\ Wipe => DataplaneInv'
<1> SUFFICES ASSUME DataplaneInv, Wipe
             PROVE  DataplaneInv'
  OBVIOUS
<1>0. /\ Smoothly => faults' \in 0..MaxFaults /\ (faults' = 0 => faults = 0)
      /\ Fault => faults' \in 0..MaxFaults /\ faults' # 0
  BY FailuresAreCounted DEF DataplaneInv
<1>1. TypeOK'
  BY <1>0 DEF Wipe, Goto, Fail, proxy, DataplaneInv, TypeOK,
         AllRequests, Dataplanes, Encaps, DNSModes, Unset
<1>2. NeverBPFWithKubeProxy'
  BY DEF Wipe, Goto, Fail, proxy, DataplaneInv, TypeOK,
         NeverBPFWithKubeProxy, Progress
<1>3. Progress'
  BY DEF Wipe, Goto, Fail, proxy, DataplaneInv, TypeOK,
         Progress, AllRequests, Dataplanes, Unset,
         EncapDone, DataplaneDone, FelixDone, PoolDone, ModeDone, WaitPending,
         NoLimit
<1>4. ASSUME faults' = 0 PROVE Coherent'
  <2>1. faults = 0 /\ ~Fault
    BY <1>4, <1>0 DEF Wipe
  <2>2. request.dataplane \in {Unset, installation.dataplane}
    BY DEF Wipe, DataplaneInv, Progress, DataplaneDone
  <2>3. request.dataplane \in Dataplanes /\ installation.dataplane = request.dataplane
    BY <2>2 DEF Wipe, DataplaneInv, Progress, TypeOK, AllRequests
  <2> QED
    BY <2>1, <2>3 DEF Wipe, Goto, proxy, DataplaneInv, Coherent, Dataplanes
<1> QED
  BY <1>1, <1>2, <1>3, <1>4 DEF DataplaneInv

\* Felix gets the mode asked for, in the field of the dataplane installed.
LEMMA PatchFelixConfigPreserves == DataplaneInv /\ PatchFelixConfig => DataplaneInv'
<1> SUFFICES ASSUME DataplaneInv, PatchFelixConfig
             PROVE  DataplaneInv'
  OBVIOUS
<1>0. /\ Smoothly => faults' \in 0..MaxFaults /\ (faults' = 0 => faults = 0)
      /\ Fault => faults' \in 0..MaxFaults /\ faults' # 0
  BY FailuresAreCounted DEF DataplaneInv
<1>1. TypeOK'
  <2>1. pc' \in {"limit", "felix wait", "failed"} /\ faults' \in 0..MaxFaults
    BY <1>0 DEF PatchFelixConfig, Goto, Fail
  <2>2. installation.dataplane \in Dataplanes /\ felix \in [Dataplanes -> DNSModes]
    BY DEF DataplaneInv, TypeOK
  <2>3. Supported(installation.dataplane) \subseteq DNSModes
    BY <2>2 DEF Supported, Dataplanes, DNSModes
  <2>4. felix' \in [Dataplanes -> DNSModes]
    BY <2>2, <2>3 DEF PatchFelixConfig
  <2>5. UNCHANGED <<request, tests, installation, settled, proxyOn, proxyMode, proxyRuns, residue,
                  ippool>>
    BY DEF PatchFelixConfig, proxy, Goto, Fail
  <2> QED
    BY <2>1, <2>4, <2>5 DEF DataplaneInv, TypeOK
<1>2. NeverBPFWithKubeProxy'
  BY DEF PatchFelixConfig, Goto, Fail, Supported, proxy, DataplaneInv, TypeOK,
         NeverBPFWithKubeProxy, Progress
<1>3. Progress'
  BY DEF PatchFelixConfig, Goto, Fail, Supported, proxy, DataplaneInv, TypeOK,
         Progress, AllRequests, Dataplanes, Unset,
         EncapDone, DataplaneDone, FelixDone, PoolDone, ModeDone, WaitPending,
         NoLimit
<1>4. ASSUME faults' = 0 PROVE Coherent'
  BY <1>4, <1>0 DEF PatchFelixConfig, Goto, Fail, Supported, proxy, DataplaneInv, TypeOK,
         NeverBPFWithKubeProxy, Progress, Coherent, AllRequests, Dataplanes, Unset
<1> QED
  BY <1>1, <1>2, <1>3, <1>4 DEF DataplaneInv

\* The wait after a change to Inline.
LEMMA FelixWaitPreserves ==
  DataplaneInv /\ WaitForTigeraStatus("felix wait", "felix log") => DataplaneInv'
<1> SUFFICES ASSUME DataplaneInv, WaitForTigeraStatus("felix wait", "felix log")
             PROVE  DataplaneInv'
  OBVIOUS
<1>0. /\ Smoothly => faults' \in 0..MaxFaults /\ (faults' = 0 => faults = 0)
      /\ Fault => faults' \in 0..MaxFaults /\ faults' # 0
  BY FailuresAreCounted DEF DataplaneInv
<1>1. TypeOK'
  BY <1>0 DEF WaitForTigeraStatus, Goto, Fail, proxy, DataplaneInv, TypeOK
<1>2. NeverBPFWithKubeProxy'
  BY DEF WaitForTigeraStatus, Goto, Fail, proxy, DataplaneInv, TypeOK,
         NeverBPFWithKubeProxy, Progress
<1>3. Progress'
  BY DEF WaitForTigeraStatus, Goto, Fail, proxy, DataplaneInv, TypeOK,
         Progress, AllRequests, Dataplanes, Unset,
         EncapDone, DataplaneDone, FelixDone, PoolDone, ModeDone, WaitPending,
         NoLimit
<1>4. ASSUME faults' = 0 PROVE Coherent'
  BY <1>4, <1>0 DEF WaitForTigeraStatus, Goto, Fail, proxy, DataplaneInv, TypeOK,
         NeverBPFWithKubeProxy, Progress, Coherent, AllRequests, Dataplanes, Unset
<1> QED
  BY <1>1, <1>2, <1>3, <1>4 DEF DataplaneInv

\* Reading the logs changes nothing.
LEMMA CheckInlinePreserves == DataplaneInv /\ CheckInline => DataplaneInv'
<1> SUFFICES ASSUME DataplaneInv, CheckInline
             PROVE  DataplaneInv'
  OBVIOUS
<1>0. /\ Smoothly => faults' \in 0..MaxFaults /\ (faults' = 0 => faults = 0)
      /\ Fault => faults' \in 0..MaxFaults /\ faults' # 0
  BY FailuresAreCounted DEF DataplaneInv
<1>1. TypeOK'
  BY <1>0 DEF CheckInline, Goto, Fail, proxy, DataplaneInv, TypeOK
<1>2. NeverBPFWithKubeProxy'
  BY DEF CheckInline, Goto, Fail, proxy, DataplaneInv, TypeOK,
         NeverBPFWithKubeProxy, Progress
<1>3. Progress'
  BY DEF CheckInline, Goto, Fail, proxy, DataplaneInv, TypeOK,
         Progress, AllRequests, Dataplanes, Unset,
         EncapDone, DataplaneDone, FelixDone, PoolDone, ModeDone, WaitPending,
         NoLimit
<1>4. ASSUME faults' = 0 PROVE Coherent'
  BY <1>4, <1>0 DEF CheckInline, Goto, Fail, proxy, DataplaneInv, TypeOK,
         NeverBPFWithKubeProxy, Progress, Coherent, AllRequests, Dataplanes, Unset
<1> QED
  BY <1>1, <1>2, <1>3, <1>4 DEF DataplaneInv

\* The limit asked for is in the Installation before its wait begins.
LEMMA SetCalicoNodeCPULimitPreserves == DataplaneInv /\ SetCalicoNodeCPULimit => DataplaneInv'
<1> SUFFICES ASSUME DataplaneInv, SetCalicoNodeCPULimit
             PROVE  DataplaneInv'
  OBVIOUS
<1>0. /\ Smoothly => faults' \in 0..MaxFaults /\ (faults' = 0 => faults = 0)
      /\ Fault => faults' \in 0..MaxFaults /\ faults' # 0
  BY FailuresAreCounted DEF DataplaneInv
<1>1. TypeOK'
  <2>1. pc' \in {"ready", "limit wait", "failed"} /\ faults' \in 0..MaxFaults
    BY <1>0 DEF SetCalicoNodeCPULimit, Goto, Fail
  <2>2. /\ installation' \in [encap : Encaps, dataplane : Dataplanes,
                              cpuLimit : Limits \cup {NoLimit}]
        /\ settled' \in BOOLEAN
    BY DEF SetCalicoNodeCPULimit, DataplaneInv, TypeOK, AllRequests
  <2>3. UNCHANGED <<request, tests, proxyOn, proxyMode, proxyRuns, felix, residue, ippool>>
    BY DEF SetCalicoNodeCPULimit, proxy, Goto, Fail
  <2> QED
    BY <2>1, <2>2, <2>3 DEF DataplaneInv, TypeOK
<1>2. NeverBPFWithKubeProxy'
  BY DEF SetCalicoNodeCPULimit, Goto, Fail, proxy, DataplaneInv, TypeOK,
         NeverBPFWithKubeProxy, Progress
<1>3. Progress'
  BY DEF SetCalicoNodeCPULimit, Goto, Fail, proxy, DataplaneInv, TypeOK,
         Progress, AllRequests, Dataplanes, Unset,
         EncapDone, DataplaneDone, FelixDone, PoolDone, ModeDone, WaitPending,
         NoLimit
<1>4. ASSUME faults' = 0 PROVE Coherent'
  BY <1>4, <1>0 DEF SetCalicoNodeCPULimit, Goto, Fail, proxy, DataplaneInv, TypeOK,
         NeverBPFWithKubeProxy, Progress, Coherent, AllRequests, Dataplanes, Unset
<1> QED
  BY <1>1, <1>2, <1>3, <1>4 DEF DataplaneInv

\* The wait after a change of the limit.
LEMMA LimitWaitPreserves ==
  DataplaneInv /\ WaitForTigeraStatus("limit wait", "ready") => DataplaneInv'
<1> SUFFICES ASSUME DataplaneInv, WaitForTigeraStatus("limit wait", "ready")
             PROVE  DataplaneInv'
  OBVIOUS
<1>0. /\ Smoothly => faults' \in 0..MaxFaults /\ (faults' = 0 => faults = 0)
      /\ Fault => faults' \in 0..MaxFaults /\ faults' # 0
  BY FailuresAreCounted DEF DataplaneInv
<1>1. TypeOK'
  BY <1>0 DEF WaitForTigeraStatus, Goto, Fail, proxy, DataplaneInv, TypeOK
<1>2. NeverBPFWithKubeProxy'
  BY DEF WaitForTigeraStatus, Goto, Fail, proxy, DataplaneInv, TypeOK,
         NeverBPFWithKubeProxy, Progress
<1>3. Progress'
  BY DEF WaitForTigeraStatus, Goto, Fail, proxy, DataplaneInv, TypeOK,
         Progress, AllRequests, Dataplanes, Unset,
         EncapDone, DataplaneDone, FelixDone, PoolDone, ModeDone, WaitPending,
         NoLimit
<1>4. ASSUME faults' = 0 PROVE Coherent'
  BY <1>4, <1>0 DEF WaitForTigeraStatus, Goto, Fail, proxy, DataplaneInv, TypeOK,
         NeverBPFWithKubeProxy, Progress, Coherent, AllRequests, Dataplanes, Unset
<1> QED
  BY <1>1, <1>2, <1>3, <1>4 DEF DataplaneInv

\* The teardown claims nothing of what was asked for.
LEMMA ResetCPULimitPreserves == DataplaneInv /\ ResetCPULimit => DataplaneInv'
<1> SUFFICES ASSUME DataplaneInv, ResetCPULimit
             PROVE  DataplaneInv'
  OBVIOUS
<1>0. /\ Smoothly => faults' \in 0..MaxFaults /\ (faults' = 0 => faults = 0)
      /\ Fault => faults' \in 0..MaxFaults /\ faults' # 0
  BY FailuresAreCounted DEF DataplaneInv
<1>1. TypeOK'
  BY <1>0 DEF ResetCPULimit, Goto, Fail, proxy, DataplaneInv, TypeOK,
         AllRequests, Dataplanes, Encaps, DNSModes, Unset
<1>2. NeverBPFWithKubeProxy'
  BY DEF ResetCPULimit, Goto, Fail, proxy, DataplaneInv, TypeOK,
         NeverBPFWithKubeProxy, Progress
<1>3. Progress'
  BY DEF ResetCPULimit, Goto, Fail, proxy, DataplaneInv, TypeOK,
         Progress, AllRequests, Dataplanes, Unset,
         EncapDone, DataplaneDone, FelixDone, PoolDone, ModeDone, WaitPending,
         NoLimit
<1>4. ASSUME faults' = 0 PROVE Coherent'
  BY <1>4, <1>0 DEF ResetCPULimit, Goto, Fail, proxy, DataplaneInv, TypeOK,
         NeverBPFWithKubeProxy, Progress, Coherent, AllRequests, Dataplanes, Unset
<1> QED
  BY <1>1, <1>2, <1>3, <1>4 DEF DataplaneInv

\* Its wait may be given up, which the next test makes up for.
LEMMA AwaitResetPreserves == DataplaneInv /\ AwaitReset => DataplaneInv'
<1> SUFFICES ASSUME DataplaneInv, AwaitReset
             PROVE  DataplaneInv'
  OBVIOUS
<1>0. /\ Smoothly => faults' \in 0..MaxFaults /\ (faults' = 0 => faults = 0)
      /\ Fault => faults' \in 0..MaxFaults /\ faults' # 0
  BY FailuresAreCounted DEF DataplaneInv
<1>1. TypeOK'
  BY <1>0 DEF AwaitReset, Goto, Fail, proxy, DataplaneInv, TypeOK
<1>2. NeverBPFWithKubeProxy'
  BY DEF AwaitReset, Goto, Fail, proxy, DataplaneInv, TypeOK,
         NeverBPFWithKubeProxy, Progress
<1>3. Progress'
  BY DEF AwaitReset, Goto, Fail, proxy, DataplaneInv, TypeOK,
         Progress, AllRequests, Dataplanes, Unset,
         EncapDone, DataplaneDone, FelixDone, PoolDone, ModeDone, WaitPending,
         NoLimit
<1>4. ASSUME faults' = 0 PROVE Coherent'
  BY <1>4, <1>0 DEF AwaitReset, Goto, Fail, proxy, DataplaneInv, TypeOK,
         NeverBPFWithKubeProxy, Progress, Coherent, AllRequests, Dataplanes, Unset
<1> QED
  BY <1>1, <1>2, <1>3, <1>4 DEF DataplaneInv

\* Nothing happens after the last test.
LEMMA FinishedPreserves == DataplaneInv /\ Finished => DataplaneInv'
<1> SUFFICES ASSUME DataplaneInv, Finished
             PROVE  DataplaneInv'
  OBVIOUS
<1>1. TypeOK'
  BY DEF Finished, vars, proxy, DataplaneInv, TypeOK
<1>2. NeverBPFWithKubeProxy'
  BY DEF Finished, vars, proxy, DataplaneInv, TypeOK,
         NeverBPFWithKubeProxy, Progress
<1>3. Progress'
  BY DEF Finished, vars, proxy, DataplaneInv, TypeOK,
         Progress, AllRequests, Dataplanes, Unset,
         EncapDone, DataplaneDone, FelixDone, PoolDone, ModeDone, WaitPending,
         NoLimit
<1>4. ASSUME faults' = 0 PROVE Coherent'
  BY <1>4 DEF Finished, vars, proxy, DataplaneInv, TypeOK,
         NeverBPFWithKubeProxy, Progress, Coherent, AllRequests, Dataplanes, Unset
<1> QED
  BY <1>1, <1>2, <1>3, <1>4 DEF DataplaneInv
-----------------------------------------------------------------------------
(* What the invariant gives the test that runs next.                       *)

\* The invariant holds in every reachable state.
LEMMA DataplaneInvHolds == Spec => []DataplaneInv
<1>1. ASSUME DataplaneInv, UNCHANGED vars PROVE DataplaneInv'
  <2>1. TypeOK'
    BY <1>1 DEF vars, proxy, DataplaneInv, TypeOK
  <2>2. NeverBPFWithKubeProxy'
    BY <1>1 DEF vars, proxy, DataplaneInv, NeverBPFWithKubeProxy
  <2>3. Progress'
    <3>1. /\ pc' = pc /\ request' = request /\ installation' = installation
          /\ settled' = settled /\ proxyOn' = proxyOn /\ proxyMode' = proxyMode
          /\ felix' = felix /\ ippool' = ippool
      BY <1>1 DEF vars, proxy
    <3>2. Progress
      BY <1>1 DEF DataplaneInv
    <3>3. /\ EncapDone' => request'.encap \in {Unset, installation'.encap}
          /\ PoolDone' => ippool' \in {Managed, request'.encap} \/ request'.encap = Unset
      BY <3>1, <3>2 DEF Progress, EncapDone, PoolDone
    <3>4. /\ DataplaneDone' => request'.dataplane \in {Unset, installation'.dataplane}
          /\ ModeDone' /\ request'.dataplane \in {"iptables", "nftables"} =>
               proxyMode' = request'.dataplane
      BY <3>1, <3>2 DEF Progress, DataplaneDone, ModeDone, FelixDone
    <3>5. /\ FelixDone' => request'.dnsMode \in {Unset, felix'[installation'.dataplane]}
          /\ pc' \in {"limit wait", "ready"} =>
               request'.cpuLimit \in {Unset, installation'.cpuLimit}
      BY <3>1, <3>2 DEF Progress, FelixDone
    <3>6. WaitPending' \/ settled'
      BY <3>1, <3>2 DEF Progress, WaitPending
    <3>7. /\ pc' = "proxy off" => request'.dataplane = "bpf"
          /\ pc' \in {"proxy mode", "proxy restart", "compare", "proxy on"} =>
               request'.dataplane \in {"iptables", "nftables"}
          /\ pc' \in {"install", "wait", "wipe"} => request'.dataplane # Unset
          /\ pc' = "install" /\ request'.dataplane = "bpf" => ~proxyOn'
      BY <3>1, <3>2 DEF Progress
    <3> QED
      BY <3>3, <3>4, <3>5, <3>6, <3>7 DEF Progress
  <2>4. ASSUME faults' = 0 PROVE Coherent'
    BY <1>1, <2>4 DEF vars, proxy, DataplaneInv, Coherent
  <2> QED
    BY <2>1, <2>2, <2>3, <2>4 DEF DataplaneInv
<1>2. DataplaneInv /\ [Next]_vars => DataplaneInv'
  BY <1>1, NextTestPreserves, UpdateEncapPreserves, PatchIPPoolPreserves,
     EncapWaitPreserves,
     ChooseDataplanePreserves, DisableKubeProxyPreserves, SetKubeProxyModePreserves,
     RestartKubeProxyPreserves, AlreadyEnabledPreserves, PatchInstallationPreserves,
     EnableKubeProxyPreserves, DataplaneWaitPreserves, WipePreserves,
     PatchFelixConfigPreserves, FelixWaitPreserves, CheckInlinePreserves,
     SetCalicoNodeCPULimitPreserves, LimitWaitPreserves, ResetCPULimitPreserves,
     AwaitResetPreserves, FinishedPreserves
  DEF Next
<1> QED
  BY <1>2, InitEstablishesDataplaneInv, PTL DEF Spec

\* Every variable keeps its type, and ConfigureCluster stays at one of its own steps.
THEOREM DataplaneTypeCorrect == Spec => []TypeOK
<1>1. DataplaneInv => TypeOK
  BY DEF DataplaneInv
<1> QED
  BY <1>1, DataplaneInvHolds, PTL

\* No failure, of whatever call of whatever test, leads to the BPF dataplane with kube-proxy
\* selected: cluster_internal.go disables it before and enables it after.
THEOREM BPFExcludesKubeProxy == Spec => []NeverBPFWithKubeProxy
<1>1. DataplaneInv => NeverBPFWithKubeProxy
  BY DEF DataplaneInv
<1> QED
  BY <1>1, DataplaneInvHolds, PTL

\* A nil error of ConfigureCluster means that the Installation, the mode of kube-proxy's
\* ConfigMap and Felix are as the test asks, wherever earlier calls were cut short.
THEOREM SuccessMeansAsRequested == Spec => []ReadyAsRequested
<1>1. DataplaneInv => ReadyAsRequested
  BY DEF DataplaneInv, Progress, ReadyAsRequested, EncapDone, PoolDone, DataplaneDone,
         FelixDone, ModeDone
<1> QED
  BY <1>1, DataplaneInvHolds, PTL

\* No test starts while a change of the Installation, its own or one that an earlier test
\* gave up waiting for, has not been reported Available.
THEOREM TestsRunOnASettledCluster == Spec => []SettledBeforeTheTest
<1>1. DataplaneInv => SettledBeforeTheTest
  BY DEF DataplaneInv, Progress, SettledBeforeTheTest, WaitPending
<1> QED
  BY <1>1, DataplaneInvHolds, PTL

\* Any sequence of test configs, no call failing, leaves one service proxy, its pods in the
\* configured mode, and no rules of the other of iptables and nftables.
THEOREM SwitchingIsClean == Spec => []CoherentWithoutFaults
<1>1. ASSUME DataplaneInv PROVE CoherentWithoutFaults
  <2> SUFFICES ASSUME pc = "ready", faults = 0
               PROVE  /\ proxyOn <=> installation.dataplane # "bpf"
                      /\ proxyOn => proxyRuns = proxyMode
                      /\ ippool \in {Managed, installation.encap}
                      /\ installation.dataplane = "nftables" => "iptables" \notin residue
                      /\ installation.dataplane = "iptables" => "nftables" \notin residue
    BY DEF CoherentWithoutFaults
  <2>1. Coherent
    BY <1>1 DEF DataplaneInv
  <2>2. proxyOn \in BOOLEAN
    BY <1>1 DEF DataplaneInv, TypeOK
  <2> QED
    BY <2>1, <2>2 DEF Coherent
<1> QED
  BY <1>1, DataplaneInvHolds, PTL

=============================================================================
