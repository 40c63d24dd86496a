------------------------------ MODULE DNSPerf -------------------------------
(***************************************************************************)
(* RunDNSPerfTests of pkg/dnsperf/dnsperf.go.  One worker per test pod     *)
(* runs curl after curl until the test context expires and sends each      *)
(* result to a channel; a closer closes the channel when the workers have  *)
(* ended; the calling goroutine receives until then.  Beside them, and     *)
(* joined by nobody, a goroutine per node captures packets and another     *)
(* scales a deployment up and down.  Finally the captures are read.        *)
(*                                                                         *)
(* A call under an expired context fails, or answers nevertheless if it    *)
(* was in flight.  The capture of a node is a file in its tcpdump pod and  *)
(* may be there from an earlier test whose pods were left up, as may the   *)
(* deployment, scaled up.  Both are only looked at in their mode.          *)
(***************************************************************************)
EXTENDS Naturals, Sequences, FiniteSets

CONSTANTS
  Pods,      (* the test pods, one per node; each node has a tcpdump pod   *)
  Capacity,  (* of the channel: ten times the number of pods in the code   *)
  Modes,     (* the values of TestDNSPolicy and RunStress                  *)
  MaxCurls,  (* bound: results sent before the test ends                    *)
  MaxTries   (* attempts at reading a capture, 10 in the code              *)

ASSUME DNSPerfAssumption ==
  /\ IsFiniteSet(Pods) /\ Pods # {}
  /\ Modes \subseteq [dnsPolicy : BOOLEAN, stress : BOOLEAN]
  /\ {Capacity, MaxCurls, MaxTries} \subseteq Nat \ {0}

\* How a curl ends: with Success set, which includes output that cannot be parsed; with an
\* error of the command; or with the end of the test context.
Outcomes == {"ok", "failed", "cut off"}

VARIABLES
  pc,          (* the calling goroutine                                    *)
  mode,        (* whether packets are captured, a deployment is scaled     *)
  expired,     (* the test context has expired                             *)
  at,          (* per pod, where its worker is                             *)
  outcome,     (* per pod, how its curl ended; "ok" where there is none    *)
  wg,          (* counter of the WaitGroup                                 *)
  channel,     (* the buffered results                                     *)
  closed,      (* the channel is closed                                    *)
  rawresults,  (* the results received                                     *)
  results,     (* SuccessfulCurls and FailedCurls                          *)
  scaler,      (* where the scaling goroutine is                           *)
  replicas,    (* size of the deployment it scales: "none" or "many"       *)
  tcpdump,     (* per pod, where the capturing goroutine of its node is    *)
  captures,    (* the nodes whose tcpdump pod has a file                   *)
  counted,     (* the nodes whose capture has been read                    *)
  tries,       (* failed attempts at reading the next one                  *)
  sent         (* the results sent, in this order                          *)

workers == <<at, outcome, wg, sent>>
received == <<rawresults, results>>
stressing == <<scaler, replicas>>
capturing == <<tcpdump, captures>>
counting == <<counted, tries>>
vars == <<pc, mode, expired, workers, channel, closed, received, stressing, capturing,
          counting>>

Init ==
  /\ pc = "prepare"
  /\ mode \in Modes
  /\ expired = FALSE
  /\ at = [p \in Pods |-> "unborn"]
  /\ outcome = [p \in Pods |-> "ok"]
  /\ wg = 0
  /\ channel = <<>>
  /\ closed = FALSE
  /\ rawresults = <<>>
  /\ results = [successful |-> 0, failed |-> 0]
  /\ scaler = "unborn"
  /\ replicas \in IF mode.stress THEN {"none", "many"} ELSE {"none"}
  /\ tcpdump = [p \in Pods |-> "unborn"]
  /\ captures \in IF mode.dnsPolicy THEN SUBSET Pods ELSE {{}}
  /\ counted = {}
  /\ tries = 0
  /\ sent = <<>>

-----------------------------------------------------------------------------
(* The calling goroutine.                                                  *)

\* Everything up to the test context: the deployment, the pods, the check of their
\* addresses (which gives up waiting, but does not fail); each call may end the test.
Prepare ==
  /\ pc = "prepare"
  /\ pc' \in {"background", "failed"}
  /\ UNCHANGED <<mode, expired, workers, channel, closed, received, stressing, capturing,
                 counting>>

\* The goroutines that nobody waits for are started.
StartBackground ==
  /\ pc = "background"
  /\ pc' = "launch"
  /\ tcpdump' = [p \in Pods |-> IF mode.dnsPolicy THEN "prepare" ELSE "unborn"]
  /\ scaler' = IF mode.stress THEN "check" ELSE "unborn"
  /\ UNCHANGED <<mode, expired, workers, channel, closed, received, replicas, captures,
                 counting>>

Launch(p) ==
  /\ pc = "launch"
  /\ at[p] = "unborn"
  /\ wg' = wg + 1
  /\ at' = [at EXCEPT ![p] = "curl"]
  /\ UNCHANGED <<pc, mode, expired, outcome, sent, channel, closed, received, stressing,
                 capturing, counting>>

\* The last goroutine to be started is the closer.
StartCloser ==
  /\ pc = "launch"
  /\ \A p \in Pods : at[p] # "unborn"
  /\ pc' = "receive"
  /\ UNCHANGED <<mode, expired, workers, channel, closed, received, stressing, capturing,
                 counting>>

Receive ==
  /\ pc = "receive"
  /\ channel # <<>>
  /\ rawresults' = Append(rawresults, Head(channel))
  /\ channel' = Tail(channel)
  /\ UNCHANGED <<pc, mode, expired, workers, closed, results, stressing, capturing, counting>>

\* processResults: a result without Success is a failed curl.
ProcessResults(raw) ==
  LET failures == {k \in DOMAIN raw : raw[k].outcome \in {"failed", "cut off"}} IN
  [successful |-> Cardinality(DOMAIN raw \ failures), failed |-> Cardinality(failures)]

\* Mutant of EndOfResults: the loop ends with the channel closed, results in it or not.
EndOnClose ==
  /\ pc = "receive"
  /\ closed
  /\ results' = ProcessResults(rawresults)
  /\ pc' = IF mode.dnsPolicy THEN "count" ELSE "done"
  /\ UNCHANGED <<mode, expired, workers, channel, closed, rawresults, stressing, capturing,
                 counting>>

\* The range loop over the channel ends when it is closed and empty.
EndOfResults ==
  /\ pc = "receive"
  /\ closed
  /\ channel = <<>>
  /\ results' = ProcessResults(rawresults)
  /\ pc' = IF mode.dnsPolicy THEN "count" ELSE "done"
  /\ UNCHANGED <<mode, expired, workers, channel, closed, rawresults, stressing, capturing,
                 counting>>

NextCapture == CHOOSE p \in Pods : p \notin counted

\* Mutant of CountDuplicateSYN: a capture that cannot be read counts as one without packets.
CountWhatIsThere ==
  /\ pc = "count"
  /\ counted' = counted \cup {NextCapture}
  /\ pc' = IF counted' = Pods THEN "done" ELSE "count"
  /\ UNCHANGED <<mode, expired, workers, channel, closed, received, stressing, capturing,
                 tries>>

\* One attempt of countDuplicateSYN: a file cut short in the middle of a packet is good
\* enough; without a file, or when the command fails, it tries again.
CountDuplicateSYN ==
  /\ pc = "count"
  /\ \/ /\ NextCapture \in captures
        /\ counted' = counted \cup {NextCapture}
        /\ tries' = 0
        /\ pc' = IF counted' = Pods THEN "done" ELSE "count"
     \/ /\ NextCapture \in captures        \* the output cannot be scanned
        /\ pc' = "failed"
        /\ UNCHANGED counting
     \/ /\ tries' = tries + 1
        /\ pc' = IF tries' = MaxTries THEN "failed" ELSE "count"
        /\ UNCHANGED counted
  /\ UNCHANGED <<mode, expired, workers, channel, closed, received, stressing, capturing>>

Main ==
  \/ Prepare
  \/ StartBackground
  \/ \E p \in Pods : Launch(p)
  \/ StartCloser
  \/ Receive
  \/ EndOfResults
  \/ CountDuplicateSYN

-----------------------------------------------------------------------------
(* The worker of test pod p, and the closer.                               *)

worker_unchanged ==
  <<pc, mode, expired, closed, received, stressing, capturing, counting>>

\* runDNSPerfTest.  The bound on the results only holds a worker up until the test ends.
Curl(p) ==
  /\ at[p] = "curl"
  /\ Len(sent) + Cardinality({q \in Pods : at[q] \in {"check", "send"}}) < MaxCurls \/ expired
  /\ \E o \in Outcomes :
       /\ o = "cut off" => expired
       /\ outcome' = [outcome EXCEPT ![p] = o]
  /\ at' = [at EXCEPT ![p] = "check"]
  /\ UNCHANGED <<wg, sent, channel, worker_unchanged>>

\* Mutants of CheckContext: the worker leaves without telling the WaitGroup, or only stops
\* after an answer.
LeaveSilently(p) ==
  /\ at[p] = "check"
  /\ at' = [at EXCEPT ![p] = IF expired THEN "ended" ELSE "send"]
  /\ UNCHANGED <<wg, outcome, sent, channel, worker_unchanged>>

StopAfterSuccess(p) ==
  /\ at[p] = "check"
  /\ IF expired /\ outcome[p] = "ok"
     THEN wg' = wg - 1 /\ at' = [at EXCEPT ![p] = "ended"]
     ELSE UNCHANGED wg /\ at' = [at EXCEPT ![p] = "send"]
  /\ UNCHANGED <<outcome, sent, channel, worker_unchanged>>

\* Once the context has expired the result is dropped and the worker ends (wg.Done is
\* deferred), whatever the curl has answered.
CheckContext(p) ==
  /\ at[p] = "check"
  /\ IF expired
     THEN /\ wg' = wg - 1
          /\ at' = [at EXCEPT ![p] = "ended"]
          /\ outcome' = [outcome EXCEPT ![p] = "ok"]
     ELSE /\ at' = [at EXCEPT ![p] = "send"]
          /\ UNCHANGED <<wg, outcome>>
  /\ UNCHANGED <<sent, channel, worker_unchanged>>

Send(p) ==
  /\ at[p] = "send"
  /\ Len(channel) < Capacity
  /\ LET result == [pod |-> p, outcome |-> outcome[p]] IN
       channel' = Append(channel, result) /\ sent' = Append(sent, result)
  /\ at' = [at EXCEPT ![p] = "curl"]
  /\ outcome' = [outcome EXCEPT ![p] = "ok"]
  /\ UNCHANGED <<wg, worker_unchanged>>

Worker(p) == Curl(p) \/ CheckContext(p) \/ Send(p)

\* Mutant of Close: the channel is closed when the test is over.
CloseWhenExpired ==
  /\ pc = "receive"
  /\ expired
  /\ ~closed
  /\ closed' = TRUE
  /\ UNCHANGED <<pc, mode, expired, workers, channel, received, stressing, capturing, counting>>

Close ==
  /\ pc = "receive"
  /\ wg = 0
  /\ ~closed
  /\ closed' = TRUE
  /\ UNCHANGED <<pc, mode, expired, workers, channel, received, stressing, capturing, counting>>

-----------------------------------------------------------------------------
(* The background.                                                         *)

Expire ==
  /\ pc \notin {"prepare", "failed", "done"}
  /\ ~expired
  /\ expired' = TRUE
  /\ UNCHANGED <<pc, mode, workers, channel, closed, received, stressing, capturing, counting>>

background_unchanged ==
  <<pc, mode, expired, workers, channel, closed, received, counting>>

\* Mutant of ScalerCheck: the loop does not look at the context.
ScaleOn ==
  /\ scaler = "check"
  /\ scaler' = "scale up"
  /\ UNCHANGED <<replicas, capturing, background_unchanged>>

ScalerCheck ==
  /\ scaler = "check"
  /\ scaler' = IF expired THEN "ended" ELSE "scale up"
  /\ UNCHANGED <<replicas, capturing, background_unchanged>>

\* ScaleDeployment; an error is only logged.
Scale(label, size, then) ==
  /\ scaler = label
  /\ scaler' = then
  /\ replicas' \in IF expired THEN {replicas} ELSE {replicas, size}
  /\ UNCHANGED <<capturing, background_unchanged>>

\* SleepCtx: when the time is up and the context has expired too, either may be taken.
Sleep(label, then) ==
  /\ scaler = label
  /\ scaler' = then \/ (expired /\ scaler' = "ended")
  /\ UNCHANGED <<replicas, capturing, background_unchanged>>

ScaleDeploymentLoop ==
  \/ ScalerCheck
  \/ Scale("scale up", "many", "sleep up")
  \/ Sleep("sleep up", "scale down")
  \/ Scale("scale down", "none", "sleep down")
  \/ Sleep("sleep down", "check")

\* runTCPDump: the pod and its interface are looked up, which may fail or take until the
\* test is over; then tcpdump replaces the file and runs until the context ends it.
StartTCPDump(p) ==
  /\ tcpdump[p] = "prepare"
  /\ \/ /\ ~expired
        /\ tcpdump' = [tcpdump EXCEPT ![p] = "run"]
        /\ captures' = captures \cup {p}
     \/ /\ tcpdump' = [tcpdump EXCEPT ![p] = "ended"]
        /\ UNCHANGED captures
  /\ UNCHANGED <<stressing, background_unchanged>>

\* The command ends with the context, or earlier by an error.
EndTCPDump(p) ==
  /\ tcpdump[p] = "run"
  /\ tcpdump' = [tcpdump EXCEPT ![p] = "ended"]
  /\ UNCHANGED <<captures, stressing, background_unchanged>>

RunTCPDump(p) == StartTCPDump(p) \/ EndTCPDump(p)

Ended == {"unborn", "ended"}

\* The function has returned and nothing of it is left.
Rest ==
  /\ pc \in {"done", "failed"}
  /\ scaler \in Ended /\ \A p \in Pods : tcpdump[p] \in Ended
  /\ UNCHANGED vars

Next ==
  \/ Main
  \/ \E p \in Pods : Worker(p) \/ RunTCPDump(p)
  \/ Close
  \/ Expire
  \/ ScaleDeploymentLoop
  \/ Rest

\* Every goroutine is scheduled, every call is answered (commands in pods and API calls
\* carry a deadline or the test context), and the timer of the context fires.
Spec ==
  /\ Init /\ [][Next]_vars
  /\ WF_vars(Main) /\ WF_vars(Close) /\ WF_vars(Expire) /\ WF_vars(ScaleDeploymentLoop)
  /\ \A p \in Pods : WF_vars(Worker(p)) /\ WF_vars(RunTCPDump(p))

-----------------------------------------------------------------------------
Result == [pod : Pods, outcome : Outcomes]

TypeOK ==
  /\ pc \in {"prepare", "background", "launch", "receive", "count", "done", "failed"}
  /\ mode \in Modes
  /\ expired \in BOOLEAN /\ closed \in BOOLEAN
  /\ at \in [Pods -> {"unborn", "curl", "check", "send", "ended"}]
  /\ outcome \in [Pods -> Outcomes]
  /\ wg \in 0..Cardinality(Pods)
  /\ channel \in Seq(Result) /\ Len(channel) <= Capacity
  /\ rawresults \in Seq(Result)
  /\ results \in [successful : Nat, failed : Nat]
  /\ scaler \in {"unborn", "check", "scale up", "sleep up", "scale down", "sleep down", "ended"}
  /\ replicas \in {"none", "many"}
  /\ tcpdump \in [Pods -> {"unborn", "prepare", "run", "ended"}]
  /\ captures \subseteq Pods /\ counted \subseteq Pods /\ tries \in 0..MaxTries
  /\ sent \in Seq(Result)

\* However workers, closer and receiver interleave, no worker is left to send on the closed
\* channel, which would panic; each result that a worker has sent is either in the channel
\* or received, once and in the order sent; and when the results are summarised none is
\* missing.  A curl that was cut off by the end of the test is not among them, neither
\* as failed nor otherwise (dnsperf.go:269).
EveryResultArrives ==
  /\ closed => \A p \in Pods : at[p] = "ended"
  /\ rawresults \o channel = sent
  /\ pc \in {"count", "done"} => results.successful + results.failed = Len(sent)
  /\ \A k \in DOMAIN rawresults : rawresults[k].outcome # "cut off"

\* A test of DNS policy that succeeds has read a capture from every node, although the
\* goroutines that make them may fail unnoticed.
CapturesAreComplete ==
  pc = "done" /\ mode.dnsPolicy => counted = Pods /\ captures = Pods

\* The function returns: nobody waits for a result, for room in the channel or for its end
\* when there is none to come.  The goroutines that nobody joins end as well; none goes on
\* scaling under later tests.
EverythingEnds ==
  <>[](/\ pc \in {"done", "failed"}
       /\ scaler \in Ended
       /\ \A p \in Pods : at[p] \in Ended /\ tcpdump[p] \in Ended)

-----------------------------------------------------------------------------
(* The inductive invariant, in parts.                                      *)

Running == {p \in Pods : at[p] \notin {"unborn", "ended"}}

\* Every worker that has been launched and has not ended counts in the WaitGroup, and the
\* channel is only closed when all were launched and none counts any more.
Joined ==
  /\ wg = Cardinality(Running)
  /\ pc \in {"prepare", "background"} => \A p \in Pods : at[p] = "unborn"
  /\ pc \in {"receive", "count", "done"} => \A p \in Pods : at[p] # "unborn"
  /\ pc \in {"prepare", "background", "launch"} => ~closed
  /\ pc \in {"count", "done"} => closed /\ channel = <<>>
  /\ closed => \A p \in Pods : at[p] = "ended"

\* A curl that was cut off is not sent: the context has expired when the worker looks at it.
NotCutOff ==
  /\ \A p \in Pods : outcome[p] = "cut off" => at[p] = "check" /\ expired
  /\ \A k \in DOMAIN sent : sent[k].outcome # "cut off"

\* What was sent and not received is in the channel.
InOrder ==
  /\ rawresults \o channel = sent
  /\ pc \in {"count", "done"} => results.successful + results.failed = Len(sent)

\* The captures read were there, and are.
Read ==
  /\ counted \subseteq captures
  /\ pc \in {"prepare", "background", "launch", "receive"} => counted = {} /\ tries = 0
  /\ pc = "count" => counted # Pods /\ tries < MaxTries
  /\ pc = "done" /\ mode.dnsPolicy => counted = Pods

DNSPerfInv == TypeOK /\ Joined /\ NotCutOff /\ InOrder /\ Read

=============================================================================
