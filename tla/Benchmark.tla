----------------------------- MODULE Benchmark -----------------------------
(***************************************************************************)
(* The driver, cmd/benchmark.go: one test config after the other is run,   *)
(* torn down, recorded and, when it completed, published (ElasticSearch,   *)
(* the results file); a JUnit report of all tests follows when the config  *)
(* names a file for it.                                                    *)
(*                                                                         *)
(* The cluster is kept to what one test can do to the next: the CPU limit  *)
(* of calico-node in the Installation, and per namespace the tests whose   *)
(* resources may still be there.  A delete is a request: what it concerns  *)
(* goes away later, and nobody waits for that, so that what was deleted    *)
(* counts as possibly there from then on.  StandingConfig and Policies     *)
(* look inside a namespace, Dataplane inside ConfigureCluster.             *)
(***************************************************************************)
EXTENDS Naturals, Sequences

CONSTANTS
  Configs,         (* test configs a config file may list                  *)
  Namespaces,      (* the namespaces they name                             *)
  Limits,          (* CPU limits of calico-node                            *)
  Unset,           (* no limit: in a config, in the Installation           *)
  Length,          (* number of tests in the config file                   *)
  MaxFaults,       (* bound: API calls that fail                           *)
  MaxWriteFaults,  (* bound: writes of the results file that fail          *)
  MaxSlow          (* bound: rollouts that outlast their deadline          *)

Kinds == {"none", "perf", "dnsperf"}    \* perf: iperf, thruput-latency and ttfr

ASSUME BenchmarkAssumption ==
  /\ \A c \in Configs :
       /\ c.kind \in Kinds /\ c.iterations \in Nat /\ c.cpuLimit \in Limits \cup {Unset}
       /\ c.namespace \in Namespaces /\ c.leaveStandingConfig \in BOOLEAN
  /\ Unset \notin Limits
  /\ {Length, MaxFaults, MaxWriteFaults, MaxSlow} \subseteq Nat

VARIABLES
  tests,       (* the list of test configs                                 *)
  pc,          (* where main is                                            *)
  current,     (* number of the test in progress or last run               *)
  thisResult,  (* its result                                               *)
  iteration,   (* measurements tried; 0 once the loop has been left        *)
  measured,    (* measurements that produced results                       *)
  results,     (* benchmarkResults: the results so far                     *)
  uploads,     (* numbers of the tests whose result is in ElasticSearch    *)
  file,        (* the results file; <<>>: none, or one that is not JSON    *)
  junit,       (* per test, whether the JUnit report counts it as failed;  *)
               (* <<>>: there is no report                                 *)
  limit,       (* the CPU limit in the Installation                        *)
  limitOf,     (* number of the test that set it, 0: none of this run      *)
  leftovers,   (* per namespace, the tests whose resources may be there    *)
  deleted,     (* of these, the tests all of whose resources have been     *)
               (* deleted: gone, or asked to go and not yet gone           *)
  expired,     (* whether the teardown context has expired                 *)
  disturbed,   (* tests during which an API call failed                    *)
  faults, writeFaults, slow  (* how many of each have happened             *)

run == <<tests, current>>
test == <<thisResult, iteration, measured>>
reports == <<results, uploads, file, junit, writeFaults>>
resources == <<leftovers, deleted>>
cluster == <<limit, limitOf, resources>>
luck == <<disturbed, faults, slow>>
vars == <<run, pc, test, reports, cluster, expired, luck>>

cfg == tests[current]

NewResult(n) ==
  [test |-> n, status |-> "failed", error |-> FALSE, complete |-> TRUE, data |-> FALSE]

Init ==
  /\ tests \in [1..Length -> Configs]
  /\ pc = "next"
  /\ current = 0
  /\ thisResult = NewResult(0)
  /\ iteration = 0
  /\ measured = 0
  /\ results = <<>>
  /\ uploads = <<>>
  /\ file = <<>>
  /\ junit = <<>>
  /\ limit \in Limits \cup {Unset}
  /\ limitOf = 0
  /\ leftovers = [n \in Namespaces |-> {}]
  /\ deleted = [n \in Namespaces |-> {}]
  /\ expired = FALSE
  /\ disturbed = {}
  /\ faults = 0
  /\ writeFaults = 0
  /\ slow = 0

Fault ==
  /\ faults < MaxFaults
  /\ faults' = faults + 1
  /\ disturbed' = disturbed \cup {current}
  /\ UNCHANGED slow

\* waitForTigeraStatus meets the deadline of its context.
Slow ==
  /\ slow < MaxSlow
  /\ slow' = slow + 1
  /\ UNCHANGED <<disturbed, faults>>

Smoothly == UNCHANGED luck

\* runOneTest returns an error: the result is incomplete, and the teardown follows.
Abandon ==
  /\ thisResult' = [thisResult EXCEPT !.error = TRUE, !.complete = FALSE]
  /\ pc' = "teardown"
  /\ iteration' = 0 /\ measured' = 0

-----------------------------------------------------------------------------
NextTest ==
  /\ pc = "next"
  /\ current < Length
  /\ current' = current + 1
  /\ thisResult' = NewResult(current + 1)
  /\ iteration' = 0
  /\ measured' = 0
  /\ pc' = "before"
  /\ UNCHANGED <<tests, reports, cluster, expired, luck>>

\* cleanupNamespace asks for the deletion of what any test left in the namespace, and does
\* not wait until it is gone; a delete that fails is ignored, and so is everything once the
\* context has expired.
CleanupNamespace ==
  /\ UNCHANGED leftovers
  /\ IF cfg.leaveStandingConfig \/ expired
     THEN UNCHANGED deleted /\ Smoothly
     ELSE \E asked \in SUBSET leftovers[cfg.namespace] :
            /\ deleted' = [deleted EXCEPT ![cfg.namespace] = @ \cup asked]
            /\ \/ asked = leftovers[cfg.namespace] /\ Smoothly
               \/ Fault

\* Mutant of CleanupBefore: only the teardown cleans up.
NoCleanupBefore ==
  /\ pc = "before"
  /\ pc' = "configure"
  /\ UNCHANGED <<run, test, reports, cluster, expired, luck>>

CleanupBefore ==
  /\ pc = "before"
  /\ CleanupNamespace
  /\ pc' = "configure"
  /\ UNCHANGED <<run, test, reports, limit, limitOf, expired>>

\* SetCalicoNodeCPULimit up to its wait: the Installation is updated unless it says so already.
SetLimit(l) ==
  /\ limit' = l
  /\ limitOf' = IF limit = l THEN limitOf ELSE IF l = Unset THEN 0 ELSE current

\* ConfigureCluster sets the CPU limit last.  It may fail before, and it may fail after the
\* Installation has changed.
ConfigureCluster ==
  /\ pc = "configure"
  /\ UNCHANGED <<run, reports, resources, expired>>
  /\ \/ /\ IF cfg.cpuLimit = Unset THEN UNCHANGED <<limit, limitOf>>
                                   ELSE SetLimit(cfg.cpuLimit)
        /\ pc' = "setup"
        /\ Smoothly
        /\ UNCHANGED test
     \/ /\ Abandon
        /\ Fault \/ Slow
        /\ \/ UNCHANGED <<limit, limitOf>>
           \/ cfg.cpuLimit # Unset /\ SetLimit(cfg.cpuLimit)

\* SetupStandingConfig creates resources of the test, and may fail half way.
SetupStandingConfig ==
  /\ pc = "setup"
  /\ leftovers' = [leftovers EXCEPT ![cfg.namespace] = @ \cup {current}]
  /\ UNCHANGED <<run, reports, deleted, limit, limitOf, expired>>
  /\ \/ pc' = "prepare" /\ Smoothly /\ UNCHANGED test
     \/ Abandon /\ Fault

\* The policies and pods a measurement needs.
Prepare ==
  /\ pc = "prepare"
  /\ UNCHANGED <<run, reports, cluster, expired>>
  /\ \/ pc' = "measure" /\ Smoothly /\ UNCHANGED test
     \/ cfg.kind # "none" /\ Abandon /\ Fault

\* One round of the loop over the iterations: a measurement that fails is skipped.
Measure ==
  /\ pc = "measure"
  /\ cfg.kind = "perf"
  /\ iteration < cfg.iterations
  /\ iteration' = iteration + 1
  /\ \/ measured' = measured + 1 /\ Smoothly
     \/ UNCHANGED measured /\ Fault
  /\ UNCHANGED <<run, pc, thisResult, reports, cluster, expired>>

Finish(error, data) ==
  /\ thisResult' = [thisResult EXCEPT !.error = error, !.data = data,
                                      !.status = IF error THEN "failed" ELSE "success"]
  /\ pc' = "teardown"
  /\ iteration' = 0 /\ measured' = 0

\* The end of the switch: no measurement at all is an error unless none was asked for.
Conclude ==
  /\ pc = "measure"
  /\ UNCHANGED <<run, reports, cluster, expired>>
  /\ \/ cfg.kind = "none" /\ Finish(FALSE, FALSE) /\ Smoothly
     \/ /\ cfg.kind = "dnsperf"
        /\ \/ (\E data \in BOOLEAN : Finish(FALSE, data)) /\ Smoothly
           \/ Finish(TRUE, FALSE) /\ Fault
     \/ /\ cfg.kind = "perf"
        /\ iteration = cfg.iterations
        /\ Smoothly
        /\ IF measured = 0 THEN Finish(cfg.iterations > 0, FALSE)
                           ELSE Finish(FALSE, TRUE)
     \/ /\ cfg.kind = "perf"
        /\ iteration = cfg.iterations
        /\ measured > 0
        /\ Finish(TRUE, FALSE)     \* the results cannot be summarised
        /\ Fault

\* Mutant of ResetLimit: the limit is left to the next test that sets one.
ResetNothing ==
  /\ pc = "teardown"
  /\ pc' = "cleanup"
  /\ UNCHANGED <<run, test, reports, cluster, expired, luck>>

\* The deferred teardown, under a context of five minutes: first the limit is removed, and
\* the rollout awaited for as long as the context lasts.
ResetLimit ==
  /\ pc = "teardown"
  /\ pc' = "cleanup"
  /\ UNCHANGED <<run, test, reports, resources>>
  /\ \/ /\ IF cfg.cpuLimit = Unset THEN UNCHANGED <<limit, limitOf>> ELSE SetLimit(Unset)
        /\ Smoothly
        /\ UNCHANGED expired
     \/ /\ cfg.cpuLimit # Unset
        /\ Fault
        /\ UNCHANGED expired
        /\ UNCHANGED <<limit, limitOf>> \/ SetLimit(Unset)
     \/ /\ cfg.cpuLimit # Unset
        /\ limit # Unset
        /\ Slow
        /\ SetLimit(Unset)
        /\ expired' = TRUE

CleanupAfter ==
  /\ pc = "cleanup"
  /\ CleanupNamespace
  /\ pc' = "record"
  /\ expired' = FALSE
  /\ UNCHANGED <<run, test, reports, limit, limitOf>>

\* Mutants of Record: an incomplete result is published, or not even recorded.
RecordAndPublish ==
  /\ pc = "record"
  /\ results' = Append(results, thisResult)
  /\ pc' = "upload"
  /\ UNCHANGED <<run, test, uploads, file, junit, writeFaults, cluster, expired, luck>>

RecordComplete ==
  /\ pc = "record"
  /\ results' = IF thisResult.complete THEN Append(results, thisResult) ELSE results
  /\ pc' = IF thisResult.complete THEN "upload" ELSE "next"
  /\ UNCHANGED <<run, test, uploads, file, junit, writeFaults, cluster, expired, luck>>

\* Back in main: an incomplete result is recorded and the next test begins.
Record ==
  /\ pc = "record"
  /\ results' = Append(results, thisResult)
  /\ pc' = IF thisResult.complete THEN "upload" ELSE "next"
  /\ UNCHANGED <<run, test, uploads, file, junit, writeFaults, cluster, expired, luck>>

\* Mutant of Upload: an upload without an answer is made again.
UploadUntilAnswered ==
  /\ pc = "upload"
  /\ uploads' \in {uploads, Append(uploads, current)}
  /\ pc' \in {"upload", "write"}
  /\ UNCHANGED <<run, test, results, file, junit, writeFaults, cluster, expired, luck>>

\* UploadResult may fail or be configured off; neither has consequences.
Upload ==
  /\ pc = "upload"
  /\ uploads' \in {uploads, Append(uploads, current)}
  /\ pc' = "write"
  /\ UNCHANGED <<run, test, results, file, junit, writeFaults, cluster, expired, luck>>

\* Mutant of WriteResultToFile: it writes the result of this test only.
WriteThisResult ==
  /\ pc = "write"
  /\ file' = <<thisResult>>
  /\ pc' = "next"
  /\ UNCHANGED <<run, test, results, uploads, junit, writeFaults, cluster, expired, luck>>

\* writeResultToFile replaces the file by the results so far; os.Create truncates it.
WriteResultToFile ==
  /\ pc = "write"
  /\ \/ file' = results /\ UNCHANGED writeFaults
     \/ /\ writeFaults < MaxWriteFaults
        /\ writeFaults' = writeFaults + 1
        /\ file' \in {file, <<>>}
  /\ pc' = "next"
  /\ UNCHANGED <<run, test, results, uploads, junit, cluster, expired, luck>>

\* isTestFailed of pkg/junit/junit.go.
IsTestFailed(r, c) ==
  \/ r.error
  \/ r.status = "failed"
  \/ c.kind # "none" /\ ~r.data

\* The report is written when the config names a file for it; that it could not be generated
\* or written is only logged.
WriteJUnitReport ==
  /\ pc = "next"
  /\ current = Length
  /\ \/ junit' = [k \in 1..Len(results) |-> IsTestFailed(results[k], tests[k])]
     \/ UNCHANGED junit
  /\ pc' = "done"
  /\ UNCHANGED <<run, test, results, uploads, file, writeFaults, cluster, expired, luck>>

Done == pc = "done" /\ UNCHANGED vars

Step ==
  \/ NextTest
  \/ CleanupBefore
  \/ ConfigureCluster
  \/ SetupStandingConfig
  \/ Prepare
  \/ Measure
  \/ Conclude
  \/ ResetLimit
  \/ CleanupAfter
  \/ Record
  \/ Upload
  \/ WriteResultToFile
  \/ WriteJUnitReport

Next == Step \/ Done

\* main is one goroutine, and each of its calls ends by an answer or a deadline.
Spec == Init /\ [][Next]_vars /\ WF_vars(Step)

-----------------------------------------------------------------------------
Results ==
  [test : 0..Length, status : {"success", "failed"}, error : BOOLEAN, complete : BOOLEAN,
   data : BOOLEAN]

TypeOK ==
  /\ pc \in {"next", "before", "configure", "setup", "prepare", "measure", "teardown",
             "cleanup", "record", "upload", "write", "done"}
  /\ tests \in [1..Length -> Configs] /\ current \in 0..Length
  /\ thisResult \in Results
  /\ iteration \in Nat /\ measured \in 0..iteration
  /\ results \in Seq(Results) /\ file \in Seq(Results)
  /\ uploads \in Seq(1..Length)
  /\ junit \in Seq(BOOLEAN)
  /\ limit \in Limits \cup {Unset} /\ limitOf \in 0..Length
  /\ leftovers \in [Namespaces -> SUBSET (1..Length)]
  /\ deleted \in [Namespaces -> SUBSET (1..Length)]
  /\ expired \in BOOLEAN /\ disturbed \subseteq 1..Length
  /\ faults \in 0..MaxFaults /\ writeFaults \in 0..MaxWriteFaults /\ slow \in 0..MaxSlow

InTest == pc \in {"setup", "prepare", "measure"}

\* A result uploaded to ElasticSearch is that of a test that completed, in the order of the
\* tests and at most once ("must not publish it", benchmark.go:128), and a success among
\* them rests on a measurement unless the config asked for none.
UploadsAreComplete ==
  /\ \A k \in DOMAIN uploads :
       LET r == results[uploads[k]] IN
       /\ r.complete /\ r.test = uploads[k]
       /\ r.status = "success" /\ tests[r.test].kind = "perf" =>
            (r.data <=> tests[r.test].iterations > 0)
  /\ \A j, k \in DOMAIN uploads : j < k => uploads[j] < uploads[k]

\* The results file never mixes tests up: it lists the results of the first tests of the
\* run, however many writes have failed, and ends with one that completed.
FileIsAPrefix ==
  /\ Len(file) <= Len(results)
  /\ \A k \in DOMAIN file : file[k] = results[k] /\ file[k].test = k
  /\ file # <<>> => file[Len(file)].complete

\* A test is measured under the limit its config names, and one that names none under no
\* limit of an earlier test, unless a call failed while that earlier test was run or torn
\* down: a rollout that is too slow does not leave the limit behind.
LimitIsOwn ==
  InTest => IF cfg.cpuLimit # Unset THEN limit = cfg.cpuLimit
            ELSE limit = Unset \/ limitOf = 0 \/ limitOf \in disturbed

\* A test that cleans up also starts clean, as far as its cleanup can see to it: whatever of
\* an earlier test is still in its namespace is on its way out, whatever failed before, unless
\* a call of its own cleanup fails.  (That it is gone is not promised: no delete is awaited.)
NamespaceIsFresh ==
  InTest /\ ~cfg.leaveStandingConfig /\ current \notin disturbed =>
    leftovers[cfg.namespace] \subseteq deleted[cfg.namespace] \cup {current}

-----------------------------------------------------------------------------
(* The run implements Driver: what goes on in the cluster is invisible.    *)

phase ==
  CASE pc = "next" -> "between"
    [] pc \in {"before", "configure", "setup", "prepare", "measure"} -> "running"
    [] pc \in {"teardown", "cleanup"} -> "ended"
    [] pc = "record" -> "torn down"
    [] pc = "upload" -> "recorded"
    [] pc = "write" -> "published"
    [] pc = "done" -> "reported"

outcomeOf(r) == [test |-> r.test, complete |-> r.complete, error |-> r.error]
outcomes == [k \in DOMAIN results |-> outcomeOf(results[k])]

Run == INSTANCE Driver WITH
         outcome <- outcomeOf(thisResult), recorded <- outcomes, published <- uploads,
         saved <- Len(file), reported <- junit

\* Whatever fails, the output of a run can be read as that of Driver: one test after the
\* other, torn down before it is recorded, and published and saved in that order; and the
\* run goes on until each test of the list is recorded.  If there is a report then, it has
\* one entry for each of them, a failure whenever the test had an error.
ImplementsDriver == Run!Spec

-----------------------------------------------------------------------------
(* The inductive invariant, in parts.                                      *)

\* Whether a success rests on what its config asked for.
Sound(r) ==
  r.status = "success" /\ tests[r.test].kind = "perf" =>
    (r.data <=> tests[r.test].iterations > 0)

\* The results are those of the tests so far, in order; the one in progress is a failure
\* until it has been concluded, and only a complete one gets as far as its publication.
Recorded ==
  /\ pc \notin {"next", "done"} => current > 0
  /\ Len(results) = IF pc \in {"upload", "write", "next", "done"} THEN current ELSE current - 1
  /\ \A k \in DOMAIN results : results[k].test = k /\ Sound(results[k])
  /\ thisResult.test = current /\ Sound(thisResult)
  /\ pc \in {"before", "configure", "setup", "prepare", "measure"} =>
       thisResult.status = "failed"
  /\ pc \in {"upload", "write"} => results[current] = thisResult /\ thisResult.complete

\* The tests uploaded are complete, in order, and the present one is not yet among them
\* when its turn comes.
Uploaded ==
  /\ \A k \in DOMAIN uploads :
       /\ uploads[k] \in DOMAIN results /\ results[uploads[k]].complete
       /\ pc \notin {"write", "next", "done"} => uploads[k] < current
  /\ \A j, k \in DOMAIN uploads : j < k => uploads[j] < uploads[k]

\* A limit in the Installation is from before the run, or of a test that was disturbed.
LimitExcused == limit = Unset \/ limitOf = 0 \/ limitOf \in disturbed

\* Between its configuration and its teardown a test may have a limit of its own.
LimitKept ==
  /\ pc \notin {"setup", "prepare", "measure", "teardown"} => LimitExcused
  /\ pc \in {"setup", "prepare", "measure", "teardown"} =>
       LimitExcused \/ (cfg.cpuLimit # Unset /\ limitOf = current)
  /\ InTest /\ cfg.cpuLimit # Unset => limit = cfg.cpuLimit

\* From its cleanup on, a test that cleans up shares its namespace only with what goes away;
\* the teardown context is a new one each time.
NamespaceKept ==
  /\ expired => pc = "cleanup"
  /\ (InTest \/ pc = "configure") /\ ~cfg.leaveStandingConfig /\ current \notin disturbed =>
       leftovers[cfg.namespace] \subseteq deleted[cfg.namespace] \cup {current}

BenchmarkInv ==
  /\ TypeOK
  /\ Recorded
  /\ Uploaded
  /\ FileIsAPrefix
  /\ LimitKept
  /\ NamespaceKept

=============================================================================
