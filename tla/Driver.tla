------------------------------- MODULE Driver -------------------------------
(***************************************************************************)
(* What a run of the driver promises whoever reads its output: the tests   *)
(* of the list are run one after the other, each is torn down before it is *)
(* recorded, and recorded before the next one begins; one that completed   *)
(* is then offered to ElasticSearch, once, and the results so far to the   *)
(* results file; when all are recorded the run ends, and the report, if    *)
(* there is one, is a report of all.                                       *)
(*                                                                         *)
(* Benchmark, which says how a test goes and what can fail, is shown to    *)
(* implement this specification.                                           *)
(***************************************************************************)
EXTENDS Naturals, Sequences

CONSTANT Length  \* number of tests in the config file

VARIABLES
  phase,      (* of the test in progress, or "between" two tests           *)
  outcome,    (* of the test in progress or last run                       *)
  recorded,   (* the outcomes of the tests recorded                        *)
  published,  (* the numbers of the tests published, in order              *)
  saved,      (* how many results the results file has                     *)
  reported    (* for each test in the report, whether it failed; <<>> when *)
              (* there is no report                                        *)

driverVars == <<phase, outcome, recorded, published, saved, reported>>

Outcome(n, completed, failed) == [test |-> n, complete |-> completed, error |-> failed]

Init ==
  /\ phase = "between"
  /\ outcome = Outcome(0, TRUE, FALSE)
  /\ recorded = <<>>
  /\ published = <<>>
  /\ saved = 0
  /\ reported = <<>>

Begin ==
  /\ phase = "between" /\ outcome.test < Length
  /\ phase' = "running"
  /\ outcome' = Outcome(outcome.test + 1, TRUE, FALSE)
  /\ UNCHANGED <<recorded, published, saved, reported>>

\* A test ends, or is given up.
End ==
  /\ phase = "running"
  /\ phase' = "ended"
  /\ \E completed, failed \in BOOLEAN : outcome' = Outcome(outcome.test, completed, failed)
  /\ UNCHANGED <<recorded, published, saved, reported>>

\* The cluster is left to the next test.
TearDown ==
  /\ phase = "ended"
  /\ phase' = "torn down"
  /\ UNCHANGED <<outcome, recorded, published, saved, reported>>

Record ==
  /\ phase = "torn down"
  /\ recorded' = Append(recorded, outcome)
  /\ phase' = IF outcome.complete THEN "recorded" ELSE "between"
  /\ UNCHANGED <<outcome, published, saved, reported>>

\* Publishing may be configured off or fail, which has no consequences.
Publish ==
  /\ phase = "recorded"
  /\ published' \in {published, Append(published, outcome.test)}
  /\ phase' = "published"
  /\ UNCHANGED <<outcome, recorded, saved, reported>>

\* The file gets all the results or, when writing fails, keeps or loses those it has.
Save ==
  /\ phase = "published"
  /\ saved' \in {Len(recorded), saved, 0}
  /\ phase' = "between"
  /\ UNCHANGED <<outcome, recorded, published, reported>>

\* A report may be configured off or fail, which has no consequences; one that is made has an
\* entry for each test, a failure whenever the test had an error.
Report ==
  /\ phase = "between" /\ outcome.test = Length
  /\ \/ UNCHANGED reported
     \/ /\ reported' \in [1..Len(recorded) -> BOOLEAN]
        /\ \A k \in 1..Len(recorded) : recorded[k].error => reported'[k]
  /\ phase' = "reported"
  /\ UNCHANGED <<outcome, recorded, published, saved>>

Next == Begin \/ End \/ TearDown \/ Record \/ Publish \/ Save \/ Report

Spec == Init /\ [][Next]_driverVars /\ WF_driverVars(Next)

=============================================================================
