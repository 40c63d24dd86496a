------------------------------ MODULE BulkCall ------------------------------
(***************************************************************************)
(* What a bulk operation of tiger-bench promises its caller: given a list  *)
(* of n independent API calls it performs each of them exactly once, in    *)
(* any order, and only when every one has its answer returns either no     *)
(* error or the error of the first failed entry of the list.               *)
(*                                                                         *)
(* WorkerPool, the goroutine fan-out that the code uses for policies and   *)
(* for services, is shown to implement this specification.                 *)
(***************************************************************************)
EXTENDS Naturals

CONSTANTS
  MaxTasks,  (* the longest list of calls that is submitted                *)
  Errors,    (* the errors an API call may answer with                     *)
  NoError    (* nil                                                        *)

Slots == 0..MaxTasks - 1     \* positions of the list of calls

Answers == Errors \cup {NoError}

VARIABLES
  count,    (* number of calls in the list of the operation in progress    *)
  open,     (* whether an operation is in progress                         *)
  answer,   (* the answers so far, a function on the slots answered        *)
  outcome   (* what the last finished operation returned                   *)

bulkVars == <<count, open, answer, outcome>>

FirstFailure(f, n) ==
  LET failed == {s \in 0..n - 1 : f[s] # NoError}
  IN  IF failed = {} THEN NoError
      ELSE f[CHOOSE s \in failed : \A r \in failed : s <= r]

Init ==
  /\ count = 0
  /\ open = FALSE
  /\ answer = <<>>
  /\ outcome = NoError

Submit(n) ==
  /\ ~open
  /\ open' = TRUE
  /\ count' = n
  /\ answer' = <<>>
  /\ outcome' = NoError

Perform(s, a) ==
  /\ open
  /\ s < count
  /\ s \notin DOMAIN answer
  /\ answer' = [r \in DOMAIN answer \cup {s} |-> IF r = s THEN a ELSE answer[r]]
  /\ UNCHANGED <<count, open, outcome>>

Return ==
  /\ open
  /\ \A s \in Slots : s < count => s \in DOMAIN answer
  /\ open' = FALSE
  /\ outcome' = FirstFailure(answer, count)
  /\ UNCHANGED <<count, answer>>

Next ==
  \/ \E n \in 0..MaxTasks : Submit(n)
  \/ \E s \in Slots, a \in Answers : Perform(s, a)
  \/ Return

Fairness ==
  /\ WF_bulkVars(\E s \in Slots, a \in Answers : Perform(s, a))
  /\ WF_bulkVars(Return)

Spec == Init /\ [][Next]_bulkVars /\ Fairness

=============================================================================
