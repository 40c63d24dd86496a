------------------------------- MODULE Pingo -------------------------------
(***************************************************************************)
(* pingo, the client in the pods of a TTFR test (images/ttfr/pingo.go).    *)
(* First CalculateTTFR: pings are sent, each from a goroutine of its own   *)
(* and in ever longer intervals, until one of them has been answered.      *)
(* Its goroutines take any time.  Then connectivity checks, each a DoEvery *)
(* whose function waits for room in a channel and starts a ping, run until *)
(* main, which pushes metrics from a DoEvery of its own, returns.          *)
(*                                                                         *)
(* The clock runs from the first connectivity check on; it jumps to the    *)
(* next moment at which a loop wakes up or a ping reaches its timeout.     *)
(***************************************************************************)
EXTENDS DoEvery, SequencesExt, FiniteSetsExt

CONSTANTS
  Slots,      (* bound: per value of QUIT_AFTER, the goroutines of         *)
              (* CalculateTTFR that can be in flight, as a set             *)
  Timeout,    (* no ping of a connectivity check takes longer              *)
  Main        (* the loop of main; the others are connectivity checks      *)

ASSUME PingoAssumption ==
  Timeout \in Nat \ {0} /\ Main \in Loops /\ DOMAIN Slots = QuitAfters

VARIABLES
  main,       (* the main goroutine: "ping", "wait", "check", "found",     *)
              (* "serving", "exited" or "panicked"                         *)
  pinger,     (* per slot, a goroutine of CalculateTTFR: "free",           *)
              (* "pinging" or "answered"                                   *)
  responseResults,  (* number of times in the channel                      *)
  pings,      (* per loop, the deadlines of its pings in flight, in order  *)
  calm        (* per loop, whether it never cost more than its period nor  *)
              (* less than before, and was not held up before its first    *)
              (* round; a history                                          *)

first == <<main, pinger, responseResults>>
vars == <<first, timing, pings, calm>>

Checks == Loops \ {Main}

Pingers == UNION {Slots[q] : q \in QuitAfters}

Running == main \notin {"exited", "panicked"}

Init ==
  /\ LoopInit
  /\ main = "ping"
  /\ pinger = [g \in Pingers |-> "free"]
  /\ responseResults = 0
  /\ pings = [l \in Checks |-> <<>>]
  /\ calm = [l \in Loops |-> cost[l] <= Period[l]]

-----------------------------------------------------------------------------
(* CalculateTTFR.                                                          *)

\* One more goroutine, and the loop sleeps for the interval.
SendPing(g) ==
  /\ main = "ping"
  /\ g \in Slots[quitAfter] /\ pinger[g] = "free"
  /\ pinger' = [pinger EXCEPT ![g] = "pinging"]
  /\ main' = "wait"
  /\ UNCHANGED <<responseResults, timing, pings, calm>>

EndInterval ==
  /\ main = "wait"
  /\ main' = "check"
  /\ UNCHANGED <<pinger, responseResults, timing, pings, calm>>

\* A non-blocking receive: the time is set and logged, or the loop goes on.
CheckResults ==
  /\ main = "check"
  /\ IF responseResults > 0
     THEN main' = "found" /\ responseResults' = responseResults - 1
     ELSE main' = "ping" /\ UNCHANGED responseResults
  /\ UNCHANGED <<pinger, timing, pings, calm>>

\* Ping returns nil or, at its timeout at the latest, an error.
PingReturns(g) ==
  /\ Running
  /\ pinger[g] = "pinging"
  /\ \E to \in {"answered", "free"} : pinger' = [pinger EXCEPT ![g] = to]
  /\ UNCHANGED <<main, responseResults, timing, pings, calm>>

\* Mutant of Offer: a blocking send.
OfferAndWait(g) ==
  /\ Running
  /\ pinger[g] = "answered"
  /\ responseResults < 1
  /\ responseResults' = responseResults + 1
  /\ pinger' = [pinger EXCEPT ![g] = "free"]
  /\ UNCHANGED <<main, timing, pings, calm>>

\* Mutant of Offer: a channel without a buffer, where nobody waits to receive.
OfferUnbuffered(g) ==
  /\ Running
  /\ pinger[g] = "answered"
  /\ pinger' = [pinger EXCEPT ![g] = "free"]
  /\ UNCHANGED <<main, responseResults, timing, pings, calm>>

\* A non-blocking send to a channel of capacity one; the goroutine ends.
Offer(g) ==
  /\ Running
  /\ pinger[g] = "answered"
  /\ responseResults' = IF responseResults < 1 THEN responseResults + 1 ELSE responseResults
  /\ pinger' = [pinger EXCEPT ![g] = "free"]
  /\ UNCHANGED <<main, timing, pings, calm>>

Pinger(g) == PingReturns(g) \/ Offer(g)

-----------------------------------------------------------------------------
(* CheckConnectivity and the rest of main.                                 *)

\* main starts the connectivity checks and goes into a loop of its own.
Serve ==
  /\ main = "found"
  /\ main' = "serving"
  /\ Started(Loops)
  /\ UNCHANGED <<pinger, responseResults, quitAfter, now, cost, steady, pings, calm>>

\* Mutant of maxConcurrentPings: room for those that overlap, and no more.
maxConcurrentPingsExact(l) == (Timeout + Period[l] - 1) \div Period[l] - 1

\* int64(1.2*rate*timeout) + 1, the rate being one per period.
maxConcurrentPings(l) == (12 * Timeout) \div (10 * Period[l]) + 1

\* No room in maxGoroutinesSem.
Full(l) == Len(pings[l]) >= maxConcurrentPings(l)

\* The function of a connectivity check: it takes a place, or waits for one, and
\* starts a ping.
StartPing(l) ==
  /\ main = "serving"
  /\ loop[l].at = "call"
  /\ ~Full(l)
  /\ Rest(l)
  /\ pings' = [pings EXCEPT ![l] = Append(@, now + Timeout)]
  /\ UNCHANGED <<first, quitAfter, now, cost, steady, calm>>

\* A ping ends, with an answer or an error, and gives its place back.
EndPing(l) ==
  /\ main = "serving"
  /\ \E i \in DOMAIN pings[l] : pings' = [pings EXCEPT ![l] = RemoveAt(@, i)]
  /\ UNCHANGED <<first, timing, calm>>

\* The function of main's loop: metrics are pushed.
Push ==
  /\ main = "serving"
  /\ loop[Main].at = "call"
  /\ Rest(Main)
  /\ UNCHANGED <<first, quitAfter, now, cost, steady, pings, calm>>

\* A step of DoEvery.
Loop(l) ==
  /\ main = "serving"
  /\ LoopStep(l)
  /\ calm' = [calm EXCEPT ![l] = @ /\ cost'[l] \in cost[l]..Period[l]]
  /\ UNCHANGED <<first, pings>>

\* main returns, and the process ends with all its goroutines.
Exit ==
  /\ main = "serving"
  /\ loop[Main].at = "returned"
  /\ main' = "exited"
  /\ UNCHANGED <<pinger, responseResults, timing, pings, calm>>

\* A division by zero in any goroutine ends the process.
Panic ==
  /\ main = "serving"
  /\ \E l \in Loops : DividesByZero(l)
  /\ main' = "panicked"
  /\ UNCHANGED <<pinger, responseResults, timing, pings, calm>>

Waits(l) ==
  \/ HeldUp(l)
  \/ loop[l].at = "returned"
  \/ loop[l].at = "asleep" /\ loop[l].wake > now
  \/ loop[l].at = "call" /\ l \in Checks /\ Full(l)

Deadlines == UNION {ToSet(pings[l]) : l \in Checks}

\* Nothing is due: time passes until something is.  It holds up the loops at "call", for want
\* of room, and those whose first round is yet to begin, for want of a processor.
Tick ==
  /\ main = "serving"
  /\ \A l \in Loops : Waits(l)
  /\ \A d \in Deadlines : d > now
  /\ LET moments == Deadlines \cup {loop[l].wake : l \in {k \in Loops : loop[k].at = "asleep"}}
     IN moments # {} /\ now' = Min(moments)
  /\ steady' = [l \in Loops |-> IF loop[l].at \in {"head", "call"} THEN 0 ELSE steady[l]]
  /\ calm' = [l \in Loops |-> calm[l] /\ ~HeldUp(l)]
  /\ UNCHANGED <<first, quitAfter, loop, cost, pings>>

\* The process has ended, or goes on beyond the bound.
Stopped == (~Running \/ \E l \in Loops : Endless(l)) /\ UNCHANGED vars

Serving == \/ Serve \/ Push \/ Exit \/ Panic \/ Tick
           \/ \E l \in Loops : Loop(l)
           \/ \E l \in Checks : StartPing(l) \/ EndPing(l)

Next ==
  \/ \E g \in Pingers : SendPing(g) \/ Pinger(g)
  \/ EndInterval \/ CheckResults
  \/ Serving
  \/ Stopped

\* Goroutines that can run do, sleeps end, and every ping ends.
Fairness ==
  /\ WF_vars(\E g \in Pingers : SendPing(g)) /\ WF_vars(EndInterval) /\ WF_vars(CheckResults)
  /\ WF_vars(Serving)
  /\ \A g \in Pingers : WF_vars(Pinger(g))

Spec == Init /\ [][Next]_vars /\ Fairness

-----------------------------------------------------------------------------
(* Properties.                                                             *)

\* An answer, however late in the sleep of the loop and whatever other pings do, makes
\* CalculateTTFR report a time.
AnAnswerIsReported ==
  \A g \in Pingers : (pinger[g] = "answered" /\ main \in {"ping", "wait", "check"}) ~> (main = "found")

\* No goroutine of CalculateTTFR stays behind: also after the function has returned and
\* nobody receives any more, each one ends (or the process does).
NoPingerIsLeft ==
  \A g \in Pingers : (pinger[g] = "answered") ~> (pinger[g] = "free" \/ ~Running)

\* "DoEvery runs a function every period (accurately)": a window whose rounds cost what
\* those of the window before did, and no more than the period, has exactly one call per
\* period, unless the window before had arrears to make up for, or one of the two was held
\* up by the limit of CheckConnectivity.
PaceIsKept ==
  [][\A l \in Loops :
       /\ Correct(l)
       /\ cost[l] = steady[l] /\ cost[l] <= Period[l]
       => now - loop[l].windowStart = loop[l].windowCount * Period[l]]_vars

\* The channel of CheckConnectivity limits the goroutines and not the rate: as long as the
\* costs have been bearable and not fallen, there is room for the next ping, even when all
\* pings take the full timeout.
RoomForEveryPing ==
  \A l \in Checks : calm[l] /\ loop[l].at = "call" =>
    Cardinality({i \in DOMAIN pings[l] : pings[l][i] > now}) < maxConcurrentPings(l)

-----------------------------------------------------------------------------
(* The inductive invariant.                                                *)

\* The variables of the program and of its clock, and the histories.
TypeOK ==
  /\ quitAfter \in QuitAfters /\ now \in Nat
  /\ loop \in [Loops -> [at : {"unstarted", "head", "call", "asleep", "returned"},
                         wake : Nat, num : Nat, windowStart : Nat, windowCount : Nat,
                         adjustment : Int]]
  /\ cost \in [Loops -> Nat] /\ \A l \in Loops : cost[l] \in Costs[l]
  /\ steady \in [Loops -> Nat]
  /\ main \in {"ping", "wait", "check", "found", "serving", "exited", "panicked"}
  /\ pinger \in [Pingers -> {"free", "pinging", "answered"}]
  /\ responseResults \in 0..1
  /\ pings \in [Checks -> Seq(Nat)]
  /\ calm \in [Loops -> BOOLEAN]

\* Nothing has happened to a loop before it is called.
Fresh(l) ==
  /\ loop[l].at = "unstarted" /\ loop[l].num = 0
  /\ loop[l].windowCount = 0 /\ loop[l].adjustment = 0
  /\ steady[l] = 0
  /\ l \in Checks => pings[l] = <<>>

\* Until main serves, no loop has been called.
NotYetServing == main \notin {"serving", "exited", "panicked"} => \A l \in Loops : Fresh(l)

\* At the head of a loop its window has had a call, unless no round has begun yet.
WindowHasCalls(l) ==
  loop[l].at = "head" => loop[l].windowCount > 0 \/ loop[l].num = 0

\* A loop that is asleep wakes up in time.
WakesInTime(l) == loop[l].at = "asleep" => now <= loop[l].wake

\* The loop has been called and has not returned.
Runs(l) == loop[l].at \in {"head", "call", "asleep"}

\* The next time such a loop calls its function.
NextCall(l) == IF loop[l].at = "asleep" THEN loop[l].wake ELSE now

\* The calls of the window by then.
CallsByThen(l) == loop[l].windowCount + (IF loop[l].at = "asleep" THEN 1 ELSE 0)

\* Costs that the correction can follow and has followed.
OnBeat(l) == calm[l] \/ (0 < steady[l] /\ cost[l] = steady[l] /\ cost[l] <= Period[l])

\* What the correction is worth: it makes up for the costs of the window before, if that was
\* on time, and in a calm loop for no more than the present ones.
Corrected(l) ==
  /\ Period[l] >= Quick => loop[l].adjustment = 0 /\ steady[l] = 0
  /\ steady[l] > 0 => loop[l].adjustment = -steady[l]
  /\ calm[l] => cost[l] <= Period[l] /\ loop[l].adjustment >= -cost[l]

\* The rounds of such a window take their sleep and their cost, and nothing else.
Beats(l) ==
  Runs(l) /\ OnBeat(l) =>
    NextCall(l) = loop[l].windowStart + CallsByThen(l) * (Sleep(l) + cost[l])

\* The pings in flight of a calm loop are a period or more apart, and so is the next call.
Spaced(l) ==
  Runs(l) /\ calm[l] =>
    \A i \in DOMAIN pings[l] :
      pings[l][i] + (Len(pings[l]) + 1 - i) * Period[l] <= NextCall(l) + Timeout

LoopOK(l) ==
  /\ WindowHasCalls(l) /\ WakesInTime(l) /\ Corrected(l) /\ Beats(l)
  /\ l \in Checks => Spaced(l)

PingoInv == TypeOK /\ NotYetServing /\ \A l \in Loops : LoopOK(l)
=============================================================================
