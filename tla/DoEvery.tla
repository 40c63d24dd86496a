------------------------------ MODULE DoEvery ------------------------------
(***************************************************************************)
(* DoEvery of images/ttfr/pingo.go: calls a function once per period, and  *)
(* once a second corrects the time it sleeps by what the calls of the last *)
(* window have cost.  Several goroutines run it at once, against one       *)
(* clock; what the function does is up to the module that extends this     *)
(* one, which takes the loop from "call" to "asleep" with Rest.            *)
(***************************************************************************)
EXTENDS Integers

CONSTANTS
  Loops,      (* the calls of DoEvery                                      *)
  Period,     (* per loop, the time between two calls of its function      *)
  Second,     (* the length of a window                                    *)
  Quick,      (* 100ms: only loops with a shorter period are corrected     *)
  QuitAfters, (* values of QUIT_AFTER                                      *)
  MaxCalls,   (* bound: calls of a loop that never returns                 *)
  Late,       (* bound: loops that may be held up before their first round *)
  Costs       (* per loop, what a round may take besides its sleep         *)

ASSUME DoEveryAssumption ==
  /\ {Second, Quick} \subseteq Nat \ {0} /\ QuitAfters \subseteq Nat /\ MaxCalls \in Nat
  /\ Period \in [Loops -> Nat \ {0}] /\ Late \subseteq Loops
  /\ \A l \in Loops : Costs[l] # {} /\ Costs[l] \subseteq Nat
  \* A round of a corrected loop takes some time, however little.
  /\ \A l \in Loops : Period[l] < Quick => 0 \notin Costs[l]

VARIABLES
  quitAfter,  (* number of calls before a loop returns; 0: never           *)
  now,        (* the clock                                                 *)
  loop,       (* per loop, its local variables and where it is             *)
  cost,       (* per loop, what a round of the present window costs        *)
  steady      (* per loop, what a round of the last window cost, or 0 if   *)
              (* the window began in arrears or was held up; a history     *)

timing == <<quitAfter, now, loop, cost, steady>>

\* Division of integers in Go, which truncates.
Quotient(a, b) == IF a >= 0 THEN a \div b ELSE -((-a) \div b)

\* What the loop asks time.Sleep for; a negative time returns at once.
Sleep(l) == Period[l] + loop[l].adjustment

LoopInit ==
  /\ quitAfter \in QuitAfters
  /\ now = 0
  /\ loop = [l \in Loops |-> [at |-> "unstarted", wake |-> 0, num |-> 0, windowStart |-> 0,
                              windowCount |-> 0, adjustment |-> 0]]
  /\ cost \in [Loops -> UNION {Costs[l] : l \in Loops}]
  /\ \A l \in Loops : cost[l] \in Costs[l]
  /\ steady = [l \in Loops |-> 0]

-----------------------------------------------------------------------------
\* The loops of the set S are called.
Started(S) ==
  loop' = [l \in Loops |-> IF l \in S THEN [loop[l] EXCEPT !.at = "head", !.windowStart = now]
                                      ELSE loop[l]]

Finished(l) == quitAfter > 0 /\ loop[l].num >= quitAfter

Return(l) ==
  /\ loop[l].at = "head"
  /\ Finished(l)
  /\ loop' = [loop EXCEPT ![l].at = "returned"]
  /\ UNCHANGED <<quitAfter, now, cost, steady>>

\* The bound on the length of behaviours has been reached.
Endless(l) == quitAfter = 0 /\ loop[l].at = "head" /\ loop[l].num >= MaxCalls

WindowIsOver(l) == now - loop[l].windowStart > Second /\ Period[l] < Quick

\* Mutant of Correction: relative to the period, not to the time slept.
CorrectionOfPeriod(l) ==
  LET n == loop[l].windowCount
  IN Quotient(n * Period[l] - (now - loop[l].windowStart), n)

\* On average the calls of the window took this much longer than the sleeps.
Correction(l) ==
  LET n == loop[l].windowCount
  IN Quotient(n * Sleep(l) - (now - loop[l].windowStart), n)

\* The window had a sleep in each round, and nothing but the costs on top.
OnTime(l) ==
  /\ Sleep(l) >= 0
  /\ now - loop[l].windowStart = loop[l].windowCount * (Sleep(l) + cost[l])

\* Before its first round a loop reads the clock twice, and may be held up in between.
HeldUp(l) == l \in Late /\ loop[l].at = "head" /\ loop[l].num = 0

\* The correction divides by the calls of the window.
DividesByZero(l) ==
  /\ loop[l].at = "head"
  /\ ~Finished(l) /\ ~Endless(l)
  /\ WindowIsOver(l)
  /\ loop[l].windowCount = 0

\* A window ends; the next one may be cheaper or dearer.
Correct(l) ==
  /\ loop[l].at = "head"
  /\ ~Finished(l) /\ ~Endless(l)
  /\ WindowIsOver(l)
  /\ loop[l].windowCount # 0
  /\ loop' = [loop EXCEPT ![l].at = "call", ![l].adjustment = Correction(l),
                          ![l].windowStart = now, ![l].windowCount = 0]
  /\ \E c \in Costs[l] : cost' = [cost EXCEPT ![l] = c]
  /\ steady' = [steady EXCEPT ![l] = IF OnTime(l) THEN cost[l] ELSE 0]
  /\ UNCHANGED <<quitAfter, now>>

Proceed(l) ==
  /\ loop[l].at = "head"
  /\ ~Finished(l) /\ ~Endless(l)
  /\ ~WindowIsOver(l)
  /\ loop' = [loop EXCEPT ![l].at = "call"]
  /\ UNCHANGED <<quitAfter, now, cost, steady>>

\* The function has been called, and the loop sleeps; cost[l] is the time both take
\* beyond the time asked for.
Rest(l) ==
  loop' = [loop EXCEPT ![l].at = "asleep",
                       ![l].wake = now + cost[l] + (IF Sleep(l) > 0 THEN Sleep(l) ELSE 0)]

Wake(l) ==
  /\ loop[l].at = "asleep"
  /\ loop[l].wake <= now
  /\ loop' = [loop EXCEPT ![l].at = "head", ![l].num = @ + 1, ![l].windowCount = @ + 1]
  /\ UNCHANGED <<quitAfter, now, cost, steady>>

LoopStep(l) == Return(l) \/ Correct(l) \/ Proceed(l) \/ Wake(l)
=============================================================================
