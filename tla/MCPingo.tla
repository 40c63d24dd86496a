------------------------------ MODULE MCPingo ------------------------------
(* Pingo with a ping every 75ms, 25ms to the unit of time.                 *)
EXTENDS Pingo

CONSTANTS g1, g2, g3

MCLoops == {"reach", "main"}

MCPeriod == [l \in MCLoops |-> IF l = "reach" THEN 3 ELSE 400]

MCCosts == [l \in MCLoops |-> IF l = "reach" THEN {1, 2, 4} ELSE {0}]

MCQuitAfters == {0, 18}

MCSlots == [q \in MCQuitAfters |-> IF q = 0 THEN {g1, g2, g3} ELSE {g1}]

=============================================================================
