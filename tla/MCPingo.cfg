CONSTANTS
  Loops <- MCLoops
  Period <- MCPeriod
  Costs <- MCCosts
  Second = 20
  Quick = 4
  QuitAfters <- MCQuitAfters
  MaxCalls = 1
  Late = {"reach"}
  g1 = g1
  g2 = g2
  g3 = g3
  Slots <- MCSlots
  Timeout = 4
  Main = "main"
SPECIFICATION Spec
INVARIANTS
  RoomForEveryPing
PROPERTIES
  PaceIsKept
  AnAnswerIsReported
  NoPingerIsLeft
