SPECIFICATION Spec
CONSTANTS
  Machine <- Three
  Presses = {}
  SettleReads = 5
  MaxPresses = 0
  MaxDrops = 0
INVARIANTS
  Agreement
