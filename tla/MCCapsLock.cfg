SPECIFICATION Spec
CONSTANTS
  Machine <- Two
  Presses <- Windows
  SettleReads = 5
  MaxPresses = 3
  MaxDrops = 1
INVARIANTS
  Agreement
PROPERTIES
  PressIsOneChange
  EventuallyAgree
