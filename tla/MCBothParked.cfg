SPECIFICATION BounceSpec
CONSTANTS
  a = a
  b = b
  kA = kA
  left = left
  Machine <- MCMachine
  Id <- MCId
  NoMachine = NoMachine
  Key = {}
  RepeatKey = {}
  NoKey = NoKey
  Button = {}
  Remap <- NoRemap
  Width = 1
  Beyond <- MCBeyond
  PushDistance = 1
  BlockWhileHeld = TRUE
  Deliberate = 1
  SeqMod = 16
  MaxInputs = 4
  MaxDatagrams = 2
  MaxFaults = 0
INVARIANT
  PointerIsSomewhere
CHECK_DEADLOCK FALSE
