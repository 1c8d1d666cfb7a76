SPECIFICATION ReplaceSpec
CONSTANTS
  a = a
  b = b
  kA = kA
  left = left
  Machine <- MCMachine
  Id <- MCId
  NoMachine = NoMachine
  Key = {}
  RepeatKey = {}
  NoKey = NoKey
  Button = {}
  Remap <- NoRemap
  Width = 1
  Beyond <- MCBeyond
  PushDistance = 1
  BlockWhileHeld = TRUE
  Deliberate = 1
  SeqMod = 16
  MaxInputs = 1
  MaxDatagrams = 0
  MaxFaults = 1
INVARIANT
  DriverDrives
CHECK_DEADLOCK FALSE
