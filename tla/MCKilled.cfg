SPECIFICATION KillSpec
CONSTANTS
  a = a
  b = b
  kA = kA
  left = left
  Machine <- MCMachine
  Id <- MCId
  NoMachine = NoMachine
  Key <- MCKey
  RepeatKey <- MCKey
  NoKey = NoKey
  Button = {}
  Remap <- MCRemap
  Width = 1
  Beyond <- MCBeyond
  PushDistance = 1
  BlockWhileHeld = TRUE
  Deliberate = 1
  SeqMod = 16
  MaxInputs = 3
  MaxDatagrams = 0
  MaxFaults = 1
INVARIANT
  NoKeysStuck
CHECK_DEADLOCK FALSE
