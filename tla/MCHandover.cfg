SPECIFICATION Spec
CONSTANTS
  a = a
  b = b
  kA = kA
  left = left
  Machine <- MCMachine
  Id <- MCId
  NoMachine = NoMachine
  Key <- MCKey
  RepeatKey <- MCKey
  NoKey = NoKey
  Button <- MCButton
  Remap <- MCRemap
  Width = 1
  Beyond <- MCBeyond
  PushDistance = 1
  BlockWhileHeld = TRUE
  Deliberate = 1
  SeqMod = 16
  MaxInputs = 4
  MaxDatagrams = 1
  MaxFaults = 0
INVARIANTS
  PinnedWhileAway
  LocalReleasesSeen
  NoMutualDriving
  DriverDrives
PROPERTIES
  HeldButtonKeepsPointer
