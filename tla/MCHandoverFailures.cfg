SPECIFICATION FairSpec
CONSTANTS
  a = a
  b = b
  kA = kA
  left = left
  Machine <- MCMachine
  Id <- MCId
  NoMachine = NoMachine
  Key = {}
  RepeatKey = {}
  NoKey = NoKey
  Button = {}
  Remap <- NoRemap
  Width = 2
  Beyond <- MCBeyond
  PushDistance = 1
  BlockWhileHeld = TRUE
  Deliberate = 1
  SeqMod = 16
  MaxInputs = 2
  MaxDatagrams = 1
  MaxFaults = 1
INVARIANTS
  LostPeerLetsGo
  DeskFollowsConnections
PROPERTIES
  PointerComesHome
