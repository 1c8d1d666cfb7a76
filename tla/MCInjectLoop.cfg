SPECIFICATION Spec
CONSTANTS
  p1 = p1
  p2 = p2
  kA = kA
  kShift = kShift
  left = left
  Peer <- MCPeer
  NoPeer = NoPeer
  Key <- MCKey
  RepeatKey <- MCRepeatKey
  NoKey = NoKey
  Button <- MCButton
  Pos <- MCPos
  Origin = 0
  MaxClicks = 2
  SeqMod = 4
INVARIANTS
  NothingHeldUnlessDriven
  HeldForDriver
PROPERTIES
  MotionNeverGoesBack
  ImplementsDrivenMachine
