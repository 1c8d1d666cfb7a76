SPECIFICATION Spec
CONSTANTS
  Peer = {mac, pc}
  NoPeer = NoPeer
  Key = {k}
  Button = {left}
  Left = left
  BlockWhileHeld = TRUE
PROPERTIES
  OnlyPushesEverCross
CHECK_DEADLOCK FALSE
