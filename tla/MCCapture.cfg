SPECIFICATION Spec
CONSTANTS
  Peer = {mac, pc}
  NoPeer = NoPeer
  Key = {k}
  Button = {left}
  Left = left
  BlockWhileHeld = TRUE
INVARIANTS
  DrivenWherePointerIs
  HeldWhereItWentDown
PROPERTIES
  PictureGetsInput
  HeldKeepsPointer
  OnlyPushesCross
CHECK_DEADLOCK FALSE
