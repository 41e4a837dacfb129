SPECIFICATION Spec
CONSTANTS
  Modes = {0, 1, 2}
  Initiator = I
  Responder = R
  Medium = 1
  Ludicrous = {}
  Boot = 0
  RINGCAP = 2
  Settings <- Neighbours
INVARIANT QuiescentAgree
