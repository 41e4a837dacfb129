SPECIFICATION FairSpec
CONSTANTS
  Modes = {0, 1, 2}
  Initiator = I
  Responder = R
  Medium = 1
  Ludicrous = {2}
  Boot = 0
  RINGCAP = 2
  Settings <- Installations
INVARIANTS ModeInv QuiescentAgree
PROPERTY Reconverges
