SPECIFICATION SessionFairSpec
CONSTANTS
  Initiator = I
  Responder = R
  kHsMaxAttempts = 2
  Reboots = {}
  Reconnects = {I}
  Faults = {"loss"}
  OnlyMet = TRUE
  MaxDisturb = 1
  MaxFault = 0
  RINGCAP = 2
PROPERTIES
  KeysConverge
